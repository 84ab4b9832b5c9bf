------------------------------ MODULE ScreenProofs ------------------------------
(***************************************************************************)
(* Invariants of the screens of a tab, for every value of the constants.      *)
(* PageRooms: a tab ends in the room of the page it shows, and shows its last    *)
(* version and comments or tells that there are others.  The invariant follows   *)
(* a change on its way: what is shown is what is stored, or an event about it    *)
(* is in the inbox, or nobody told the tab.                                   *)
(* Forms: what the server carried out is known, or an answer is on its way, or   *)
(* lost; a form waits for an answer that will unlock it.                       *)
(* EditorSession: a text that is held anywhere lacks nothing of the version it    *)
(* came from but what was erased.                                           *)
(* ListScreens: one list is awaited, and what it says, or the rows shown, are     *)
(* those stored but for the screen's own change under way.                     *)
(***************************************************************************)
EXTENDS TabScreens, FiniteSetTheorems, FunctionTheorems, SequenceTheorems, TLAPS

Message      == [op : {"join", "leave"}, page : Pages]
PageRequest  == [n : Nat, page : Pages, reload : BOOLEAN, at : {"sent", "served"}, value : Nat \cup {None}]
ReloadShape  == [n : Nat, at : {"sent", "served"}, value : Nat \cup {None}]

RoomsTyped ==
  /\ route \in Pages \cup {None} /\ last \in Nat /\ asked \in Nat /\ banner \in BOOLEAN /\ up \in BOOLEAN
  /\ page \in [id : Pages, version : Nat] \cup {None} /\ thread \in [n : Nat, value : Nat] \cup {None}
  /\ rooms \subseteq Pages /\ live \subseteq Pages /\ unheard \subseteq Pages \X Kinds
  /\ saved \in [Pages -> [Kinds -> Nat \ {0}]]
  /\ out \in Seq(Message) /\ checks \in Seq(Pages) /\ inbox \in Seq(Pages \X Kinds)
  /\ requests \subseteq PageRequest /\ reloads \subseteq ReloadShape

(* The last request is for the page of the address, and is answered once.      *)
RequestsInOrder ==
  /\ page # None => page.id = route /\ \A r \in requests : r.n # last
  /\ \A r \in requests : r.n <= last /\ (r.n = last => r.page = route)
  /\ \A r, s \in requests : r.n = s.n => r = s

(* A list of comments belongs to a page that is shown, and answers one request.  *)
ReloadsInOrder ==
  /\ page = None => ~banner /\ reloads = {} /\ thread = None
  /\ thread # None => thread.n <= asked /\ \A c \in reloads : c.n # thread.n
  /\ \A c \in reloads : c.n <= asked
  /\ \A c, d \in reloads : c.n = d.n => c = d

(* What is known of a page is stored, or an event about it is on its way, or     *)
(* was lost.                                                                *)
OnItsWay(e) == \E i \in 1..Len(inbox) : inbox[i] = e
Known(p, kind, v) == <<p, kind>> \in unheard \/ saved[p][kind] = v \/ OnItsWay(<<p, kind>>)

VersionKnown ==
  /\ page # None => banner \/ Known(page.id, "version", page.version)
  /\ \A r \in requests :
       (r.n = last /\ r.at = "served" /\ r.value # None) => Known(r.page, "version", r.value)

CommentsKnown ==
  /\ \A c \in reloads :
       (c.n = asked /\ c.at = "served" /\ c.value # None) => Known(page.id, "comments", c.value)
  /\ (thread # None /\ thread.n = asked) => Known(page.id, "comments", thread.value)

(* An event of a version, and the banner, come from a version that was saved.    *)
VersionsTold ==
  /\ \A i \in 1..Len(inbox) : inbox[i][2] = "version" => saved[inbox[i][1]]["version"] > 1
  /\ banner => saved[page.id]["version"] > 1

(* The socket is in the room of p, or will be: it is sent a join after the last   *)
(* leave, or one is being checked and no leave is on its way.                 *)
Leave(p) == [op |-> "leave", page |-> p]
Join(p)  == [op |-> "join", page |-> p]
JoinComes(p) == \E i \in 1..Len(out) : out[i] = Join(p) /\ \A j \in (i + 1)..Len(out) : out[j] # Leave(p)
Stays(p) == (\A j \in 1..Len(out) : out[j] # Leave(p)) /\
            (p \in rooms \/ p \notin live \/ \E i \in 1..Len(checks) : checks[i] = p)
RoomReached ==
  /\ ~up => rooms = {} /\ checks = <<>>
  /\ (up /\ page # None) => JoinComes(page.id) \/ Stays(page.id)

RoomsInv ==
  /\ RoomsTyped /\ RequestsInOrder /\ ReloadsInOrder
  /\ VersionKnown /\ CommentsKnown /\ VersionsTold /\ RoomReached

LEMMA RoomsTell ==
  ASSUME RoomsInv PROVE ViewersAreTold
<1> USE RoomsAssumption
<1>1. TypeOK
  BY DEF RoomsInv, RoomsTyped, RoomReached, ReloadsInOrder, TypeOK
<1>2. JoinedWhatIsShown
  BY DEF RoomsInv, RoomReached, JoinComes, Stays, JoinedWhatIsShown, Settled
<1>3. TellsChanges
  BY DEF RoomsInv, RequestsInOrder, VersionKnown, CommentsKnown, Known, OnItsWay, TellsChanges, Settled
<1>4. BannerIsOfThePage
  BY DEF RoomsInv, VersionsTold, BannerIsOfThePage
<1> QED
  BY <1>1, <1>2, <1>3, <1>4 DEF ViewersAreTold

LEMMA RoomsBegin ==
  ASSUME Init PROVE RoomsInv
<1> USE RoomsAssumption DEF Init
<1>1. RoomsTyped
  <2>1. saved \in [Pages -> [Kinds -> Nat \ {0}]]
    OBVIOUS
  <2>2. out \in Seq(Message) /\ checks \in Seq(Pages) /\ inbox \in Seq(Pages \X Kinds)
    OBVIOUS
  <2> QED
    BY <2>1, <2>2 DEF RoomsTyped
<1>2. RequestsInOrder /\ ReloadsInOrder /\ VersionKnown /\ CommentsKnown
  BY DEF RequestsInOrder, ReloadsInOrder, VersionKnown, CommentsKnown
<1>3. VersionsTold /\ RoomReached
  BY DEF VersionsTold, RoomReached
<1> QED
  BY <1>1, <1>2, <1>3 DEF RoomsInv

-----------------------------------------------------------------------------
(* The tab *)

LEMMA LeaveSent ==
  ASSUME RoomsInv, Blank
  PROVE  out' \in Seq(Message)
<1>1. CASE page = None
  BY <1>1 DEF RoomsInv, RoomsTyped, Blank
<1>2. CASE page # None
  <2>1. [op |-> "leave", page |-> page.id] \in Message
    BY <1>2 DEF RoomsInv, RoomsTyped, Message
  <2> QED
    BY <1>2, <2>1 DEF RoomsInv, RoomsTyped, Blank
<1> QED
  BY <1>1, <1>2

LEMMA LoadStep ==
  ASSUME RoomsInv, NEW p \in Pages, NEW reload \in BOOLEAN, route' = p, Load(p, reload)
  PROVE  RoomsInv'
<1> USE RoomsAssumption
<1> DEFINE r == [n |-> last + 1, page |-> p, reload |-> reload, at |-> "sent", value |-> None]
<1>1. /\ last' = last + 1 /\ requests' = requests \cup {r} /\ page' = None /\ banner' = FALSE
      /\ thread' = None /\ reloads' = {} /\ UNCHANGED <<asked, up, checks, rooms, inbox, drops, server, unheard>>
  BY DEF Load, Blank
<1>2. r \in PageRequest /\ r.n = last + 1 /\ r.page = p /\ r.at = "sent"
  BY DEF PageRequest, RoomsInv, RoomsTyped
<1> HIDE DEF r
<1>3. RoomsTyped'
  <2>1. out' \in Seq(Message)
    BY LeaveSent DEF Load
  <2>2. requests' \subseteq PageRequest
    BY <1>1, <1>2 DEF RoomsInv, RoomsTyped
  <2>3. /\ route' \in Pages /\ last' \in Nat /\ asked' \in Nat /\ banner' = FALSE /\ page' = None /\ thread' = None
        /\ reloads' = {}
    BY <1>1 DEF RoomsInv, RoomsTyped
  <2>4. UNCHANGED <<up, checks, rooms, inbox, live, saved, unheard>> /\ RoomsTyped
    BY <1>1 DEF RoomsInv, server
  <2> QED
    BY <2>1, <2>2, <2>3, <2>4 DEF RoomsTyped
<1>4. RequestsInOrder'
  BY <1>1, <1>2 DEF RoomsInv, RoomsTyped, RequestsInOrder, PageRequest
<1>5. ReloadsInOrder' /\ CommentsKnown'
  BY <1>1 DEF ReloadsInOrder, CommentsKnown
<1>6. VersionKnown'
  BY <1>1, <1>2 DEF RoomsInv, RoomsTyped, RequestsInOrder, VersionKnown, PageRequest
<1>7. VersionsTold'
  BY <1>1 DEF RoomsInv, VersionsTold, server
<1>8. RoomReached'
  BY <1>1 DEF RoomsInv, RoomReached
<1> QED
  BY <1>3, <1>4, <1>5, <1>6, <1>7, <1>8 DEF RoomsInv

LEMMA CloseStep ==
  ASSUME RoomsInv, Close
  PROVE  RoomsInv'
<1> USE RoomsAssumption
<1>1. /\ route' = None /\ requests' = {} /\ page' = None /\ banner' = FALSE /\ thread' = None /\ reloads' = {}
      /\ UNCHANGED <<last, asked, up, checks, rooms, inbox, drops, server, unheard>>
  BY DEF Close, Blank
<1>2. RoomsTyped'
  BY <1>1, LeaveSent DEF RoomsInv, RoomsTyped, Close, server
<1>3. RequestsInOrder' /\ ReloadsInOrder' /\ CommentsKnown' /\ VersionKnown'
  BY <1>1 DEF RequestsInOrder, ReloadsInOrder, CommentsKnown, VersionKnown
<1>4. VersionsTold' /\ RoomReached'
  BY <1>1 DEF RoomsInv, VersionsTold, RoomReached, server
<1> QED
  BY <1>2, <1>3, <1>4 DEF RoomsInv

LEMMA ServePageStep ==
  ASSUME RoomsInv, NEW r \in requests, ServePage(r)
  PROVE  RoomsInv'
<1> USE RoomsAssumption
<1>1. PICK v : v = IF r.page \in live THEN saved[r.page]["version"] ELSE None
  OBVIOUS
<1> DEFINE s == [r EXCEPT !.at = "served", !.value = v]
<1>2. /\ requests' = (requests \ {r}) \cup {s}
      /\ unheard' = IF r.n = last THEN unheard \ {<<r.page, "version">>} ELSE unheard
      /\ UNCHANGED <<route, last, page, banner, reloads, asked, thread, socket, server>>
  BY <1>1 DEF ServePage
<1>3. r \in PageRequest /\ v \in Nat \cup {None} /\ (v # None => v = saved[r.page]["version"])
  BY <1>1 DEF RoomsInv, RoomsTyped, PageRequest, Kinds
<1>4. s \in PageRequest /\ s.n = r.n /\ s.page = r.page /\ s.at = "served" /\ s.value = v
  BY <1>3 DEF PageRequest
<1> HIDE DEF s
<1>5. RoomsTyped'
  BY <1>2, <1>4 DEF RoomsInv, RoomsTyped, server, socket
<1>6. RequestsInOrder'
  BY <1>2, <1>4 DEF RoomsInv, RequestsInOrder
<1>7. ReloadsInOrder'
  BY <1>2 DEF RoomsInv, ReloadsInOrder
<1>8. r.n = last => page = None /\ reloads = {} /\ thread = None
  BY DEF RoomsInv, RequestsInOrder, ReloadsInOrder
<1>9. VersionKnown'
  <2>1. ASSUME page # None PROVE banner \/ Known(page.id, "version", page.version)'
    BY <1>2, <1>8, <2>1 DEF RoomsInv, VersionKnown, Known, OnItsWay, socket, server
  <2>2. ASSUME NEW q \in requests', q.n = last, q.at = "served", q.value # None
        PROVE  Known(q.page, "version", q.value)'
    <3>1. CASE q = s
      BY <1>2, <1>3, <1>4, <2>2, <3>1 DEF Known, server
    <3>2. CASE q # s
      BY <1>2, <1>4, <2>2, <3>2 DEF RoomsInv, RequestsInOrder, VersionKnown, Known, OnItsWay, server, socket
    <3> QED
      BY <3>1, <3>2
  <2> QED
    BY <1>2, <2>1, <2>2 DEF VersionKnown
<1>10. CommentsKnown'
  BY <1>2, <1>8 DEF RoomsInv, CommentsKnown, Known, OnItsWay, socket, server
<1>11. VersionsTold' /\ RoomReached'
  BY <1>2 DEF RoomsInv, VersionsTold, RoomReached, Stays, JoinComes, socket, server
<1> QED
  BY <1>5, <1>6, <1>7, <1>9, <1>10, <1>11 DEF RoomsInv

LEMMA AnswerPageStep ==
  ASSUME RoomsInv, NEW r \in requests, NEW v, AnswerPage(r, v)
  PROVE  RoomsInv'
<1> USE RoomsAssumption
<1>1. /\ requests' = requests \ {r}
      /\ (r.at = "served" /\ v = r.value) \/ v = None
      /\ UNCHANGED <<route, last, up, checks, rooms, inbox, drops, server>>
  BY DEF AnswerPage
<1>2. r \in PageRequest
  BY DEF RoomsInv, RoomsTyped
<1>3. CASE IsLast(r) /\ v # None
  <2> DEFINE n == [id |-> r.page, version |-> v]
             c == [n |-> asked + 1, at |-> "sent", value |-> None]
  <2>1. /\ page' = n /\ banner' = FALSE /\ asked' = asked + 1 /\ reloads' = {c} /\ thread' = None
        /\ out' = Append(out, Join(r.page)) /\ UNCHANGED unheard
    BY <1>3 DEF AnswerPage, Comments, Join
  <2>2. /\ r.n = last /\ r.at = "served" /\ r.value = v /\ v \in Nat /\ r.page \in Pages /\ r.page = route
        /\ Known(r.page, "version", v)
    BY <1>1, <1>2, <1>3 DEF RoomsInv, RequestsInOrder, VersionKnown, IsLast, PageRequest
  <2>3. /\ n \in [id : Pages, version : Nat] /\ n.id = r.page /\ n.version = v /\ n # None
        /\ c \in ReloadShape /\ c.n = asked + 1 /\ c.at = "sent"
    BY <2>2 DEF RoomsInv, RoomsTyped, ReloadShape
  <2> HIDE DEF n, c
  <2>4. RoomsTyped'
    <3>1. out' \in Seq(Message)
      BY <2>1, <2>2 DEF RoomsInv, RoomsTyped, Join, Message
    <3>2. requests' \subseteq PageRequest /\ reloads' \subseteq ReloadShape
      BY <1>1, <2>1, <2>3 DEF RoomsInv, RoomsTyped
    <3>3. page' \in [id : Pages, version : Nat] /\ thread' = None /\ banner' \in BOOLEAN
      BY <2>1, <2>3
    <3>4. asked' \in Nat
      BY <2>1 DEF RoomsInv, RoomsTyped
    <3> QED
      BY <1>1, <2>1, <3>1, <3>2, <3>3, <3>4 DEF RoomsInv, RoomsTyped, server
  <2>5. RequestsInOrder'
    BY <1>1, <2>1, <2>2, <2>3 DEF RoomsInv, RequestsInOrder
  <2>6. ReloadsInOrder' /\ CommentsKnown'
    BY <2>1, <2>3 DEF RoomsInv, RoomsTyped, ReloadsInOrder, CommentsKnown
  <2>7. VersionKnown'
    <3>1. Known(r.page, "version", v)'
      BY <1>1, <2>1, <2>2 DEF Known, OnItsWay, server
    <3>2. \A q \in requests' : q.n # last'
      BY <1>1, <2>2 DEF RoomsInv, RequestsInOrder
    <3> QED
      BY <2>1, <2>3, <3>1, <3>2 DEF VersionKnown
  <2>8. VersionsTold'
    BY <1>1, <2>1 DEF RoomsInv, VersionsTold, server
  <2>9. RoomReached'
    <3>1. Len(out') = Len(out) + 1 /\ out'[Len(out')] = Join(r.page) /\ Len(out) \in Nat
      BY <2>1 DEF RoomsInv, RoomsTyped
    <3>2. JoinComes(r.page)'
      BY <3>1 DEF JoinComes
    <3> QED
      BY <1>1, <2>1, <2>3, <3>2 DEF RoomsInv, RoomReached
  <2> QED
    BY <2>4, <2>5, <2>6, <2>7, <2>8, <2>9 DEF RoomsInv
<1>4. CASE ~(IsLast(r) /\ v # None)
  <2>1. /\ banner' = (banner /\ ~r.reload)
        /\ unheard' = IF banner /\ r.reload THEN unheard \cup {<<page.id, "version">>} ELSE unheard
        /\ UNCHANGED <<page, thread, asked, reloads, out>>
    BY <1>4 DEF AnswerPage
  <2>2. banner => page # None /\ page.id \in Pages
    BY DEF RoomsInv, RoomsTyped, ReloadsInOrder
  <2>3. RoomsTyped'
    BY <1>1, <1>2, <2>1, <2>2 DEF RoomsInv, RoomsTyped, PageRequest, server, Kinds
  <2>4. RequestsInOrder' /\ ReloadsInOrder'
    BY <1>1, <2>1 DEF RoomsInv, RequestsInOrder, ReloadsInOrder
  <2>5. \A p, kind, x : Known(p, kind, x) => Known(p, kind, x)'
    BY <1>1, <2>1 DEF Known, OnItsWay, server
  <2>6. VersionKnown'
    <3>1. page # None => banner' \/ Known(page.id, "version", page.version)'
      BY <1>1, <2>1, <2>5 DEF RoomsInv, VersionKnown, Known
    <3> QED
      BY <1>1, <2>1, <2>5, <3>1 DEF RoomsInv, VersionKnown
  <2>7. CommentsKnown'
    BY <1>1, <2>1, <2>5 DEF RoomsInv, CommentsKnown
  <2>8. VersionsTold' /\ RoomReached'
    BY <1>1, <2>1 DEF RoomsInv, VersionsTold, RoomReached, Stays, JoinComes, server
  <2> QED
    BY <2>3, <2>4, <2>6, <2>7, <2>8 DEF RoomsInv
<1> QED
  BY <1>3, <1>4

LEMMA ServeCommentsStep ==
  ASSUME RoomsInv, NEW c \in reloads, ServeComments(c)
  PROVE  RoomsInv'
<1> USE RoomsAssumption
<1> DEFINE v == saved[page.id]["comments"]
           d == [c EXCEPT !.at = "served", !.value = v]
<1>1. /\ reloads' = (reloads \ {c}) \cup {d}
      /\ unheard' = IF c.n = asked THEN unheard \ {<<page.id, "comments">>} ELSE unheard
      /\ UNCHANGED <<route, last, requests, page, banner, asked, thread, socket, server>>
  BY DEF ServeComments
<1>2. page # None /\ page.id \in Pages
  BY DEF RoomsInv, RoomsTyped, ReloadsInOrder
<1>3. d \in ReloadShape /\ d.n = c.n /\ d.value = v
  <2>1. v \in Nat /\ c \in ReloadShape
    BY <1>2 DEF RoomsInv, RoomsTyped, Kinds
  <2> HIDE DEF v
  <2> QED
    BY <2>1 DEF ReloadShape
<1> HIDE DEF d
<1>4. RoomsTyped'
  BY <1>1, <1>3 DEF RoomsInv, RoomsTyped, socket, server
<1>5. RequestsInOrder' /\ ReloadsInOrder'
  BY <1>1, <1>3 DEF RoomsInv, RequestsInOrder, ReloadsInOrder
<1>6. VersionKnown'
  BY <1>1 DEF RoomsInv, VersionKnown, Known, OnItsWay, socket, server
<1>7. CommentsKnown'
  <2>1. ASSUME NEW e \in reloads', e.n = asked, e.at = "served", e.value # None
        PROVE  Known(page.id, "comments", e.value)'
    <3>1. CASE e = d
      BY <1>1, <1>3, <3>1 DEF Known, server
    <3>2. CASE e # d
      BY <1>1, <1>3, <2>1, <3>2 DEF RoomsInv, ReloadsInOrder, CommentsKnown, Known, OnItsWay, socket, server
    <3> QED
      BY <3>1, <3>2
  <2>2. ASSUME thread # None, thread.n = asked PROVE Known(page.id, "comments", thread.value)'
    BY <1>1, <2>2 DEF RoomsInv, ReloadsInOrder, CommentsKnown, Known, OnItsWay, socket, server
  <2> QED
    BY <1>1, <2>1, <2>2 DEF CommentsKnown
<1>8. VersionsTold' /\ RoomReached'
  BY <1>1 DEF RoomsInv, VersionsTold, RoomReached, Stays, JoinComes, socket, server
<1> QED
  BY <1>4, <1>5, <1>6, <1>7, <1>8 DEF RoomsInv

LEMMA AnswerCommentsStep ==
  ASSUME RoomsInv, NEW c \in reloads, NEW v, AnswerComments(c, v)
  PROVE  RoomsInv'
<1> USE RoomsAssumption
<1> DEFINE t == [n |-> c.n, value |-> v]
<1>1. /\ (c.at = "served" /\ v = c.value) \/ v = None
      /\ reloads' = reloads \ {c} /\ thread' = IF v = None THEN None ELSE t
      /\ UNCHANGED <<route, last, requests, page, banner, asked, socket, server, unheard>>
  BY DEF AnswerComments
<1>2. /\ c \in ReloadShape /\ t.n = c.n /\ t.value = v /\ page # None
      /\ v # None => t \in [n : Nat, value : Nat]
  BY <1>1 DEF RoomsInv, RoomsTyped, ReloadShape, ReloadsInOrder
<1> HIDE DEF t
<1>3. RoomsTyped'
  BY <1>1, <1>2 DEF RoomsInv, RoomsTyped, socket, server
<1>4. RequestsInOrder' /\ ReloadsInOrder'
  BY <1>1, <1>2 DEF RoomsInv, RequestsInOrder, ReloadsInOrder
<1>5. VersionKnown' /\ CommentsKnown'
  BY <1>1, <1>2 DEF RoomsInv, VersionKnown, CommentsKnown, Known, OnItsWay, socket, server
<1>6. VersionsTold' /\ RoomReached'
  BY <1>1 DEF RoomsInv, VersionsTold, RoomReached, Stays, JoinComes, socket, server
<1> QED
  BY <1>3, <1>4, <1>5, <1>6 DEF RoomsInv

-----------------------------------------------------------------------------
(* The gateway *)

(* What one taken out of a sequence leaves.                                  *)
LEMMA TakenOut ==
  ASSUME NEW S, NEW s \in Seq(S), NEW i \in 1..Len(s)
  PROVE  LET t == SubSeq(s, 1, i - 1) \o SubSeq(s, i + 1, Len(s))
         IN t \in Seq(S) /\ \A j \in 1..Len(s) : j # i => \E k \in 1..Len(t) : t[k] = s[j]
<1> DEFINE a == SubSeq(s, 1, i - 1)
           b == SubSeq(s, i + 1, Len(s))
           t == a \o b
<1>1. /\ a \in Seq(S) /\ Len(a) = i - 1 /\ \A k \in 1..(i - 1) : a[k] = s[k]
      /\ b \in Seq(S) /\ Len(b) = Len(s) - i /\ \A k \in 1..(Len(s) - i) : b[k] = s[i + k]
  BY SubSeqProperties
<1> HIDE DEF a, b
<1>2. t \in Seq(S) /\ Len(t) = Len(s) - 1 /\ \A k \in 1..(Len(s) - 1) : t[k] = IF k < i THEN a[k] ELSE b[k - (i - 1)]
  BY <1>1
<1> HIDE DEF t
<1>3. ASSUME NEW j \in 1..Len(s), j # i PROVE \E k \in 1..Len(t) : t[k] = s[j]
  <2>0. Len(s) \in Nat
    OBVIOUS
  <2>1. CASE j < i
    <3>1. j \in 1..Len(t) /\ t[j] = a[j] /\ a[j] = s[j]
      BY <1>1, <1>2, <2>0, <2>1
    <3> QED
      BY <3>1
  <2>2. CASE j > i
    <3>1. j - 1 \in 1..(Len(s) - 1) /\ ~(j - 1 < i) /\ (j - 1) - (i - 1) = j - i
          /\ j - i \in 1..(Len(s) - i) /\ i + (j - i) = j
      BY <2>0, <2>2
    <3>2. t[j - 1] = b[(j - 1) - (i - 1)] /\ j - 1 \in 1..Len(t)
      BY <1>2, <3>1
    <3>3. b[j - i] = s[j]
      BY <1>1, <3>1
    <3> QED
      BY <3>1, <3>2, <3>3
  <2> QED
    BY <1>3, <2>1, <2>2
<1> QED
  BY <1>2, <1>3 DEF a, b, t

LEMMA TabAsBefore ==
  ASSUME RoomsInv, UNCHANGED <<route, last, requests, page, banner, reloads, asked, thread>>
  PROVE  RequestsInOrder' /\ ReloadsInOrder'
BY DEF RoomsInv, RequestsInOrder, ReloadsInOrder

LEMMA KnownAsBefore ==
  ASSUME RoomsInv, UNCHANGED <<client, inbox, saved, unheard>>
  PROVE  RequestsInOrder' /\ ReloadsInOrder' /\ VersionKnown' /\ CommentsKnown' /\ VersionsTold'
<1>1. RequestsInOrder' /\ ReloadsInOrder'
  BY TabAsBefore DEF client
<1>2. VersionKnown' /\ CommentsKnown' /\ VersionsTold'
  BY DEF RoomsInv, VersionKnown, CommentsKnown, VersionsTold, Known, OnItsWay, client
<1> QED
  BY <1>1, <1>2

LEMMA ReceiveStep ==
  ASSUME RoomsInv, Receive
  PROVE  RoomsInv'
<1> USE RoomsAssumption
<1>1. /\ up /\ out # <<>> /\ out' = Tail(out)
      /\ UNCHANGED <<client, up, inbox, drops, server, unheard>>
      /\ IF Head(out).op = "join" THEN checks' = Append(checks, Head(out).page) /\ UNCHANGED rooms
                                  ELSE rooms' = rooms \ {Head(out).page} /\ UNCHANGED checks
  BY DEF Receive
<1>2. /\ out \in Seq(Message) /\ Head(out) \in Message /\ Head(out) = out[1] /\ Len(out) \in Nat \ {0}
      /\ Tail(out) \in Seq(Message) /\ Len(out') = Len(out) - 1 /\ \A j \in 1..Len(out') : out'[j] = out[j + 1]
      /\ checks \in Seq(Pages)
  BY <1>1 DEF RoomsInv, RoomsTyped
<1>3. Head(out).page \in Pages /\ Head(out).op \in {"join", "leave"}
  BY <1>2 DEF Message
<1>4. RoomsTyped'
  <2>1. checks' \in Seq(Pages)
    <3>1. CASE Head(out).op = "join"
      <4>1. Append(checks, Head(out).page) \in Seq(Pages)
        BY <1>2, <1>3
      <4> QED
        BY <1>1, <3>1, <4>1
    <3>2. CASE Head(out).op # "join"
      BY <1>1, <1>2, <3>2
    <3> QED
      BY <3>1, <3>2
  <2>2. rooms' \subseteq Pages
    BY <1>1 DEF RoomsInv, RoomsTyped
  <2> QED
    BY <1>1, <1>2, <2>1, <2>2 DEF RoomsInv, RoomsTyped, client, server
<1>5. RequestsInOrder' /\ ReloadsInOrder' /\ VersionKnown' /\ CommentsKnown' /\ VersionsTold'
  BY <1>1, KnownAsBefore DEF server
<1>6. ASSUME page # None PROVE JoinComes(page.id)' \/ Stays(page.id)'
  <2> DEFINE p == page.id
  <2>0. p' = p /\ UNCHANGED <<live, up>>
    BY <1>1 DEF client, server
  <2> HIDE DEF p
  <2>1. CASE \E i \in 2..Len(out) : out[i] = Join(p) /\ \A j \in (i + 1)..Len(out) : out[j] # Leave(p)
    <3>1. PICK i \in 2..Len(out) : out[i] = Join(p) /\ \A j \in (i + 1)..Len(out) : out[j] # Leave(p)
      BY <2>1
    <3>2. i - 1 \in 1..Len(out') /\ out'[i - 1] = Join(p) /\ \A j \in ((i - 1) + 1)..Len(out') : out'[j] # Leave(p)
      <4>1. i - 1 \in 1..Len(out') /\ (i - 1) + 1 = i
        BY <1>2
      <4>2. ASSUME NEW j \in i..Len(out') PROVE out'[j] # Leave(p)
        <5>1. j + 1 \in (i + 1)..Len(out) /\ j \in 1..Len(out')
          BY <1>2, <4>1
        <5> QED
          BY <1>2, <3>1, <5>1
      <4> QED
        BY <1>2, <3>1, <4>1, <4>2
    <3>3. JoinComes(p)'
      BY <2>0, <3>2 DEF JoinComes, Join, Leave
    <3> QED
      BY <3>3 DEF p
  <2>2. CASE out[1] = Join(p) /\ \A j \in 2..Len(out) : out[j] # Leave(p)
    <3>1. checks' = Append(checks, p)
      BY <1>1, <1>2, <2>2 DEF Join
    <3>2. Len(checks') = Len(checks) + 1 /\ checks'[Len(checks')] = p /\ Len(checks) \in Nat
      BY <1>2, <3>1
    <3>3. \A j \in 1..Len(out') : out'[j] # Leave(p)
      BY <1>2, <2>2
    <3>4. Stays(p)'
      BY <2>0, <3>2, <3>3 DEF Stays, Leave
    <3> QED
      BY <3>4 DEF p
  <2>3. CASE Stays(p)
    <3>1. /\ out[1] # Leave(p) /\ \A j \in 1..Len(out') : out'[j] # Leave(p)
      BY <1>2, <2>3 DEF Stays
    <3>2. p \in rooms => p \in rooms'
      <4>1. CASE Head(out).op = "join"
        BY <1>1, <4>1
      <4>2. CASE Head(out).op = "leave"
        <5>1. Head(out) = [op |-> "leave", page |-> Head(out).page]
          BY <1>2, <4>2 DEF Message
        <5>2. Head(out).page # p
          BY <1>2, <3>1, <5>1 DEF Leave
        <5> QED
          BY <1>1, <4>2, <5>2
      <4> QED
        BY <1>3, <4>1, <4>2
    <3>3. ASSUME NEW i \in 1..Len(checks), checks[i] = p PROVE \E k \in 1..Len(checks') : checks'[k] = p
      BY <1>1, <1>2, <1>3, <3>3
    <3>4. Stays(p)'
      BY <2>0, <2>3, <3>1, <3>2, <3>3 DEF Stays, Leave
    <3> QED
      BY <3>4 DEF p
  <2>4. JoinComes(p) \/ Stays(p)
    BY <1>1, <1>6 DEF RoomsInv, RoomReached, p
  <2> QED
    BY <1>2, <2>1, <2>2, <2>3, <2>4 DEF JoinComes
<1>7. RoomReached'
  BY <1>1, <1>6 DEF RoomReached, client
<1> QED
  BY <1>4, <1>5, <1>7 DEF RoomsInv

LEMMA EndJoinStep ==
  ASSUME RoomsInv, NEW i \in 1..Len(checks), EndJoin(i)
  PROVE  RoomsInv'
<1> USE RoomsAssumption
<1>1. /\ checks' = SubSeq(checks, 1, i - 1) \o SubSeq(checks, i + 1, Len(checks))
      /\ rooms' = rooms \cup ({checks[i]} \cap live)
      /\ UNCHANGED <<client, up, out, inbox, drops, server, unheard>>
  BY DEF EndJoin
<1>2. checks \in Seq(Pages) /\ checks # <<>>
  BY DEF RoomsInv, RoomsTyped
<1>3. checks' \in Seq(Pages) /\ \A j \in 1..Len(checks) : j # i => \E k \in 1..Len(checks') : checks'[k] = checks[j]
  <2>1. LET t == SubSeq(checks, 1, i - 1) \o SubSeq(checks, i + 1, Len(checks))
        IN t \in Seq(Pages) /\ \A j \in 1..Len(checks) : j # i => \E k \in 1..Len(t) : t[k] = checks[j]
    BY <1>2, TakenOut, Zenon
  <2> QED
    BY <1>1, <2>1, Zenon
<1>4. RoomsTyped'
  <2>1. rooms' \subseteq Pages
    BY <1>1 DEF RoomsInv, RoomsTyped
  <2> QED
    BY <1>1, <1>3, <2>1 DEF RoomsInv, RoomsTyped, client, server
<1>5. RequestsInOrder' /\ ReloadsInOrder' /\ VersionKnown' /\ CommentsKnown' /\ VersionsTold'
  BY <1>1, KnownAsBefore DEF server
<1>6. RoomReached'
  <2>1. up
    BY <1>2 DEF RoomsInv, RoomReached
  <2>2. ASSUME page # None PROVE JoinComes(page.id)' \/ Stays(page.id)'
    <3>1. CASE JoinComes(page.id)
      BY <1>1, <3>1 DEF JoinComes, client
    <3>2. CASE Stays(page.id)
      BY <1>1, <1>3, <3>2 DEF Stays, client, server
    <3> QED
      BY <2>1, <2>2, <3>1, <3>2 DEF RoomsInv, RoomReached
  <2> QED
    BY <1>1, <2>1, <2>2 DEF RoomReached, client
<1> QED
  BY <1>4, <1>5, <1>6 DEF RoomsInv

LEMMA SaveStep ==
  ASSUME RoomsInv, NEW p \in Pages, NEW kind \in Kinds, Save(p, kind)
  PROVE  RoomsInv'
<1> USE RoomsAssumption
<1>1. /\ saved' = [saved EXCEPT ![p][kind] = @ + 1]
      /\ IF p \in rooms THEN inbox' = Append(inbox, <<p, kind>>) /\ UNCHANGED unheard
                        ELSE unheard' = unheard \cup {<<p, kind>>} /\ UNCHANGED inbox
      /\ UNCHANGED <<client, up, out, checks, rooms, drops, live>>
  BY DEF Save
<1>2. /\ saved \in [Pages -> [Kinds -> Nat \ {0}]] /\ inbox \in Seq(Pages \X Kinds)
      /\ unheard \subseteq Pages \X Kinds
  BY DEF RoomsInv, RoomsTyped
<1>3. /\ saved' \in [Pages -> [Kinds -> Nat \ {0}]]
      /\ \A q \in Pages, k \in Kinds : saved'[q][k] >= saved[q][k]
      /\ \A q \in Pages, k \in Kinds : <<q, k>> # <<p, kind>> => saved'[q][k] = saved[q][k]
      /\ saved'[p][kind] = saved[p][kind] + 1 /\ saved[p][kind] > 0
  BY <1>1, <1>2
<1>4. /\ inbox' \in Seq(Pages \X Kinds) /\ Len(inbox) \in Nat
      /\ \A j \in 1..Len(inbox) : j \in 1..Len(inbox') /\ inbox'[j] = inbox[j]
      /\ \A j \in 1..Len(inbox') : j \in 1..Len(inbox) \/ inbox'[j] = <<p, kind>>
      /\ OnItsWay(<<p, kind>>)' \/ <<p, kind>> \in unheard'
      /\ unheard' \subseteq Pages \X Kinds /\ unheard \subseteq unheard'
  <2>1. <<p, kind>> \in Pages \X Kinds
    OBVIOUS
  <2>2. CASE p \in rooms
    <3>1. /\ inbox' = Append(inbox, <<p, kind>>) /\ UNCHANGED unheard
      BY <1>1, <2>2
    <3>2. /\ inbox' \in Seq(Pages \X Kinds) /\ Len(inbox') = Len(inbox) + 1 /\ inbox'[Len(inbox')] = <<p, kind>>
          /\ Len(inbox) \in Nat /\ \A j \in 1..Len(inbox) : inbox'[j] = inbox[j]
      BY <1>2, <2>1, <3>1
    <3>3. \A j \in 1..Len(inbox') : j \in 1..Len(inbox) \/ j = Len(inbox')
      BY <3>2
    <3>4. OnItsWay(<<p, kind>>)'
      BY <3>2 DEF OnItsWay
    <3>5. /\ \A j \in 1..Len(inbox) : j \in 1..Len(inbox') /\ inbox'[j] = inbox[j]
          /\ \A j \in 1..Len(inbox') : j \in 1..Len(inbox) \/ inbox'[j] = <<p, kind>>
      BY <3>2, <3>3
    <3> QED
      BY <1>2, <3>1, <3>2, <3>4, <3>5
  <2>3. CASE p \notin rooms
    BY <1>1, <1>2, <2>1, <2>3
  <2> QED
    BY <2>2, <2>3
<1>5. RoomsTyped'
  BY <1>1, <1>3, <1>4 DEF RoomsInv, RoomsTyped, client
<1>6. RequestsInOrder' /\ ReloadsInOrder'
  BY <1>1, TabAsBefore DEF client
<1>7. ASSUME NEW q \in Pages, NEW k \in Kinds, NEW v, Known(q, k, v) PROVE Known(q, k, v)'
  <2>1. CASE <<q, k>> = <<p, kind>>
    BY <1>4, <2>1 DEF Known
  <2>2. CASE <<q, k>> # <<p, kind>>
    <3>1. OnItsWay(<<q, k>>) => OnItsWay(<<q, k>>)'
      BY <1>4 DEF OnItsWay
    <3> QED
      BY <1>3, <1>4, <1>7, <2>2, <3>1 DEF Known
  <2> QED
    BY <2>1, <2>2
<1>8. /\ \A r \in requests : r.page \in Pages
      /\ page # None => page.id \in Pages
      /\ (reloads # {} \/ thread # None) => page # None
  BY DEF RoomsInv, RoomsTyped, ReloadsInOrder, PageRequest
<1>9. VersionKnown' /\ CommentsKnown'
  BY <1>1, <1>7, <1>8 DEF RoomsInv, VersionKnown, CommentsKnown, client, Kinds
<1>10. VersionsTold'
  <2>1. ASSUME NEW i \in 1..Len(inbox'), inbox'[i][2] = "version" PROVE saved'[inbox'[i][1]]["version"] > 1
    <3>1. CASE i \in 1..Len(inbox)
      <4> inbox'[i] = inbox[i] /\ inbox[i] \in Pages \X Kinds
        BY <1>2, <1>4, <3>1
      <4>1. inbox'[i] = inbox[i] /\ inbox[i][1] \in Pages /\ saved[inbox[i][1]]["version"] > 1
        BY <2>1, <3>1 DEF RoomsInv, VersionsTold
      <4>2. saved[inbox[i][1]]["version"] \in Nat /\ saved'[inbox[i][1]]["version"] \in Nat
        BY <1>2, <1>3, <4>1 DEF Kinds
      <4> QED
        BY <1>3, <4>1, <4>2 DEF Kinds
    <3>2. CASE inbox'[i] = <<p, kind>>
      BY <1>2, <1>3, <2>1, <3>2
    <3> QED
      BY <1>4, <3>1, <3>2
  <2>2. ASSUME banner PROVE saved'[page.id]["version"] > 1
    <3>1. page.id \in Pages /\ saved[page.id]["version"] > 1
      BY <1>8, <2>2 DEF RoomsInv, ReloadsInOrder, VersionsTold
    <3>2. saved[page.id]["version"] \in Nat /\ saved'[page.id]["version"] \in Nat
      BY <1>2, <1>3, <3>1 DEF Kinds
    <3> QED
      BY <1>3, <3>1, <3>2 DEF Kinds
  <2> QED
    BY <1>1, <2>1, <2>2 DEF VersionsTold, client
<1>11. RoomReached'
  BY <1>1 DEF RoomsInv, RoomReached, Stays, JoinComes, client
<1> QED
  BY <1>5, <1>6, <1>9, <1>10, <1>11 DEF RoomsInv

LEMMA DeleteStep ==
  ASSUME RoomsInv, NEW p \in Pages, Delete(p)
  PROVE  RoomsInv'
<1>1. live' = live \ {p} /\ UNCHANGED <<client, socket, saved, unheard>>
  BY DEF Delete
<1>2. RoomsTyped'
  BY <1>1 DEF RoomsInv, RoomsTyped, client, socket
<1>3. RequestsInOrder' /\ ReloadsInOrder' /\ VersionKnown' /\ CommentsKnown' /\ VersionsTold'
  BY <1>1, KnownAsBefore DEF socket
<1>4. RoomReached'
  BY <1>1 DEF RoomsInv, RoomReached, Stays, JoinComes, client, socket
<1> QED
  BY <1>2, <1>3, <1>4 DEF RoomsInv

LEMMA DropStep ==
  ASSUME RoomsInv, Drop
  PROVE  RoomsInv'
<1> USE RoomsAssumption
<1>1. /\ up' = FALSE /\ out' = <<>> /\ checks' = <<>> /\ rooms' = {} /\ inbox' = <<>>
      /\ unheard' = unheard \cup {inbox[i] : i \in 1..Len(inbox)} /\ UNCHANGED <<client, server>>
  BY DEF Drop
<1>2. inbox \in Seq(Pages \X Kinds) /\ unheard \subseteq Pages \X Kinds
  BY DEF RoomsInv, RoomsTyped
<1>3. unheard' \subseteq Pages \X Kinds
  BY <1>1, <1>2
<1>4. RoomsTyped'
  <2>1. out' \in Seq(Message) /\ checks' \in Seq(Pages) /\ inbox' \in Seq(Pages \X Kinds)
    BY <1>1
  <2> QED
    BY <1>1, <1>3, <2>1 DEF RoomsInv, RoomsTyped, client, server
<1>5. RequestsInOrder' /\ ReloadsInOrder'
  BY <1>1, TabAsBefore DEF client
<1>6. ASSUME NEW q, NEW k, NEW v, Known(q, k, v) PROVE Known(q, k, v)'
  BY <1>1, <1>6 DEF Known, OnItsWay, server
<1>7. VersionKnown' /\ CommentsKnown'
  BY <1>1, <1>6 DEF RoomsInv, VersionKnown, CommentsKnown, client
<1>8. VersionsTold' /\ RoomReached'
  BY <1>1 DEF RoomsInv, VersionsTold, RoomReached, client, server
<1> QED
  BY <1>4, <1>5, <1>7, <1>8 DEF RoomsInv

LEMMA ConnectStep ==
  ASSUME RoomsInv, Connect
  PROVE  RoomsInv'
<1> USE RoomsAssumption
<1>1. up' = TRUE /\ out' = Rejoined /\ UNCHANGED <<client, checks, rooms, inbox, drops, server, unheard>>
  BY DEF Connect
<1>2. ASSUME page # None
      PROVE  /\ out' = Append(out, Join(page.id)) /\ Join(page.id) \in Message
  BY <1>1, <1>2 DEF Rejoined, Join, Message, RoomsInv, RoomsTyped
<1>3. page = None => out' = out
  BY <1>1 DEF Rejoined
<1>4. RoomsTyped'
  <2>1. out \in Seq(Message)
    BY DEF RoomsInv, RoomsTyped
  <2>2. out' \in Seq(Message)
    <3>1. CASE page = None
      BY <1>3, <2>1, <3>1
    <3>2. CASE page # None
      BY <1>2, <2>1, <3>2
    <3> QED
      BY <3>1, <3>2
  <2> QED
    BY <1>1, <2>2 DEF RoomsInv, RoomsTyped, client, server
<1>5. RequestsInOrder' /\ ReloadsInOrder' /\ VersionKnown' /\ CommentsKnown' /\ VersionsTold'
  BY <1>1, KnownAsBefore DEF server
<1>6. ASSUME page # None PROVE JoinComes(page.id)'
  <2>1. Len(out') = Len(out) + 1 /\ out'[Len(out')] = Join(page.id) /\ Len(out) \in Nat
    BY <1>2, <1>6 DEF RoomsInv, RoomsTyped
  <2>2. UNCHANGED page
    BY <1>1 DEF client
  <2> QED
    BY <2>1, <2>2 DEF JoinComes, Join
<1>7. RoomReached'
  BY <1>1, <1>6 DEF RoomReached, client
<1> QED
  BY <1>4, <1>5, <1>7 DEF RoomsInv

(* An event of the page shown raises the banner, or reloads the comments; one of  *)
(* another page is lost on this tab.                                        *)
LEMMA DeliverStep ==
  ASSUME RoomsInv, Deliver
  PROVE  RoomsInv'
<1> USE RoomsAssumption
<1> DEFINE p == Head(inbox)[1]
           kind == Head(inbox)[2]
<1>1. /\ inbox # <<>> /\ inbox' = Tail(inbox)
      /\ banner' = (banner \/ (IsShown(p) /\ kind = "version"))
      /\ IF IsShown(p) /\ kind = "comments"
           THEN asked' = asked + 1 /\ reloads' = reloads \cup {Comments} /\ thread' = None
           ELSE UNCHANGED <<asked, reloads, thread>>
      /\ unheard' = IF IsShown(p) THEN unheard ELSE unheard \cup {<<p, kind>>}
      /\ UNCHANGED <<route, last, requests, page, up, out, checks, rooms, drops, server>>
  BY DEF Deliver
<1>2. /\ inbox \in Seq(Pages \X Kinds) /\ unheard \subseteq Pages \X Kinds /\ asked \in Nat
      /\ reloads \subseteq ReloadShape /\ thread \in [n : Nat, value : Nat] \cup {None} /\ banner \in BOOLEAN
  BY DEF RoomsInv, RoomsTyped
<1>3. /\ Head(inbox) = inbox[1] /\ Head(inbox) \in Pages \X Kinds
      /\ Len(inbox) \in Nat \ {0} /\ Len(inbox') = Len(inbox) - 1 /\ inbox' \in Seq(Pages \X Kinds)
      /\ \A i \in 1..Len(inbox') : i + 1 \in 1..Len(inbox) /\ inbox'[i] = inbox[i + 1]
      /\ \A i \in 1..Len(inbox) : i = 1 \/ (i - 1 \in 1..Len(inbox') /\ inbox'[i - 1] = inbox[i])
  <2>1. inbox # <<>> /\ inbox' = Tail(inbox)
    BY <1>1
  <2> QED
    BY <1>2, <2>1
<1>4. p \in Pages /\ kind \in Kinds /\ Head(inbox) = <<p, kind>>
  BY <1>3
<1> HIDE DEF p, kind
<1>5. UNCHANGED <<live, saved, changes>> /\ UNCHANGED <<route, last, requests, page, up, out, checks, rooms>>
  BY <1>1 DEF server
<1>6. ASSUME NEW q, NEW k, NEW v, Known(q, k, v)
      PROVE  Known(q, k, v)' \/ (IsShown(p) /\ q = p /\ k = kind)
  <2>1. CASE <<q, k>> \in unheard \/ saved[q][k] = v
    BY <1>1, <1>5, <2>1 DEF Known
  <2>2. CASE OnItsWay(<<q, k>>)
    <3>1. PICK i \in 1..Len(inbox) : inbox[i] = <<q, k>>
      BY <2>2 DEF OnItsWay
    <3>2. CASE i = 1
      <4>1. q = p /\ k = kind
        BY <1>3, <1>4, <3>1, <3>2
      <4>2. ~IsShown(p) => <<q, k>> \in unheard'
        BY <1>1, <4>1
      <4> QED
        BY <4>1, <4>2 DEF Known
    <3>3. CASE i # 1
      BY <1>3, <3>1, <3>3 DEF Known, OnItsWay
    <3> QED
      BY <3>2, <3>3
  <2> QED
    BY <1>6, <2>1, <2>2 DEF Known
<1>7. RoomsTyped'
  <2>1. unheard' \subseteq Pages \X Kinds
    BY <1>1, <1>2, <1>4
  <2>2. banner' \in BOOLEAN
    BY <1>1, <1>2 DEF IsShown
  <2>3. asked' \in Nat /\ reloads' \subseteq ReloadShape /\ thread' \in [n : Nat, value : Nat] \cup {None}
    <3>1. Comments \in ReloadShape
      BY <1>2 DEF Comments, ReloadShape
    <3> QED
      BY <1>1, <1>2, <3>1
  <2> QED
    BY <1>3, <1>5, <2>1, <2>2, <2>3 DEF RoomsInv, RoomsTyped
<1>8. RequestsInOrder'
  BY <1>5 DEF RoomsInv, RequestsInOrder
<1>9. ReloadsInOrder'
  <2>1. CASE IsShown(p) /\ kind = "comments"
    <3>1. page # None /\ asked' = asked + 1 /\ reloads' = reloads \cup {Comments} /\ thread' = None
      BY <1>1, <2>1 DEF IsShown
    <3>2. Comments.n = asked + 1 /\ \A c \in reloads : c.n \in Nat /\ c.n <= asked
      BY <1>2 DEF Comments, RoomsInv, ReloadsInOrder, ReloadShape
    <3> QED
      BY <1>2, <1>5, <3>1, <3>2 DEF RoomsInv, ReloadsInOrder
  <2>2. CASE ~(IsShown(p) /\ kind = "comments")
    <3>1. UNCHANGED <<asked, reloads, thread>>
      BY <1>1, <2>2
    <3>2. page = None => ~banner'
      BY <1>1 DEF IsShown, RoomsInv, ReloadsInOrder
    <3> QED
      BY <1>5, <3>1, <3>2 DEF RoomsInv, ReloadsInOrder
  <2> QED
    BY <2>1, <2>2
<1>10. VersionKnown'
  <2>1. ASSUME page # None PROVE banner' \/ Known(page.id, "version", page.version)'
    BY <1>1, <1>5, <1>6, <2>1 DEF RoomsInv, VersionKnown
  <2>2. ASSUME NEW r \in requests, r.n = last, r.at = "served", r.value # None
        PROVE  Known(r.page, "version", r.value)'
    <3>1. Known(r.page, "version", r.value) /\ page = None
      BY <2>2 DEF RoomsInv, VersionKnown, RequestsInOrder
    <3> QED
      BY <1>6, <3>1 DEF IsShown
  <2> QED
    BY <1>5, <2>1, <2>2 DEF VersionKnown
<1>11. CommentsKnown'
  <2>1. CASE IsShown(p) /\ kind = "comments"
    <3>1. asked' = asked + 1 /\ reloads' = reloads \cup {Comments} /\ thread' = None
      BY <1>1, <2>1
    <3>2. Comments.value = None /\ \A c \in reloads : c.n # asked + 1
      BY <1>2 DEF Comments, RoomsInv, ReloadsInOrder, ReloadShape
    <3> QED
      BY <3>1, <3>2 DEF CommentsKnown
  <2>2. CASE ~(IsShown(p) /\ kind = "comments")
    <3>1. UNCHANGED <<asked, reloads, thread>>
      BY <1>1, <2>2
    <3>2. ASSUME NEW v, Known(page.id, "comments", v) PROVE Known(page.id, "comments", v)'
      BY <1>5, <1>6, <2>2, <3>2
    <3> QED
      BY <1>5, <3>1, <3>2 DEF RoomsInv, CommentsKnown
  <2> QED
    BY <2>1, <2>2
<1>12. VersionsTold'
  <2>1. ASSUME NEW i \in 1..Len(inbox'), inbox'[i][2] = "version" PROVE saved'[inbox'[i][1]]["version"] > 1
    BY <1>3, <1>5, <2>1 DEF RoomsInv, VersionsTold
  <2>2. ASSUME banner' PROVE saved'[page'.id]["version"] > 1
    <3>1. CASE banner
      BY <1>5, <3>1 DEF RoomsInv, VersionsTold
    <3>2. CASE IsShown(p) /\ kind = "version"
      <4>1. inbox[1][2] = "version" /\ inbox[1][1] = page.id
        BY <1>3, <1>4, <3>2 DEF IsShown
      <4> QED
        BY <1>3, <1>5, <4>1 DEF RoomsInv, VersionsTold
    <3> QED
      BY <1>1, <2>2, <3>1, <3>2
  <2> QED
    BY <2>1, <2>2 DEF VersionsTold
<1>13. RoomReached'
  BY <1>5 DEF RoomsInv, RoomReached, JoinComes, Stays
<1> QED
  BY <1>7, <1>8, <1>9, <1>10, <1>11, <1>12, <1>13 DEF RoomsInv

LEMMA RoomsStep ==
  ASSUME RoomsInv, Next PROVE RoomsInv'
<1> USE RoomsAssumption
<1>1. ASSUME NEW p \in Pages, Open(p) PROVE RoomsInv'
  <2>1. route' = p /\ Load(p, FALSE)
    BY <1>1 DEF Open
  <2> QED
    BY <2>1, LoadStep
<1>2. ASSUME Reload PROVE RoomsInv'
  <2>1. page # None /\ page \in [id : Pages, version : Nat] \cup {None} /\ page.id = route
    BY <1>2 DEF Reload, RoomsInv, RoomsTyped, RequestsInOrder, ReloadsInOrder
  <2>2. route \in Pages /\ route' = route /\ Load(route, TRUE)
    BY <1>2, <2>1 DEF Reload
  <2> QED
    BY <2>2, LoadStep
<1>3. ASSUME NEW r \in requests, NEW v \in {r.value, None}, AnswerPage(r, v) PROVE RoomsInv'
  BY <1>3, AnswerPageStep
<1>4. ASSUME NEW c \in reloads, NEW v \in {c.value, None}, AnswerComments(c, v) PROVE RoomsInv'
  BY <1>4, AnswerCommentsStep
<1>5. ASSUME NEW r \in requests, ServePage(r) PROVE RoomsInv'
  BY <1>5, ServePageStep
<1>6. ASSUME NEW c \in reloads, ServeComments(c) PROVE RoomsInv'
  BY <1>6, ServeCommentsStep
<1>7. ASSUME NEW p \in Pages, Delete(p) \/ \E kind \in Kinds : Save(p, kind) PROVE RoomsInv'
  BY <1>7, DeleteStep, SaveStep
<1>8. ASSUME NEW i \in 1..Len(checks), EndJoin(i) PROVE RoomsInv'
  BY <1>8, EndJoinStep
<1> QED
  BY <1>1, <1>2, <1>3, <1>4, <1>5, <1>6, <1>7, <1>8, CloseStep, ReceiveStep, DeliverStep, DropStep, ConnectStep DEF Next

-----------------------------------------------------------------------------
(* The forms *)

FormCall == [n : 1..MaxFormSent, value : FormValues, at : {"sent", "served"}, mine : BOOLEAN]

FormsTyped ==
  /\ form \in Filling!Forms
  /\ value \in FormValues \cup {None} /\ base \in FormValues \cup {None}
  /\ stored \in FormValues /\ known \in FormValues
  /\ open \in BOOLEAN /\ waiting \in BOOLEAN /\ overlapped \in BOOLEAN /\ lost \in BOOLEAN
  /\ formSent \in 0..MaxFormSent /\ made \subseteq 1..MaxFormSent /\ told \subseteq made
  /\ revealed \in 0..MaxFormSent /\ unread \subseteq 1..MaxFormSent
  /\ formCalls \subseteq FormCall

(* A request has a number of its own, and was carried out when it is served.     *)
RequestsCounted ==
  /\ \A n \in made : n <= formSent
  /\ \A c \in formCalls : c.n <= formSent /\ (c.at = "served" <=> c.n \in made)
  /\ \A c, d \in formCalls : c.n = d.n => c = d

(* What was carried out and is not told is on its way, or lost; what is stored    *)
(* and not known too, as long as there is one request at a time.               *)
AnswersAwaited ==
  /\ \A n \in made : n \in told \/ lost \/ \E c \in formCalls : c.n = n
  /\ ~overlapped =>
       /\ \A c, d \in formCalls : c = d
       /\ \A c \in formCalls : c.at = "served" => stored = c.value
       /\ known = stored \/ lost \/ \E c \in formCalls : c.at = "served"

(* A form waits for an answer that will unlock it, and where it knows that it     *)
(* waits, it waits as long as one is to come.                                 *)
WaitsForOne ==
  /\ waiting => (\E c \in formCalls : c.mine) \/ (form.after = "leave" /\ ~open)
  /\ (form.guarded /\ ~form.forgets /\ ~form.remounts) => ~overlapped /\ (formCalls # {} => waiting)

SecretsInTurn ==
  /\ revealed # 0 => form.reveals /\ (form.forgets \/ formCalls = {})
  /\ ~form.forgets => unread = {}

RightsEntered == (form.differs = "known" /\ open) => value \in FormValues

(* What cannot be typed on, nor closed, shows what it sent.                     *)
SentAsEntered ==
  (form.sends = "press" /\ form.locked /\ ~form.closable) => \A c \in formCalls : c.value = value

FormsInv ==
  /\ FormsTyped /\ RequestsCounted /\ AnswersAwaited /\ WaitsForOne /\ SecretsInTurn /\ RightsEntered
  /\ SentAsEntered

LEMMA FormFacts ==
  ASSUME NEW f \in Filling!Forms
  PROVE  /\ f \in Filling!Description
         /\ f.after = "leave" => ~f.closable
         /\ f.reveals => f.guarded /\ ~f.remounts
         /\ f.differs = "known" =>
              f.sends = "press" /\ f.after = "keep" /\ f.start = "known" /\ ~f.reveals /\ f.guarded /\ ~f.remounts
         /\ f.sends = "press" /\ f.locked /\ ~f.closable => f.guarded /\ ~f.forgets /\ ~f.remounts
<1> DEFINE Kept(r) == /\ r \in Filling!Description /\ r.guarded /\ r.differs = "no" /\ ~r.reveals /\ ~r.remounts
                       /\ r.after # "leave"
<1>1. /\ Kept(Filling!Inline) /\ ~Filling!Inline.closable /\ ~Filling!Inline.forgets
      /\ Filling!Inline.sends = "press"
  BY DEF Filling!Inline, Filling!Description
<1>2. Kept(Filling!Dialog) /\ Filling!Dialog.closable
  BY <1>1 DEF Filling!Dialog, Filling!Description
<1>3. Kept(Filling!Switch) /\ ~Filling!Switch.closable /\ Filling!Switch.sends = "choice"
  BY <1>1 DEF Filling!Switch, Filling!Description
<1>4. /\ Kept(Filling!Tab) /\ Filling!Tab.sends = "press" /\ Filling!Tab.start = "known"
      /\ Filling!Tab.after = "keep" /\ Filling!Tab.closable
  BY <1>1 DEF Filling!Tab, Filling!Description
<1>5. Kept(Filling!StatusSwitch) /\ Filling!StatusSwitch.closable
  BY <1>4 DEF Filling!StatusSwitch, Filling!Description
<1>6. /\ Filling!Reply \in Filling!Description /\ ~Filling!Reply.reveals /\ Filling!Reply.differs = "no"
      /\ Filling!Reply.after # "leave" /\ Filling!Reply.closable
  BY <1>2 DEF Filling!Reply, Filling!Description
<1>7. CASE f \in {Filling!ChangePassword, Filling!Avatar}
  BY <1>1, <1>7 DEF Filling!ChangePassword, Filling!Avatar
<1>8. CASE f = Filling!ProfileForm
  BY <1>1, <1>8 DEF Filling!ProfileForm, Filling!Description
<1>9. CASE f = Filling!NewPage
  BY <1>1, <1>9 DEF Filling!NewPage, Filling!Description
<1>10. CASE f = Filling!NewComment
  BY <1>1, <1>10 DEF Filling!NewComment, Filling!Description
<1>11. CASE f \in {Filling!CreateGroup, Filling!AddRule}
  BY <1>2, <1>11 DEF Filling!CreateGroup, Filling!AddRule
<1>12. CASE f = Filling!CreateKey
  BY <1>2, <1>12 DEF Filling!CreateKey, Filling!Description
<1>13. CASE f = Filling!CreateUser
  BY <1>2, <1>13 DEF Filling!CreateUser, Filling!Description
<1>14. CASE f = Filling!Rename
  BY <1>2, <1>14 DEF Filling!Rename, Filling!Description
<1>15. CASE f = Filling!AddToGroup
  BY <1>2, <1>15 DEF Filling!AddToGroup, Filling!Description
<1>16. CASE f = Filling!Reply
  BY <1>6, <1>16
<1>17. CASE f = Filling!EditComment
  BY <1>6, <1>17 DEF Filling!EditComment, Filling!Description
<1>18. CASE f = Filling!InfoForm
  BY <1>4, <1>18 DEF Filling!InfoForm, Filling!Description
<1>19. CASE f \in {Filling!GroupRights, Filling!UserRights}
  BY <1>4, <1>19 DEF Filling!GroupRights, Filling!UserRights, Filling!Description
<1>20. CASE f \in {Filling!Follow, Filling!Restore}
  BY <1>3, <1>20 DEF Filling!Follow, Filling!Restore
<1>21. CASE f = Filling!Locale
  BY <1>3, <1>21 DEF Filling!Locale, Filling!Description
<1>22. CASE f = Filling!Consent
  BY <1>3, <1>22 DEF Filling!Consent, Filling!Description
<1>23. CASE f \in {Filling!StatusSwitch, Filling!UserGroups}
  BY <1>5, <1>23 DEF Filling!UserGroups
<1>24. CASE f = Filling!Upload
  BY <1>5, <1>24 DEF Filling!Upload, Filling!Description
<1> HIDE DEF Kept
<1> QED
  BY <1>7, <1>8, <1>9, <1>10, <1>11, <1>12, <1>13, <1>14, <1>15, <1>16, <1>17, <1>18, <1>19, <1>20, <1>21,
     <1>22, <1>23, <1>24 DEF Filling!Forms

(* A form that is gone leaves its requests as they are, but for whom they unlock. *)
LEMMA OrphansAlike ==
  ASSUME NEW S \in SUBSET FormCall
  PROVE  /\ Filling!Orphaned(S) \subseteq FormCall
         /\ \A d \in Filling!Orphaned(S) : \E c \in S : c.n = d.n /\ c.value = d.value /\ c.at = d.at
         /\ \A c \in S : \E d \in Filling!Orphaned(S) : c.n = d.n /\ c.value = d.value /\ c.at = d.at
         /\ (\A c, d \in S : c.n = d.n => c = d) =>
              \A c, d \in Filling!Orphaned(S) : c.n = d.n => c = d
<1>1. CASE form = Filling!CreateUser
  BY <1>1 DEF Filling!Orphaned
<1>2. CASE form # Filling!CreateUser
  <2>1. Filling!Orphaned(S) = {[c EXCEPT !.mine = FALSE] : c \in S}
    BY <1>2 DEF Filling!Orphaned
  <2> DEFINE orphan(c) == [c EXCEPT !.mine = FALSE]
  <2>3. \A c \in S : /\ orphan(c) \in FormCall /\ orphan(c).n = c.n
                     /\ orphan(c).value = c.value /\ orphan(c).at = c.at
    BY DEF FormCall
  <2>4. Filling!Orphaned(S) = {orphan(c) : c \in S}
    BY <2>1
  <2> HIDE DEF orphan
  <2>5. \A d \in Filling!Orphaned(S) : \E c \in S : d = orphan(c)
    BY <2>4
  <2>6. \A c \in S : orphan(c) \in Filling!Orphaned(S)
    BY <2>4
  <2>7. ASSUME \A c, d \in S : c.n = d.n => c = d, NEW x \in Filling!Orphaned(S), NEW y \in Filling!Orphaned(S),
               x.n = y.n
        PROVE  x = y
    <3>1. PICK c \in S : x = orphan(c)
      BY <2>5
    <3>2. PICK d \in S : y = orphan(d)
      BY <2>5
    <3>3. c.n = d.n
      BY <2>3, <2>7, <3>1, <3>2
    <3> QED
      BY <2>7, <3>1, <3>2, <3>3
  <2>8. Filling!Orphaned(S) \subseteq FormCall
    BY <2>3, <2>5
  <2>9. \A d \in Filling!Orphaned(S) : \E c \in S : c.n = d.n /\ c.value = d.value /\ c.at = d.at
    BY <2>3, <2>5
  <2>10. \A c \in S : \E d \in Filling!Orphaned(S) : c.n = d.n /\ c.value = d.value /\ c.at = d.at
    BY <2>3, <2>6
  <2> QED
    BY <2>7, <2>8, <2>9, <2>10
<1> QED
  BY <1>1, <1>2

LEMMA FormsSpeak ==
  ASSUME FormsInv PROVE Filling!FormsTell
<1>1. form \in Filling!Forms
  BY DEF FormsInv, FormsTyped
<1>2. Filling!TypeOK
  <2>1. form \in Filling!Description
    BY <1>1, FormFacts
  <2> QED
    BY <2>1 DEF FormsInv, FormsTyped, FormCall, Filling!TypeOK
<1>3. Filling!OneAtATime
  <2>1. ASSUME form.guarded, ~form.forgets, ~form.remounts PROVE Filling!Cardinality(formCalls) <= 1 /\ ~overlapped
    <3>1. ~overlapped /\ \A c, d \in formCalls : c = d
      BY <2>1 DEF FormsInv, WaitsForOne, AnswersAwaited
    <3>2. CASE formCalls = {}
      BY <3>1, <3>2, FS_EmptySet DEF Cardinality, Filling!Cardinality
    <3>3. CASE formCalls # {}
      <4>1. PICK c \in formCalls : formCalls = {c}
        BY <3>1, <3>3
      <4>2. Cardinality({c}) = 1
        BY FS_Singleton
      <4> QED
        BY <3>1, <4>1, <4>2 DEF Cardinality, Filling!Cardinality
    <3> QED
      BY <3>2, <3>3
  <2> QED
    BY <2>1 DEF Filling!OneAtATime
<1>4. Filling!KnownIsStored
  BY DEF FormsInv, FormsTyped, AnswersAwaited, Filling!KnownIsStored, Filling!Rest
<1>5. Filling!NoneHangs
  BY DEF FormsInv, WaitsForOne, Filling!NoneHangs, Filling!Rest
<1>6. Filling!UnsavedCanBeSaved
  <2>1. ASSUME form.differs = "known", open, Filling!Rest, ~lost, ~overlapped
        PROVE  Filling!CanSend <=> value # stored
    <3>1. form.sends = "press" /\ form.after = "keep" /\ ~form.reveals
      BY <1>1, <2>1, FormFacts
    <3>2. known = stored /\ ~waiting /\ revealed = 0 /\ value # None
      BY <1>4, <1>5, <2>1, <3>1, ScreensAssumption
      DEF FormsInv, RightsEntered, SecretsInTurn, Filling!KnownIsStored, Filling!NoneHangs, Filling!FormAssumption
    <3> QED
      BY <2>1, <3>1, <3>2 DEF Filling!CanSend, Filling!Free
  <2> QED
    BY <2>1 DEF Filling!UnsavedCanBeSaved
<1>7. Filling!SecretsAreRead
  BY DEF FormsInv, SecretsInTurn, Filling!SecretsAreRead
<1> QED
  BY <1>2, <1>3, <1>4, <1>5, <1>6, <1>7 DEF Filling!FormsTell

LEMMA FormsBegin ==
  ASSUME Filling!Init PROVE FormsInv
<1> USE DEF Filling!Init
<1>1. FormsTyped
  <2>1. form \in Filling!Description /\ MaxFormSent \in Nat
    BY FormFacts, ScreensAssumption DEF Filling!FormAssumption
  <2>2. open \in BOOLEAN
    BY <2>1 DEF Filling!Description
  <2>3. value \in FormValues \cup {None}
    BY DEF Filling!Start
  <2>4. formSent \in 0..MaxFormSent /\ revealed \in 0..MaxFormSent
    BY <2>1
  <2> QED
    BY <2>2, <2>3, <2>4 DEF FormsTyped
<1>2. RightsEntered
  BY FormFacts DEF RightsEntered, Filling!Start
<1>3. RequestsCounted /\ AnswersAwaited /\ WaitsForOne /\ SecretsInTurn /\ SentAsEntered
  BY DEF RequestsCounted, AnswersAwaited, WaitsForOne, SecretsInTurn, SentAsEntered
<1> QED
  BY <1>1, <1>2, <1>3 DEF FormsInv

(* Steps that change no request, and what is stored or told.                   *)
LEMMA RequestsStand ==
  ASSUME FormsInv, UNCHANGED <<formCalls, formSent, stored, made, known, told, overlapped, lost>>
  PROVE  RequestsCounted' /\ AnswersAwaited'
BY DEF FormsInv, RequestsCounted, AnswersAwaited

LEMMA FormOpenStep ==
  ASSUME FormsInv, Filling!Open PROVE FormsInv'
<1>1. /\ form.closable /\ revealed = 0 /\ value' = Filling!Start(known) /\ base' = value' /\ open' = TRUE
      /\ UNCHANGED <<form, waiting, formCalls, formSent, stored, made, known, told, revealed, unread, overlapped, lost>>
  BY DEF Filling!Open, Filling!secret
<1>2. form \in Filling!Forms
  BY DEF FormsInv, FormsTyped
<1>3. form.after # "leave" /\ (form.differs = "known" => form.start = "known")
  BY <1>1, <1>2, FormFacts
<1>4. FormsTyped' /\ RightsEntered'
  BY <1>1, <1>3 DEF FormsInv, FormsTyped, RightsEntered, Filling!Start
<1>5. WaitsForOne' /\ SecretsInTurn' /\ SentAsEntered'
  BY <1>1, <1>3 DEF FormsInv, WaitsForOne, SecretsInTurn, SentAsEntered
<1> QED
  BY <1>1, <1>4, <1>5, RequestsStand DEF FormsInv

LEMMA FormTypeStep ==
  ASSUME FormsInv, NEW v \in FormValues, Filling!Type(v) PROVE FormsInv'
<1>1. /\ value' = v
      /\ UNCHANGED <<form, open, base, waiting, formCalls, formSent, stored, made, known, told,
                     revealed, unread, overlapped, lost>>
  BY DEF Filling!Type, Filling!secret
<1>2. SentAsEntered'
  <2>1. ASSUME form.sends = "press", form.locked, ~form.closable PROVE formCalls = {}
    <3>1. form.guarded /\ ~form.forgets /\ ~form.remounts
      BY <2>1, FormFacts DEF FormsInv, FormsTyped
    <3> QED
      BY <2>1, <3>1 DEF FormsInv, WaitsForOne, Filling!Type
  <2> QED
    BY <1>1, <2>1 DEF SentAsEntered
<1> QED
  BY <1>1, <1>2, RequestsStand DEF FormsInv, FormsTyped, WaitsForOne, SecretsInTurn, RightsEntered

LEMMA SecretStep ==
  ASSUME FormsInv, Filling!CloseSecret PROVE FormsInv'
<1>1. /\ revealed' = 0
      /\ UNCHANGED <<form, open, value, base, waiting, formCalls, formSent, stored, made, known, told,
                     unread, overlapped, lost>>
  BY DEF Filling!CloseSecret, Filling!entry
<1>2. 0 \in 0..MaxFormSent
  BY ScreensAssumption DEF Filling!FormAssumption
<1> QED
  BY <1>1, <1>2, RequestsStand
  DEF FormsInv, FormsTyped, WaitsForOne, SecretsInTurn, RightsEntered, SentAsEntered

(* The requests go on without the form, which waits no more.                   *)
LEMMA OrphansStand ==
  ASSUME FormsInv, formCalls' = Filling!Orphaned(formCalls), UNCHANGED <<formSent, stored, made, overlapped, lost>>,
         (known' = known /\ told' = told) \/ (known' = stored /\ told' = made)
  PROVE  RequestsCounted' /\ AnswersAwaited' /\ formCalls' \subseteq FormCall
<1>1. formCalls \in SUBSET FormCall
  BY DEF FormsInv, FormsTyped
<1>2. /\ formCalls' \subseteq FormCall
      /\ \A d \in formCalls' : \E c \in formCalls : c.n = d.n /\ c.value = d.value /\ c.at = d.at
      /\ \A c \in formCalls : \E d \in formCalls' : c.n = d.n /\ c.value = d.value /\ c.at = d.at
      /\ \A c, d \in formCalls' : c.n = d.n => c = d
  BY <1>1, OrphansAlike DEF FormsInv, RequestsCounted
<1>3. RequestsCounted'
  BY <1>2 DEF FormsInv, RequestsCounted
<1>4. ASSUME ~overlapped PROVE \A c, d \in formCalls' : c = d
  BY <1>2, <1>4 DEF FormsInv, AnswersAwaited
<1>5. AnswersAwaited'
  BY <1>2, <1>4 DEF FormsInv, AnswersAwaited
<1> QED
  BY <1>2, <1>3, <1>5

LEMMA FormCloseStep ==
  ASSUME FormsInv, Filling!Close PROVE FormsInv'
<1>1. /\ form.closable /\ revealed = 0 /\ open' = FALSE /\ value' = None /\ base' = None
      /\ waiting' = Filling!StillWaits
      /\ formCalls' = IF form.forgets THEN Filling!Orphaned(formCalls) ELSE formCalls
      /\ UNCHANGED <<form, formSent, stored, made, known, told, revealed, unread, overlapped, lost>>
  BY DEF Filling!Close, Filling!secret
<1>2. RequestsCounted' /\ AnswersAwaited' /\ formCalls' \subseteq FormCall
  <2>1. CASE form.forgets
    BY <1>1, <2>1, OrphansStand
  <2>2. CASE ~form.forgets
    BY <1>1, <2>2, RequestsStand DEF FormsInv, FormsTyped
  <2> QED
    BY <2>1, <2>2
<1>3. FormsTyped'
  BY <1>1, <1>2 DEF FormsInv, FormsTyped, Filling!StillWaits
<1>4. WaitsForOne' /\ SecretsInTurn' /\ RightsEntered' /\ SentAsEntered'
  BY <1>1 DEF FormsInv, WaitsForOne, SecretsInTurn, RightsEntered, SentAsEntered, Filling!StillWaits
<1> QED
  BY <1>2, <1>3, <1>4 DEF FormsInv

LEMMA RemountStep ==
  ASSUME FormsInv, Filling!Remount PROVE FormsInv'
<1>1. /\ form.remounts /\ open' = ~form.closable /\ value' = None /\ base' = None /\ waiting' = FALSE
      /\ formCalls' = Filling!Orphaned(formCalls) /\ known' = stored /\ told' = made
      /\ UNCHANGED <<form, formSent, stored, made, revealed, unread, overlapped, lost>>
  BY DEF Filling!Remount, Filling!secret
<1>2. RequestsCounted' /\ AnswersAwaited' /\ formCalls' \subseteq FormCall
  BY <1>1, OrphansStand
<1>3. form \in Filling!Forms
  BY DEF FormsInv, FormsTyped
<1>4. ~form.reveals /\ form.differs # "known" /\ form \in Filling!Description
  BY <1>1, <1>3, FormFacts
<1>5. FormsTyped'
  <2>1. open' \in BOOLEAN
    BY <1>1, <1>4 DEF Filling!Description
  <2> QED
    BY <1>1, <1>2, <2>1 DEF FormsInv, FormsTyped
<1>6. WaitsForOne' /\ SecretsInTurn' /\ RightsEntered' /\ SentAsEntered'
  BY <1>1, <1>3, <1>4, FormFacts DEF FormsInv, WaitsForOne, SecretsInTurn, RightsEntered, SentAsEntered
<1> QED
  BY <1>2, <1>5, <1>6 DEF FormsInv

LEMMA SendStep ==
  ASSUME FormsInv, NEW v \in FormValues, Filling!Free, Filling!Sends(v),
         value' \in FormValues \cup {None}, form.differs = "known" => value' = value,
         form.sends = "press" => value' = value /\ v = value,
         UNCHANGED <<form, open, base, stored, made, known, told, revealed, unread, lost>>
  PROVE  FormsInv'
<1> DEFINE new == [n |-> formSent', value |-> v, at |-> "sent", mine |-> TRUE]
<1>1. /\ formSent' = formSent + 1 /\ formCalls' = formCalls \cup {new} /\ waiting' = TRUE
      /\ overlapped' = (overlapped \/ formCalls # {}) /\ formSent < MaxFormSent
  BY DEF Filling!Sends
<1>2. formSent \in 0..MaxFormSent /\ MaxFormSent \in Nat /\ formCalls \subseteq FormCall /\ made \subseteq 1..MaxFormSent
  BY ScreensAssumption DEF FormsInv, FormsTyped, Filling!FormAssumption
<1>3. formSent' \in 1..MaxFormSent
  BY <1>1, <1>2
<1>4. new \in FormCall /\ new.n = formSent + 1 /\ new.at = "sent" /\ new.mine = TRUE /\ new.value = v
  BY <1>1, <1>3 DEF FormCall
<1> HIDE DEF new
<1>5. FormsTyped'
  BY <1>1, <1>2, <1>3, <1>4 DEF FormsInv, FormsTyped
<1>6. \A c \in formCalls : c.n \in Nat /\ c.n <= formSent
  BY <1>2 DEF FormsInv, RequestsCounted, FormCall
<1>7. RequestsCounted'
  BY <1>1, <1>2, <1>4, <1>6 DEF FormsInv, RequestsCounted
<1>8. AnswersAwaited'
  BY <1>1, <1>4 DEF FormsInv, AnswersAwaited
<1>9. open /\ revealed = 0 /\ (form.guarded => ~waiting)
  BY DEF Filling!Free
<1>10. WaitsForOne'
  BY <1>1, <1>4, <1>9 DEF FormsInv, WaitsForOne
<1>11. SecretsInTurn' /\ RightsEntered'
  BY <1>9 DEF FormsInv, SecretsInTurn, RightsEntered
<1>12. SentAsEntered'
  BY <1>1, <1>4 DEF FormsInv, SentAsEntered
<1> QED
  BY <1>5, <1>7, <1>8, <1>10, <1>11, <1>12 DEF FormsInv

LEMMA PressStep ==
  ASSUME FormsInv, Filling!Press PROVE FormsInv'
<1>1. Filling!Free /\ value # None /\ Filling!Sends(value)
      /\ UNCHANGED <<form, open, value, base, stored, made, known, told, revealed, unread, lost>>
  BY DEF Filling!Press, Filling!CanSend, Filling!secret
<1>2. value \in FormValues
  BY <1>1 DEF FormsInv, FormsTyped
<1> QED
  BY <1>1, <1>2, SendStep

LEMMA ChooseStep ==
  ASSUME FormsInv, NEW v \in FormValues, Filling!Choose(v) PROVE FormsInv'
<1>1. Filling!Free /\ form.sends # "press" /\ Filling!Sends(v)
      /\ value' = (IF form.sends = "early" THEN v ELSE value)
      /\ UNCHANGED <<form, open, base, stored, made, known, told, revealed, unread, lost>>
  BY DEF Filling!Choose, Filling!secret
<1>2. form \in Filling!Forms /\ value \in FormValues \cup {None}
  BY DEF FormsInv, FormsTyped
<1>3. form.differs # "known"
  BY <1>1, <1>2, FormFacts
<1> QED
  BY <1>1, <1>2, <1>3, SendStep

LEMMA FormServeStep ==
  ASSUME FormsInv, NEW c \in formCalls, Filling!Serve(c) PROVE FormsInv'
<1> DEFINE served == [c EXCEPT !.at = "served"]
<1>1. /\ c.at = "sent" /\ formCalls' = (formCalls \ {c}) \cup {served}
      /\ stored' = c.value /\ made' = made \cup {c.n}
      /\ UNCHANGED <<form, open, value, base, waiting, formSent, known, told, revealed, unread, overlapped, lost>>
  BY DEF Filling!Serve, Filling!entry, Filling!secret
<1>2. formCalls \subseteq FormCall /\ c \in FormCall
  BY DEF FormsInv, FormsTyped
<1>3. served \in FormCall /\ served.n = c.n /\ served.value = c.value /\ served.at = "served" /\ served.mine = c.mine
  BY <1>2 DEF FormCall
<1> HIDE DEF served
<1>4. c.n \in 1..MaxFormSent /\ c.value \in FormValues
  BY <1>2 DEF FormCall
<1>5. FormsTyped'
  BY <1>1, <1>2, <1>3, <1>4 DEF FormsInv, FormsTyped
<1>6. RequestsCounted'
  BY <1>1, <1>3 DEF FormsInv, RequestsCounted
<1>7. AnswersAwaited'
  BY <1>1, <1>3 DEF FormsInv, AnswersAwaited
<1>8. WaitsForOne' /\ SecretsInTurn' /\ RightsEntered' /\ SentAsEntered'
  BY <1>1, <1>3 DEF FormsInv, WaitsForOne, SecretsInTurn, RightsEntered, SentAsEntered
<1> QED
  BY <1>5, <1>6, <1>7, <1>8 DEF FormsInv

LEMMA FormFailStep ==
  ASSUME FormsInv, NEW c \in formCalls, Filling!Fail(c) PROVE FormsInv'
<1>1. /\ formCalls' = formCalls \ {c} /\ waiting' = (waiting /\ ~c.mine)
      /\ value' = Filling!ValueAfterError /\ lost' = (lost \/ c.at = "served")
      /\ UNCHANGED <<form, open, base, formSent, stored, made, known, told, revealed, unread, overlapped>>
  BY DEF Filling!Fail, Filling!secret
<1>2. formCalls \subseteq FormCall /\ c.mine \in BOOLEAN /\ known \in FormValues /\ form \in Filling!Forms
  BY DEF FormsInv, FormsTyped, FormCall
<1>3. FormsTyped'
  BY <1>1, <1>2 DEF FormsInv, FormsTyped, Filling!ValueAfterError
<1>4. RequestsCounted'
  BY <1>1 DEF FormsInv, RequestsCounted
<1>5. AnswersAwaited'
  <2>1. ASSUME NEW n \in made PROVE n \in told \/ lost' \/ \E d \in formCalls' : d.n = n
    <3>1. n \in told \/ lost \/ \E d \in formCalls : d.n = n
      BY <2>1 DEF FormsInv, AnswersAwaited
    <3>2. c.n = n => lost'
      BY <1>1, <2>1 DEF FormsInv, RequestsCounted
    <3> QED
      BY <1>1, <3>1, <3>2
  <2>2. ~overlapped => known = stored \/ lost'
    BY <1>1 DEF FormsInv, AnswersAwaited
  <2>3. ~overlapped => formCalls' = {}
    BY <1>1 DEF FormsInv, AnswersAwaited
  <2> QED
    BY <1>1, <2>1, <2>2, <2>3 DEF AnswersAwaited
<1>6. WaitsForOne'
  <2>1. (form.guarded /\ ~form.forgets /\ ~form.remounts) => formCalls' = {} /\ ~overlapped
    BY <1>1 DEF FormsInv, WaitsForOne, AnswersAwaited
  <2> QED
    BY <1>1, <2>1 DEF FormsInv, WaitsForOne
<1>7. SecretsInTurn'
  BY <1>1 DEF FormsInv, SecretsInTurn
<1>8. RightsEntered'
  BY <1>1, <1>2 DEF FormsInv, RightsEntered, Filling!ValueAfterError
<1>9. SentAsEntered'
  BY <1>1 DEF FormsInv, SentAsEntered, Filling!ValueAfterError
<1> QED
  BY <1>3, <1>4, <1>5, <1>6, <1>7, <1>8, <1>9 DEF FormsInv

LEMMA FormAnswerStep ==
  ASSUME FormsInv, NEW c \in formCalls, Filling!AnswerOk(c) PROVE FormsInv'
<1> DEFINE rest == formCalls \ {c}
<1>1. /\ c.at = "served" /\ formCalls' = IF form.remounts THEN Filling!Orphaned(rest) ELSE rest
      /\ known' = (IF form.remounts THEN stored ELSE c.value)
      /\ told' = (IF form.remounts THEN made ELSE told \cup {c.n})
      /\ value' = Filling!ValueAfter(c) /\ open' = (open /\ form.after \notin {"close", "leave"}) /\ base' = base
      /\ waiting' = (waiting /\ ~form.remounts /\ (~c.mine \/ form.after = "leave"))
      /\ revealed' = (IF form.reveals THEN c.n ELSE 0)
      /\ unread' = (IF revealed = 0 THEN unread ELSE unread \cup {revealed})
      /\ UNCHANGED <<form, formSent, stored, made, overlapped, lost>>
  BY DEF Filling!AnswerOk
<1>2. /\ formCalls \subseteq FormCall /\ c.n \in 1..MaxFormSent /\ c.value \in FormValues /\ c.mine \in BOOLEAN
      /\ form \in Filling!Forms /\ rest \in SUBSET FormCall
  BY DEF FormsInv, FormsTyped, FormCall
<1>3. /\ formCalls' \subseteq FormCall
      /\ \A d \in formCalls' : \E e \in rest : e.n = d.n /\ e.value = d.value /\ e.at = d.at
      /\ \A e \in rest : \E d \in formCalls' : e.n = d.n /\ e.value = d.value /\ e.at = d.at
      /\ \A d, e \in formCalls' : d.n = e.n => d = e
  <2>1. \A d, e \in rest : d.n = e.n => d = e
    BY DEF FormsInv, RequestsCounted
  <2>2. CASE form.remounts
    <3>1. formCalls' = Filling!Orphaned(rest)
      BY <1>1, <2>2
    <3> HIDE DEF rest
    <3> QED
      BY <1>2, <2>1, <3>1, OrphansAlike
  <2>3. CASE ~form.remounts
    BY <1>1, <1>2, <2>1, <2>3
  <2> QED
    BY <2>2, <2>3
<1>4. c.n \in made
  BY <1>1 DEF FormsInv, RequestsCounted
<1>5. form \in Filling!Description
  BY <1>2, FormFacts
<1>6. FormsTyped'
  <2>1. value' \in FormValues \cup {None}
    BY <1>1, <1>2 DEF FormsInv, FormsTyped, Filling!ValueAfter
  <2>2. open' \in BOOLEAN /\ waiting' \in BOOLEAN /\ known' \in FormValues /\ told' \subseteq made
    BY <1>1, <1>2, <1>4, <1>5 DEF FormsInv, FormsTyped, Filling!Description
  <2>3. revealed' \in 0..MaxFormSent
    <3>1. 0 \in 0..MaxFormSent /\ c.n \in 0..MaxFormSent
      BY <1>2, ScreensAssumption DEF Filling!FormAssumption
    <3> QED
      BY <1>1, <3>1
  <2>4. unread' \subseteq 1..MaxFormSent
    <3>1. revealed \in 0..MaxFormSent /\ unread \subseteq 1..MaxFormSent
      BY DEF FormsInv, FormsTyped
    <3> QED
      BY <1>1, <3>1
  <2> QED
    BY <1>1, <1>3, <2>1, <2>2, <2>3, <2>4 DEF FormsInv, FormsTyped
<1>7. RequestsCounted'
  <2>1. ASSUME NEW d \in formCalls' PROVE d.n <= formSent /\ (d.at = "served" <=> d.n \in made)
    <3>1. PICK e \in formCalls : e.n = d.n /\ e.at = d.at
      BY <1>3
    <3> QED
      BY <3>1 DEF FormsInv, RequestsCounted
  <2> QED
    BY <1>1, <1>3, <2>1 DEF FormsInv, RequestsCounted
<1>8. ~overlapped => rest = {} /\ formCalls' = {} /\ stored = c.value
  <2>1. ~overlapped => rest = {}
    BY DEF FormsInv, AnswersAwaited
  <2>2. rest = {} => formCalls' = {}
    BY <1>3
  <2>3. ~overlapped => stored = c.value
    BY <1>1 DEF FormsInv, AnswersAwaited
  <2> QED
    BY <2>1, <2>2, <2>3
<1>9. AnswersAwaited'
  <2>1. ASSUME NEW n \in made PROVE n \in told' \/ lost \/ \E d \in formCalls' : d.n = n
    BY <1>1, <1>3, <2>1 DEF FormsInv, AnswersAwaited
  <2>2. ~overlapped => known' = stored
    BY <1>1, <1>8
  <2> QED
    BY <1>1, <1>8, <2>1, <2>2 DEF AnswersAwaited
<1>10. WaitsForOne'
  <2>1. ASSUME waiting' PROVE (\E d \in formCalls' : d.mine) \/ (form.after = "leave" /\ ~open')
    BY <1>1, <2>1 DEF FormsInv, WaitsForOne
  <2>2. (form.guarded /\ ~form.forgets /\ ~form.remounts) => ~overlapped
    BY DEF FormsInv, WaitsForOne
  <2> QED
    BY <1>1, <1>8, <2>1, <2>2 DEF WaitsForOne
<1>11. SecretsInTurn'
  <2>1. ASSUME form.reveals, ~form.forgets PROVE ~overlapped /\ revealed = 0
    BY <1>2, <2>1, FormFacts DEF FormsInv, WaitsForOne, SecretsInTurn
  <2>2. ~form.forgets => revealed = 0
    BY <2>1 DEF FormsInv, SecretsInTurn
  <2> QED
    BY <1>1, <1>8, <2>1, <2>2 DEF FormsInv, SecretsInTurn
<1>12. RightsEntered'
  <2>1. form.differs = "known" => form.sends = "press" /\ form.after = "keep"
    BY <1>2, FormFacts
  <2> QED
    BY <1>1, <2>1 DEF FormsInv, RightsEntered, Filling!ValueAfter
<1>13. SentAsEntered'
  <2>1. ASSUME form.sends = "press", form.locked, ~form.closable PROVE formCalls' = {}
    <3>1. form.guarded /\ ~form.forgets /\ ~form.remounts
      BY <1>2, <2>1, FormFacts
    <3> QED
      BY <1>8, <3>1 DEF FormsInv, WaitsForOne
  <2> QED
    BY <1>1, <2>1 DEF SentAsEntered
<1> QED
  BY <1>6, <1>7, <1>9, <1>10, <1>11, <1>12, <1>13 DEF FormsInv

LEMMA FormsStep ==
  ASSUME FormsInv, Filling!Next PROVE FormsInv'
<1>1. ASSUME NEW v \in FormValues, Filling!Type(v) \/ Filling!Choose(v) PROVE FormsInv'
  BY <1>1, FormTypeStep, ChooseStep
<1>2. ASSUME NEW c \in formCalls, Filling!Serve(c) \/ Filling!AnswerOk(c) \/ Filling!Fail(c) PROVE FormsInv'
  BY <1>2, FormServeStep, FormAnswerStep, FormFailStep
<1> QED
  BY <1>1, <1>2, FormOpenStep, FormCloseStep, PressStep, SecretStep, RemountStep DEF Filling!Next

(* The requests of a form are counted, and are as many when it is gone.          *)
LEMMA OrphansAsMany ==
  ASSUME FormsInv
  PROVE  /\ Filling!Cardinality(formCalls) \in Nat
         /\ Filling!Cardinality(Filling!Orphaned(formCalls)) = Filling!Cardinality(formCalls)
<1> DEFINE number == [c \in formCalls |-> c.n]
<1>1. formCalls \subseteq FormCall /\ \A c, d \in formCalls : c.n = d.n => c = d
  BY DEF FormsInv, FormsTyped, RequestsCounted
<1>2. number \in [formCalls -> 1..MaxFormSent] /\ \A c, d \in formCalls : number[c] = number[d] => c = d
  BY <1>1 DEF FormCall
<1> HIDE DEF number
<1>3. number \in Injection(formCalls, 1..MaxFormSent)
  BY <1>2, Fun_IsInj
<1>4. IsFiniteSet(1..MaxFormSent)
  BY FS_Interval, ScreensAssumption DEF Filling!FormAssumption
<1>5. IsFiniteSet(formCalls)
  BY <1>3, <1>4, FS_Injection
<1>6. Filling!Cardinality(formCalls) \in Nat
  BY <1>5, FS_CardinalityType DEF Cardinality, Filling!Cardinality
<1>7. CASE form = Filling!CreateUser
  BY <1>6, <1>7 DEF Filling!Orphaned
<1>8. CASE form # Filling!CreateUser
  <2> DEFINE orphan(c) == [c EXCEPT !.mine = FALSE]
             gone == [c \in formCalls |-> orphan(c)]
  <2>1. \A c \in formCalls : orphan(c).n = c.n
    BY <1>1 DEF FormCall
  <2>2. Filling!Orphaned(formCalls) = {orphan(c) : c \in formCalls}
    BY <1>8 DEF Filling!Orphaned
  <2> HIDE DEF orphan
  <2>3. gone \in [formCalls -> Filling!Orphaned(formCalls)] /\ \A c, d \in formCalls : gone[c] = gone[d] => c = d
    BY <1>1, <2>1, <2>2
  <2>4. \A d \in Filling!Orphaned(formCalls) : \E c \in formCalls : gone[c] = d
    BY <2>2
  <2> HIDE DEF gone
  <2>5. gone \in Bijection(formCalls, Filling!Orphaned(formCalls))
    BY <2>3, <2>4, Fun_IsBij
  <2>6. ExistsBijection(formCalls, Filling!Orphaned(formCalls))
    BY <2>5 DEF ExistsBijection
  <2> QED
    BY <1>5, <1>6, <2>6, FS_Bijection DEF Cardinality, Filling!Cardinality
<1> QED
  BY <1>6, <1>7, <1>8

(* What is entered stays, but for what is sent and carried out.                *)
LEMMA FormsStay ==
  ASSUME FormsInv, Filling!Next PROVE Filling!EnteredStays
<1> SUFFICES ASSUME value' # value, form.sends = "press", ~form.remounts,
                    Filling!Cardinality(formCalls') < Filling!Cardinality(formCalls)
             PROVE  \E c \in formCalls \ formCalls' :
                      c.at = "served" /\ ((form.locked /\ ~form.closable) => value = c.value)
  BY DEF Filling!EnteredStays
<1>1. Filling!Cardinality(formCalls') # Filling!Cardinality(formCalls) /\ formCalls' # formCalls
  BY OrphansAsMany
<1>2. CASE Filling!Close
  BY <1>1, <1>2, OrphansAsMany DEF Filling!Close
<1>3. ASSUME NEW c \in formCalls, Filling!AnswerOk(c)
      PROVE  \E d \in formCalls \ formCalls' : d.at = "served" /\ ((form.locked /\ ~form.closable) => value = d.value)
  <2>1. c \notin formCalls' /\ c.at = "served"
    BY <1>3 DEF Filling!AnswerOk
  <2> QED
    BY <2>1 DEF FormsInv, SentAsEntered
<1>4. ASSUME NEW c \in formCalls, Filling!Serve(c) \/ Filling!Fail(c) PROVE FALSE
  BY <1>4 DEF Filling!Serve, Filling!Fail, Filling!ValueAfterError, Filling!entry
<1> QED
  BY <1>1, <1>2, <1>3, <1>4
  DEF Filling!Next, Filling!Open, Filling!Press, Filling!CloseSecret, Filling!Remount, Filling!Type, Filling!Choose,
      Filling!entry

-----------------------------------------------------------------------------
(* The lists *)

AnyFilter == Lists!Kinds \cup {Lists!All, Lists!Blank}
NoList    == ""  \* what a change says of the list it asks for
ListCall  ==
  [op : {"load", "remove", "create"}, n : Nat, filter : AnyFilter, page : Nat \ {0},
   how : {"replace", "append", NoList}, at : {"sent", "served"}, items : SUBSET ListRows, total : Nat]

ListsTyped ==
  /\ screen \in Lists!Screens /\ rows \subseteq ListRows
  /\ filter \in Lists!FiltersOf(screen) /\ applied \in Lists!FiltersOf(screen)
  /\ listPage \in Nat \ {0} /\ status \in {"idle", "loading", "ready", "error"}
  /\ items \subseteq ListRows /\ total \in Nat /\ ticked \subseteq ListRows
  /\ timer \in BOOLEAN /\ crossed \in BOOLEAN /\ disturbed \in BOOLEAN /\ sent \in Nat
  /\ listCalls \subseteq ListCall

(* A screen that cancels, or whose answers did not cross, awaits one list, of     *)
(* what was last asked for; and it is ready when it has that.                  *)
LoadsInOrder ==
  /\ \A c, d \in Lists!Edits : c = d
  /\ (screen.cancels \/ ~crossed) =>
       /\ \A c, d \in Lists!Loads : c = d
       /\ \A c \in Lists!Loads : c.filter = applied
       /\ Lists!Loads # {} => status = "loading"
       /\ status = "ready" => of.filter = applied
  /\ filter = applied \/ timer

(* The page a screen names is the one it asks for, or the one it has.             *)
PagesInOrder ==
  /\ screen.label = "asked" =>
       (screen.cancels \/ listPage = 1) /\ \A c \in Lists!Loads : c.page = listPage
  /\ \A c \in Lists!Loads :
       \/ c.how = "append" /\ screen.pager = "more"
       \/ c.how = "replace" /\ (screen.pager = "more" => c.page = 1)
  /\ status = "ready" => of.page = listPage

EditsInOrder ==
  /\ screen.edits # "purge" => ticked = {}
  /\ ticked \subseteq items
  /\ screen.edits = "none" => Lists!Edits = {}
  /\ screen.pager = "more" => \A e \in Lists!Edits : e.at = "served" => disturbed

(* A change that is made on the list as it is on the rows.                      *)
Done(e, set) == IF e.op = "remove" THEN set \ e.items ELSE set \cup e.items
NoneServed   == \A e \in Lists!Edits : e.at = "sent"
Due(set)     == /\ NoneServed => set = rows
                /\ \A e \in Lists!Edits : e.at = "served" => Done(e, set) = rows

(* A list a screen changes itself is, but for the change under way, what is        *)
(* stored.                                                                  *)
KeepsItsList ==
  (screen.edits = "local" /\ screen.pager # "more" /\ ~disturbed) =>
    /\ \A e \in Lists!Edits : e.at = "served" => Done(e, rows) = rows
    /\ ~crossed => /\ \A c \in Lists!Loads : c.at = "served" => Due(c.items)
                   /\ status = "ready" => Due(items)

(* One that is asked for again is what is stored until a change is served.         *)
AsksForItsList ==
  (screen.edits # "local" /\ ~disturbed /\ ~crossed /\ NoneServed) =>
    /\ \A c \in Lists!Loads : c.at = "served" => c.items = Lists!Listed(applied, c.page)
    /\ status = "ready" => items = Lists!Listed(applied, listPage)

(* One that grows has the pages until the one it names.                         *)
GrowsItsList ==
  (screen.pager = "more" /\ ~disturbed /\ ~crossed) =>
    /\ \A c \in Lists!Loads : c.at = "served" => c.items = Lists!Listed(applied, c.page)
    /\ \A c \in Lists!Loads : c.how = "append" => c.page = listPage + 1
    /\ (\A c \in Lists!Loads : c.how = "append") =>
         items = UNION {Lists!Listed(applied, p) : p \in 1..listPage}

ListsInv ==
  /\ ListsTyped /\ LoadsInOrder /\ PagesInOrder /\ EditsInOrder
  /\ KeepsItsList /\ AsksForItsList /\ GrowsItsList

ScreenIsFit(s) ==
  /\ s \in Lists!Description
  /\ (s.label = "answer" /\ s.filtered) => s.delay = "value"
  /\ (s.label = "asked" /\ ~s.cancels) => s.pager = "none" /\ s.edits = "none"
  /\ s.delay = "query" => s.cancels /\ s.pager = "none" /\ s.label = "asked" /\ s.edits = "none" /\ s.filtered
  /\ s.edits = "purge" => s.label = "answer"
  /\ (s.edits = "local" /\ s.pager # "more") => s.pager = "none" /\ ~s.filtered
  /\ s.pager = "more" => s.edits = "local" /\ ~s.cancels /\ s.label = "answer" /\ s.delay = "value"

LEMMA ScreensAreFit ==
  ASSUME NEW s \in Lists!Screens PROVE ScreenIsFit(s)
<1> DEFINE Simple(r) == /\ r \in Lists!Description /\ r.label = "asked" /\ r.cancels /\ r.delay # "query"
                         /\ r.pager # "more" /\ r.edits = "none"
<1>1. Simple(Lists!Plain) /\ Lists!Plain.pager = "none" /\ Lists!Plain.filtered
  BY DEF Lists!Plain, Lists!Description
<1>2. Simple(Lists!AuditLog)
  BY <1>1 DEF Lists!AuditLog, Lists!Description
<1>3. Simple(Lists!SearchPage)
  BY <1>1 DEF Lists!SearchPage, Lists!Description
<1>4. Simple(Lists!Dashboard)
  BY <1>1 DEF Lists!Dashboard, Lists!Description
<1>5. ASSUME NEW r, Simple(r) PROVE ScreenIsFit(r)
  BY <1>5 DEF ScreenIsFit
<1>6. ScreenIsFit(Lists!UsersPage)
  BY <1>1 DEF Lists!UsersPage, Lists!Description, ScreenIsFit
<1>7. ScreenIsFit(Lists!SearchBox)
  BY <1>1 DEF Lists!SearchBox, Lists!Description, ScreenIsFit
<1>8. ScreenIsFit(Lists!EffectiveRights)
  BY <1>1 DEF Lists!EffectiveRights, Lists!Description, ScreenIsFit
<1>9. ScreenIsFit(Lists!GroupsPage)
  BY <1>1 DEF Lists!GroupsPage, Lists!Description, ScreenIsFit
<1>10. ScreenIsFit(Lists!History)
  BY <1>1 DEF Lists!History, Lists!Description, ScreenIsFit
<1>11. /\ Lists!UserComments \in Lists!Description /\ Lists!UserComments.label = "answer"
       /\ ~Lists!UserComments.filtered /\ Lists!UserComments.delay = "none"
       /\ Lists!UserComments.pager = "always" /\ Lists!UserComments.edits = "purge"
  BY <1>1 DEF Lists!UserComments, Lists!Plain, Lists!Description
<1>12. ScreenIsFit(Lists!UserComments)
  BY <1>11 DEF ScreenIsFit
<1>13. ScreenIsFit(Lists!MyActivity)
  BY <1>11 DEF Lists!MyActivity, Lists!Description, ScreenIsFit
<1>14. ScreenIsFit(Lists!Library)
  BY <1>1 DEF Lists!Library, Lists!Description, ScreenIsFit
<1> HIDE DEF Simple
<1>15. CASE s \in {Lists!AuditLog, Lists!ActivityLog, Lists!McpAudit}
  BY <1>2, <1>5, <1>15 DEF Lists!ActivityLog, Lists!McpAudit
<1>16. CASE s \in {Lists!SearchBox, Lists!Beneficiaries, Lists!NewMembers}
  BY <1>7, <1>16 DEF Lists!Beneficiaries, Lists!NewMembers
<1>17. CASE s \in {Lists!UserDetail, Lists!GroupDetail, Lists!VersionDiff, Lists!Contributors}
  BY <1>1, <1>5, <1>17 DEF Lists!UserDetail, Lists!GroupDetail, Lists!VersionDiff, Lists!Contributors
<1>18. CASE s \in {Lists!Dashboard, Lists!VisitorHome, Lists!MyProfile}
  BY <1>4, <1>5, <1>18 DEF Lists!VisitorHome, Lists!MyProfile
<1>19. CASE s \in {Lists!GroupsPage, Lists!KeysPage, Lists!ClientsPage}
  BY <1>9, <1>19 DEF Lists!KeysPage, Lists!ClientsPage
<1> QED
  BY <1>3, <1>5, <1>6, <1>8, <1>10, <1>12, <1>13, <1>14, <1>15, <1>16, <1>17, <1>18, <1>19 DEF Lists!Screens

LEMMA SearchesAreFit ==
  /\ Lists!SearchPage.edits = "none" /\ Lists!SearchPage.pager # "more"
  /\ Lists!SearchBox.edits = "none" /\ Lists!SearchBox.pager # "more"
<1>1. Lists!Plain \in Lists!Description /\ Lists!Plain.edits = "none" /\ Lists!Plain.pager = "none"
  BY DEF Lists!Plain, Lists!Description
<1> QED
  BY <1>1 DEF Lists!SearchPage, Lists!SearchBox, Lists!Description

LEMMA ListedIsThere ==
  ASSUME NEW f, NEW p PROVE Lists!Listed(f, p) \subseteq rows /\ Lists!Matching(f) \subseteq rows
BY DEF Lists!Listed, Lists!Slice, Lists!Matching

LEMMA ListedStands ==
  ASSUME UNCHANGED <<screen, rows, applied>>
  PROVE  /\ \A q : Lists!Listed(applied, q)' = Lists!Listed(applied, q)
         /\ \A q : listPage' = q => Lists!Listed(applied, listPage)' = Lists!Listed(applied, q)
<1>1. Lists!Matching(applied)' = Lists!Matching(applied)
  BY DEF Lists!Matching
<1> QED
  BY <1>1 DEF Lists!Listed, Lists!Slice

LEMMA CountedRows ==
  ASSUME NEW S \in SUBSET ListRows PROVE Lists!Cardinality(S) \in Nat
<1>1. IsFiniteSet(ListRows)
  BY ScreensAssumption DEF Lists!ListAssumption, Lists!IsFiniteSet, IsFiniteSet
<1> QED
  BY <1>1, FS_Subset, FS_CardinalityType DEF Lists!Cardinality, Cardinality

LEMMA LoadIsCall ==
  ASSUME NEW k \in Nat, NEW f \in AnyFilter, NEW p \in Nat \ {0}, NEW how \in {"replace", "append"}
  PROVE  [op |-> "load", n |-> k, filter |-> f, page |-> p, how |-> how, at |-> "sent",
          items |-> {}, total |-> 0] \in ListCall
<1>1. CASE how = "replace"
  BY <1>1 DEF ListCall
<1>2. CASE how = "append"
  BY <1>2 DEF ListCall
<1> QED
  BY <1>1, <1>2

LEMMA AtMostOne ==
  ASSUME NEW S, \A c, d \in S : c = d PROVE Lists!Cardinality(S) <= 1
<1>1. CASE S = {}
  BY <1>1, FS_EmptySet DEF Cardinality, Lists!Cardinality
<1>2. CASE S # {}
  <2>1. PICK c \in S : S = {c}
    BY <1>2
  <2>2. Cardinality({c}) = 1
    BY FS_Singleton
  <2> QED
    BY <2>1, <2>2 DEF Cardinality, Lists!Cardinality
<1> QED
  BY <1>1, <1>2

LEMMA FiltersAreAny ==
  ASSUME NEW f \in Lists!FiltersOf(screen) PROVE f \in AnyFilter
BY DEF Lists!FiltersOf, AnyFilter

LEMMA ListsSpeak ==
  ASSUME ListsInv PROVE Lists!ListsTell
<1>1. screen \in Lists!Screens /\ ScreenIsFit(screen)
  BY ScreensAreFit DEF ListsInv, ListsTyped
<1>2. Lists!TypeOK
  <2>1. Lists!Cardinality(Lists!Edits) <= 1 /\ (screen.cancels => Lists!Cardinality(Lists!Loads) <= 1)
    BY AtMostOne DEF ListsInv, LoadsInOrder
  <2> QED
    BY <1>1, <2>1 DEF ListsInv, ListsTyped, Lists!TypeOK, ScreenIsFit
<1>3. Lists!ShowsWhatIsAsked
  BY DEF ListsInv, LoadsInOrder, PagesInOrder, Lists!ShowsWhatIsAsked, Lists!Rest
<1>4. Lists!ShowsWhatIsThere
  <2>1. ASSUME Lists!Rest, Lists!Edits = {}, ~disturbed, ~crossed
        PROVE  items = IF screen.pager = "more" THEN UNION {Lists!Listed(applied, p) : p \in 1..listPage}
                       ELSE Lists!Listed(applied, listPage)
    <3>1. CASE screen.pager = "more"
      BY <2>1, <3>1 DEF ListsInv, GrowsItsList, Lists!Rest
    <3>2. CASE screen.edits # "local"
      BY <1>1, <2>1, <3>2 DEF ListsInv, AsksForItsList, NoneServed, Lists!Rest, ScreenIsFit
    <3>3. CASE screen.edits = "local" /\ screen.pager # "more"
      <4>1. items = rows
        BY <2>1, <3>3 DEF ListsInv, KeepsItsList, Due, NoneServed, Lists!Rest
      <4>2. applied = Lists!All /\ screen.pager = "none"
        BY <1>1, <3>3 DEF ListsInv, ListsTyped, Lists!FiltersOf, ScreenIsFit
      <4> QED
        BY <3>3, <4>1, <4>2 DEF Lists!Listed, Lists!Matching
    <3> QED
      BY <3>1, <3>2, <3>3
  <2> QED
    BY <2>1 DEF Lists!ShowsWhatIsThere
<1>5. Lists!TickedIsShown
  BY DEF ListsInv, EditsInOrder, Lists!TickedIsShown
<1> QED
  BY <1>2, <1>3, <1>4, <1>5 DEF Lists!ListsTell

LEMMA ListsBegin ==
  ASSUME Lists!Init PROVE ListsInv
<1> USE DEF Lists!Init
<1>1. screen \in Lists!Screens /\ ScreenIsFit(screen)
  BY ScreensAreFit
<1> DEFINE first == [op |-> "load", n |-> 1, filter |-> Lists!All, page |-> 1, how |-> "replace",
                     at |-> "sent", items |-> {}, total |-> 0]
<1>2. /\ screen.delay = "query" => status = "idle" /\ listCalls = {} /\ sent = 0 /\ filter = Lists!Blank
      /\ screen.delay # "query" => status = "loading" /\ listCalls = {first} /\ sent = 1 /\ filter = Lists!All
      /\ applied = filter /\ listPage = 1 /\ items = {} /\ ticked = {} /\ timer = FALSE
  OBVIOUS
<1>3. first \in ListCall /\ first.op = "load" /\ first.page = 1 /\ first.at = "sent" /\ first.how = "replace"
      /\ first.filter = Lists!All
  BY DEF ListCall, AnyFilter
<1> HIDE DEF first
<1>4. Lists!Edits = {} /\ (Lists!Loads = {} \/ Lists!Loads = {first}) /\ (Lists!Loads = {} <=> screen.delay = "query")
  BY <1>2, <1>3 DEF Lists!Edits, Lists!Loads
<1>5. ListsTyped
  <2>1. filter \in Lists!FiltersOf(screen)
    BY <1>1, <1>2 DEF Lists!FiltersOf, ScreenIsFit
  <2>2. listCalls \subseteq ListCall
    BY <1>2, <1>3
  <2>3. status \in {"idle", "loading", "ready", "error"} /\ sent \in Nat /\ listPage \in Nat \ {0}
    BY <1>2
  <2> QED
    BY <1>1, <1>2, <2>1, <2>2, <2>3 DEF ListsTyped
<1>6. LoadsInOrder
  BY <1>2, <1>3, <1>4 DEF LoadsInOrder
<1>7. PagesInOrder
  BY <1>2, <1>3, <1>4 DEF PagesInOrder
<1>8. EditsInOrder
  BY <1>2, <1>4 DEF EditsInOrder
<1>9. KeepsItsList /\ AsksForItsList
  BY <1>2, <1>3, <1>4 DEF KeepsItsList, AsksForItsList
<1>10. GrowsItsList
  BY <1>1, <1>2, <1>3, <1>4 DEF GrowsItsList, ScreenIsFit
<1> QED
  BY <1>5, <1>6, <1>7, <1>8, <1>9, <1>10 DEF ListsInv

(* Steps that change no list, no request and no row.                           *)
LEMMA ListsStand ==
  ASSUME ListsInv, UNCHANGED <<screen, rows, applied, listPage, status, items, listCalls, crossed, disturbed>>
  PROVE  KeepsItsList' /\ AsksForItsList' /\ GrowsItsList'
<1>1. Lists!Loads' = Lists!Loads /\ Lists!Edits' = Lists!Edits
  BY DEF Lists!Loads, Lists!Edits
<1>2. NoneServed' = NoneServed
  BY <1>1 DEF NoneServed
<1>3. KeepsItsList'
  BY <1>1, <1>2 DEF ListsInv, KeepsItsList, Due
<1>4. /\ \A q : Lists!Listed(applied, q)' = Lists!Listed(applied, q)
      /\ Lists!Listed(applied, listPage)' = Lists!Listed(applied, listPage)
  BY ListedStands
<1>5. AsksForItsList' /\ GrowsItsList'
  BY <1>1, <1>2, <1>4 DEF ListsInv, AsksForItsList, GrowsItsList
<1> QED
  BY <1>3, <1>5

(* A request for a list, and what it leaves of those before.                    *)
LEMMA AskStep ==
  ASSUME ListsInv, NEW f \in AnyFilter, NEW p \in Nat \ {0}, NEW how \in {"replace", "append"}, NEW E \in SUBSET Lists!Edits,
         sent' = sent + 1, listCalls' = E \cup Lists!Awaited \cup {Lists!Load(f, p, how)},
         E = Lists!Edits \/ screen.edits # "local",
         status' = "loading", crossed' \in BOOLEAN, crossed' = (Lists!Awaited # {} \/ (how = "append" /\ crossed)),
         applied' = f, filter' \in Lists!FiltersOf(screen), applied' \in Lists!FiltersOf(screen),
         timer' \in BOOLEAN, filter' = applied' \/ timer', listPage' \in Nat \ {0},
         screen.label = "asked" => listPage' = p /\ (screen.cancels \/ listPage' = 1),
         how = "append" => screen.pager = "more" /\ applied' = applied /\ listPage' = listPage /\ p = listPage + 1,
         (screen.pager = "more" /\ how = "replace") => p = 1,
         UNCHANGED <<screen, rows, items, total, ticked, of, disturbed>>
  PROVE  ListsInv'
<1> DEFINE new == Lists!Load(f, p, how)
<1>1. sent \in Nat /\ listCalls \subseteq ListCall /\ ScreenIsFit(screen)
  BY ScreensAreFit DEF ListsInv, ListsTyped
<1>2. /\ new \in ListCall /\ new.op = "load" /\ new.filter = f /\ new.page = p /\ new.how = how /\ new.at = "sent"
  <2>1. new = [op |-> "load", n |-> sent + 1, filter |-> f, page |-> p, how |-> how, at |-> "sent",
               items |-> {}, total |-> 0]
    BY DEF Lists!Load
  <2>2. sent + 1 \in Nat
    BY <1>1
  <2> HIDE DEF new
  <2>3. new \in ListCall
    BY <2>1, <2>2, LoadIsCall
  <2> QED
    BY <2>1, <2>3
<1>3. listCalls' = E \cup Lists!Awaited \cup {new}
  OBVIOUS
<1> HIDE DEF new
<1>4. Lists!Awaited \subseteq Lists!Loads /\ (screen.cancels => Lists!Awaited = {})
      /\ (~screen.cancels => Lists!Awaited = Lists!Loads)
  BY DEF Lists!Awaited
<1>5. Lists!Edits' = E /\ Lists!Loads' = Lists!Awaited \cup {new} /\ listCalls' \subseteq ListCall
  BY <1>1, <1>2, <1>3, <1>4 DEF Lists!Edits, Lists!Loads
<1>6. ListsTyped'
  <2>1. Lists!FiltersOf(screen)' = Lists!FiltersOf(screen)
    BY DEF Lists!FiltersOf, Lists!Kinds
  <2> QED
    BY <1>1, <1>5, <2>1 DEF ListsInv, ListsTyped
<1>7. (screen.cancels \/ ~crossed') => Lists!Loads' = {new}
  BY <1>4, <1>5
<1>8. LoadsInOrder'
  BY <1>2, <1>5, <1>7 DEF ListsInv, LoadsInOrder
<1>9. PagesInOrder'
  <2>1. screen.label = "asked" => \A c \in Lists!Loads' : c.page = listPage'
    BY <1>2, <1>4, <1>5 DEF ListsInv, PagesInOrder
  <2> QED
    BY <1>2, <1>4, <1>5, <2>1 DEF ListsInv, PagesInOrder
<1>10. EditsInOrder'
  BY <1>5 DEF ListsInv, EditsInOrder
<1>11. KeepsItsList'
  BY <1>2, <1>5, <1>7 DEF ListsInv, KeepsItsList, Done
<1>12. AsksForItsList'
  BY <1>2, <1>7 DEF AsksForItsList
<1>13. GrowsItsList'
  <2>1. ASSUME screen.pager = "more", ~disturbed, ~crossed', how = "append"
        PROVE  /\ new.page = listPage' + 1 /\ items = UNION {Lists!Listed(applied, q) : q \in 1..listPage}
    <3>1. ~crossed /\ Lists!Loads = {}
      BY <1>1, <1>4, <2>1 DEF ScreenIsFit
    <3> QED
      BY <1>2, <2>1, <3>1 DEF ListsInv, GrowsItsList
  <2>2. how = "append" => \A q : Lists!Listed(applied, q)' = Lists!Listed(applied, q)
    BY ListedStands
  <2>3. ASSUME screen.pager = "more", ~disturbed, ~crossed'
        PROVE  Lists!Loads' = {new} /\ new.how = how /\ new.at = "sent"
    BY <1>2, <1>7, <2>3
  <2>4. CASE how = "append"
    <3>1. ASSUME screen.pager = "more", ~disturbed, ~crossed'
          PROVE  /\ new.page = listPage' + 1 /\ listPage' = listPage
                 /\ items' = UNION {Lists!Listed(applied, q)' : q \in 1..listPage}
      BY <2>1, <2>2, <2>4, <3>1
    <3> QED
      BY <2>3, <3>1 DEF GrowsItsList
  <2>5. CASE how = "replace"
    BY <2>3, <2>5 DEF GrowsItsList
  <2> QED
    BY <2>4, <2>5
<1> QED
  BY <1>6, <1>8, <1>9, <1>10, <1>11, <1>12, <1>13 DEF ListsInv

LEMMA FilterStep ==
  ASSUME ListsInv, NEW f, Lists!Filter(f) PROVE ListsInv'
<1>1. /\ screen.filtered /\ f \in Lists!FiltersOf(screen) /\ filter' = f
      /\ UNCHANGED <<screen, rows, disturbed>>
  BY DEF Lists!Filter
<1>2. ScreenIsFit(screen) /\ f \in AnyFilter
  BY <1>1, ScreensAreFit, FiltersAreAny DEF ListsInv, ListsTyped
<1>3. CASE screen.delay = "none"
  <2>1. /\ applied' = f /\ listPage' = 1 /\ Lists!Ask(f, 1, "replace") /\ UNCHANGED <<items, total, ticked, of, timer>>
    BY <1>3 DEF Lists!Filter
  <2>2. timer \in BOOLEAN /\ 1 \in Nat \ {0} /\ crossed \in BOOLEAN
    BY DEF ListsInv, ListsTyped
  <2>3. /\ sent' = sent + 1 /\ listCalls' = Lists!Edits \cup Lists!Awaited \cup {Lists!Load(f, 1, "replace")}
        /\ status' = "loading" /\ crossed' = (Lists!Awaited # {} \/ ("replace" = "append" /\ crossed))
    BY <2>1 DEF Lists!Ask
  <2>4. crossed' \in BOOLEAN
    BY <2>2, <2>3
  <2>5. "replace" \in {"replace", "append"} /\ Lists!Edits \in SUBSET Lists!Edits
    OBVIOUS
  <2> QED
    BY <1>1, <1>2, <2>1, <2>2, <2>3, <2>4, <2>5, AskStep
<1>4. CASE screen.delay = "value"
  <2>1. timer' = TRUE /\ UNCHANGED <<applied, listPage, status, items, total, ticked, of, listCalls, sent, crossed>>
    BY <1>4 DEF Lists!Filter, Lists!shown
  <2>2. ListsTyped'
    BY <1>1, <2>1 DEF ListsInv, ListsTyped, Lists!FiltersOf, Lists!Kinds
  <2>3. LoadsInOrder' /\ PagesInOrder' /\ EditsInOrder'
    BY <1>1, <2>1 DEF ListsInv, LoadsInOrder, PagesInOrder, EditsInOrder, Lists!Loads, Lists!Edits
  <2>4. KeepsItsList' /\ AsksForItsList' /\ GrowsItsList'
    BY <1>1, <2>1, ListsStand
  <2> QED
    BY <2>2, <2>3, <2>4 DEF ListsInv
<1>5. CASE screen.delay = "query"
  <2>1. /\ timer' = (f # Lists!Blank) /\ listCalls' = {} /\ applied' = f
        /\ (items' = {} /\ total' = 0 /\ status' = "idle") \/ (UNCHANGED <<items, total>> /\ status' = "loading")
        /\ UNCHANGED <<listPage, ticked, of, sent, crossed>>
    BY <1>5 DEF Lists!Filter
  <2>2. screen.cancels /\ screen.edits = "none" /\ screen.pager = "none"
    BY <1>2, <1>5 DEF ScreenIsFit
  <2>3. Lists!Loads' = {} /\ Lists!Edits' = {} /\ ticked = {} /\ status' # "ready"
    BY <2>1, <2>2 DEF ListsInv, EditsInOrder, Lists!Loads, Lists!Edits
  <2>4. ListsTyped'
    <3>1. items' \subseteq ListRows /\ total' \in Nat /\ status' \in {"idle", "loading", "ready", "error"}
      BY <2>1 DEF ListsInv, ListsTyped
    <3>2. timer' \in BOOLEAN /\ listCalls' \subseteq ListCall
      BY <2>1
    <3> QED
      BY <1>1, <2>1, <3>1, <3>2 DEF ListsInv, ListsTyped, Lists!FiltersOf, Lists!Kinds
  <2>5. LoadsInOrder' /\ PagesInOrder' /\ EditsInOrder'
    BY <1>1, <2>1, <2>2, <2>3 DEF ListsInv, LoadsInOrder, PagesInOrder, EditsInOrder
  <2>6. KeepsItsList' /\ AsksForItsList' /\ GrowsItsList'
    BY <1>1, <2>2, <2>3 DEF KeepsItsList, AsksForItsList, GrowsItsList
  <2> QED
    BY <2>4, <2>5, <2>6 DEF ListsInv
<1> QED
  BY <1>2, <1>3, <1>4, <1>5 DEF ScreenIsFit, Lists!Description

LEMMA TimeoutStep ==
  ASSUME ListsInv, Lists!Timeout PROVE ListsInv'
<1>1. timer /\ timer' = FALSE /\ UNCHANGED <<screen, rows, filter, disturbed>>
  BY DEF Lists!Timeout
<1>2. ScreenIsFit(screen) /\ filter \in AnyFilter /\ filter \in Lists!FiltersOf(screen)
  BY ScreensAreFit, FiltersAreAny DEF ListsInv, ListsTyped
<1>3. CASE screen.delay = "value" /\ filter = applied
  <2>1. UNCHANGED <<applied, listPage, status, items, total, ticked, of, listCalls, sent, crossed>>
    BY <1>3 DEF Lists!Timeout, Lists!shown
  <2>2. ListsTyped'
    BY <1>1, <2>1 DEF ListsInv, ListsTyped, Lists!FiltersOf, Lists!Kinds
  <2>3. LoadsInOrder' /\ PagesInOrder' /\ EditsInOrder'
    BY <1>1, <1>3, <2>1 DEF ListsInv, LoadsInOrder, PagesInOrder, EditsInOrder, Lists!Loads, Lists!Edits
  <2>4. KeepsItsList' /\ AsksForItsList' /\ GrowsItsList'
    BY <1>1, <2>1, ListsStand
  <2> QED
    BY <2>2, <2>3, <2>4 DEF ListsInv
<1>4. CASE ~(screen.delay = "value" /\ filter = applied)
  <2>1. /\ applied' = filter /\ Lists!Ask(filter, 1, "replace")
        /\ listPage' = (IF screen.label = "asked" THEN 1 ELSE listPage) /\ UNCHANGED <<items, total, ticked, of>>
    BY <1>4 DEF Lists!Timeout
  <2>2. /\ sent' = sent + 1 /\ listCalls' = Lists!Edits \cup Lists!Awaited \cup {Lists!Load(filter, 1, "replace")}
        /\ status' = "loading" /\ crossed' = (Lists!Awaited # {} \/ ("replace" = "append" /\ crossed))
    BY <2>1 DEF Lists!Ask
  <2> crossed \in BOOLEAN
    BY DEF ListsInv, ListsTyped
  <2>3. crossed' \in BOOLEAN
    BY <2>2
  <2>6. timer' \in BOOLEAN /\ 1 \in Nat \ {0}
    <3>1. timer' = FALSE
      BY <1>1
    <3>2. 1 \in Nat \ {0}
      OBVIOUS
    <3> QED
      BY <3>1, <3>2, Zenon
  <2>4. "replace" \in {"replace", "append"} /\ Lists!Edits \in SUBSET Lists!Edits
    OBVIOUS
  <2>5. listPage' \in Nat \ {0} /\ (screen.label = "asked" => listPage' = 1)
    BY <2>1 DEF ListsInv, ListsTyped
  <2> QED
    BY <1>1, <1>2, <2>1, <2>2, <2>3, <2>4, <2>5, <2>6, AskStep
<1> QED
  BY <1>3, <1>4

LEMMA PagerStep ==
  ASSUME ListsInv, NEW p \in 1..(Lists!Cardinality(ListRows) + 1), Lists!GoToPage(p) PROVE ListsInv'
<1>1. /\ screen.pager \in {"always", "ready"}
      /\ listPage' = (IF screen.label = "asked" THEN p ELSE listPage)
      /\ sent' = sent + 1 /\ listCalls' = Lists!Edits \cup Lists!Awaited \cup {Lists!Load(applied, p, "replace")}
      /\ status' = "loading" /\ crossed' = (Lists!Awaited # {} \/ ("replace" = "append" /\ crossed))
      /\ UNCHANGED <<screen, rows, filter, applied, items, total, ticked, of, timer, disturbed>>
  BY DEF Lists!GoToPage, Lists!Ask
<1>2. /\ ScreenIsFit(screen) /\ applied \in AnyFilter /\ applied \in Lists!FiltersOf(screen)
      /\ filter \in Lists!FiltersOf(screen) /\ listPage \in Nat \ {0} /\ timer \in BOOLEAN
      /\ filter = applied \/ timer
  BY ScreensAreFit, FiltersAreAny DEF ListsInv, ListsTyped, LoadsInOrder
<1>3. p \in Nat \ {0}
  BY CountedRows
<1>4. crossed' \in BOOLEAN
  BY <1>1 DEF ListsInv, ListsTyped
<1>5. "replace" \in {"replace", "append"} /\ Lists!Edits \in SUBSET Lists!Edits
  OBVIOUS
<1>6. screen.label = "asked" => screen.cancels
  BY <1>1, <1>2 DEF ScreenIsFit
<1>7. listPage' \in Nat \ {0} /\ (screen.label = "asked" => listPage' = p)
  BY <1>1, <1>2, <1>3
<1> QED
  BY <1>1, <1>2, <1>3, <1>4, <1>5, <1>6, <1>7, AskStep

LEMMA MoreStep ==
  ASSUME ListsInv, Lists!LoadMore PROVE ListsInv'
<1>1. /\ screen.pager = "more"
      /\ sent' = sent + 1 /\ listCalls' = Lists!Edits \cup Lists!Awaited \cup {Lists!Load(applied, listPage + 1, "append")}
      /\ status' = "loading" /\ crossed' = (Lists!Awaited # {} \/ ("append" = "append" /\ crossed))
      /\ UNCHANGED <<screen, rows, filter, applied, listPage, items, total, ticked, of, timer, disturbed>>
  BY DEF Lists!LoadMore, Lists!Ask
<1>2. /\ ScreenIsFit(screen) /\ applied \in AnyFilter /\ applied \in Lists!FiltersOf(screen)
      /\ filter \in Lists!FiltersOf(screen) /\ listPage \in Nat \ {0} /\ timer \in BOOLEAN
      /\ filter = applied \/ timer
  BY ScreensAreFit, FiltersAreAny DEF ListsInv, ListsTyped, LoadsInOrder
<1>3. listPage + 1 \in Nat \ {0} /\ screen.label # "asked"
  BY <1>1, <1>2 DEF ScreenIsFit
<1>4. crossed' \in BOOLEAN
  BY <1>1 DEF ListsInv, ListsTyped
<1>5. "append" \in {"replace", "append"} /\ Lists!Edits \in SUBSET Lists!Edits
  OBVIOUS
<1> QED
  BY <1>1, <1>2, <1>3, <1>4, <1>5, AskStep

LEMMA TickStep ==
  ASSUME ListsInv, NEW r \in ListRows, Lists!Tick(r) PROVE ListsInv'
<1>1. /\ screen.edits = "purge" /\ r \in items
      /\ ticked' = (IF r \in ticked THEN ticked \ {r} ELSE ticked \cup {r})
      /\ UNCHANGED <<screen, rows, filter, applied, listPage, status, items, total, of, timer, listCalls, sent,
                     crossed, disturbed>>
  BY DEF Lists!Tick
<1>2. ticked' \subseteq items /\ ticked' \subseteq ListRows
  BY <1>1 DEF ListsInv, ListsTyped, EditsInOrder
<1>3. ListsTyped'
  BY <1>1, <1>2 DEF ListsInv, ListsTyped, Lists!FiltersOf, Lists!Kinds
<1>4. LoadsInOrder' /\ PagesInOrder' /\ EditsInOrder'
  BY <1>1, <1>2 DEF ListsInv, LoadsInOrder, PagesInOrder, EditsInOrder, Lists!Loads, Lists!Edits
<1> QED
  BY <1>1, <1>3, <1>4, ListsStand DEF ListsInv

LEMMA ChangeStep ==
  ASSUME ListsInv, NEW row \in SUBSET ListRows, NEW op \in {"remove", "create"}, Lists!Change(op, row) PROVE ListsInv'
<1> DEFINE new == Lists!Edit(op, row)
<1>1. /\ screen.edits # "none" /\ Lists!Edits = {} /\ listCalls' = listCalls \cup {new} /\ sent' = sent + 1
      /\ UNCHANGED <<screen, rows, filter, applied, listPage, status, items, total, ticked, of, timer, crossed, disturbed>>
  BY DEF Lists!Change, Lists!shown
<1>2. sent \in Nat /\ listCalls \subseteq ListCall
  BY DEF ListsInv, ListsTyped
<1>3. new \in ListCall /\ new.op # "load" /\ new.at = "sent"
  <2>1. new = [op |-> op, n |-> sent + 1, filter |-> Lists!All, page |-> 1, how |-> NoList, at |-> "sent",
               items |-> row, total |-> 0]
    BY DEF Lists!Edit, NoList
  <2>2. sent + 1 \in Nat /\ Lists!All \in AnyFilter
    BY <1>2 DEF AnyFilter
  <2> HIDE DEF new
  <2>3. CASE op = "remove"
    BY <2>1, <2>2, <2>3 DEF ListCall
  <2>4. CASE op = "create"
    BY <2>1, <2>2, <2>4 DEF ListCall
  <2> QED
    BY <2>3, <2>4
<1> HIDE DEF new
<1>4. Lists!Loads' = Lists!Loads /\ Lists!Edits' = {new}
  BY <1>1, <1>3 DEF Lists!Loads, Lists!Edits
<1>5. ListsTyped'
  BY <1>1, <1>2, <1>3 DEF ListsInv, ListsTyped, Lists!FiltersOf, Lists!Kinds
<1>6. LoadsInOrder' /\ PagesInOrder' /\ EditsInOrder'
  BY <1>1, <1>3, <1>4 DEF ListsInv, LoadsInOrder, PagesInOrder, EditsInOrder
<1>7. NoneServed /\ NoneServed'
  BY <1>1, <1>3, <1>4 DEF NoneServed
<1>8. KeepsItsList'
  BY <1>1, <1>3, <1>4, <1>7 DEF ListsInv, KeepsItsList, Due
<1>9. AsksForItsList' /\ GrowsItsList'
  BY <1>1, <1>4, <1>7, ListedStands DEF ListsInv, AsksForItsList, GrowsItsList
<1> QED
  BY <1>5, <1>6, <1>8, <1>9 DEF ListsInv

LEMMA ServeLoadStep ==
  ASSUME ListsInv, NEW c \in listCalls, c.op = "load", Lists!Serve(c) PROVE ListsInv'
<1>0. PICK served : served = [c EXCEPT !.at = "served", !.items = Lists!Listed(c.filter, c.page),
                                     !.total = Lists!Cardinality(Lists!Matching(c.filter))]
  OBVIOUS
<1>1. /\ listCalls' = (listCalls \ {c}) \cup {served}
      /\ disturbed' = (disturbed /\ (c.how = "append" \/ Lists!Edits # {}))
      /\ UNCHANGED <<rows, screen, filter, applied, listPage, status, items, total, ticked, of, timer, sent, crossed>>
  BY <1>0 DEF Lists!Serve, Lists!shown
<1>2. listCalls \subseteq ListCall /\ c \in ListCall /\ rows \subseteq ListRows /\ disturbed \in BOOLEAN
      /\ ScreenIsFit(screen)
  BY ScreensAreFit DEF ListsInv, ListsTyped
<1>3. /\ served \in ListCall /\ served.op = "load" /\ served.filter = c.filter /\ served.page = c.page
      /\ served.how = c.how /\ served.at = "served" /\ served.items = Lists!Listed(c.filter, c.page)
  <2>1. Lists!Listed(c.filter, c.page) \in SUBSET ListRows /\ Lists!Cardinality(Lists!Matching(c.filter)) \in Nat
    BY <1>2, ListedIsThere, CountedRows
  <2> QED
    BY <1>0, <1>2, <2>1 DEF ListCall
<1>4. c \in Lists!Loads /\ Lists!Edits' = Lists!Edits /\ Lists!Loads' = (Lists!Loads \ {c}) \cup {served}
  BY <1>1, <1>3 DEF Lists!Loads, Lists!Edits
<1>5. ListsTyped'
  <2>1. disturbed' \in BOOLEAN /\ listCalls' \subseteq ListCall
    BY <1>1, <1>2, <1>3
  <2> QED
    BY <1>1, <2>1 DEF ListsInv, ListsTyped, Lists!FiltersOf, Lists!Kinds
<1>6. LoadsInOrder'
  BY <1>1, <1>3, <1>4 DEF ListsInv, LoadsInOrder
<1>7. PagesInOrder'
  BY <1>1, <1>3, <1>4 DEF ListsInv, PagesInOrder
<1>8. EditsInOrder'
  BY <1>1, <1>4 DEF ListsInv, EditsInOrder
<1>9. ~crossed => Lists!Loads = {c} /\ Lists!Loads' = {served} /\ c.filter = applied /\ status = "loading"
  BY <1>4 DEF ListsInv, LoadsInOrder
<1>10. NoneServed' = NoneServed
  BY <1>4 DEF NoneServed
<1>11. KeepsItsList'
  <2>1. ASSUME screen.edits = "local", screen.pager # "more", ~disturbed', NEW e \in Lists!Edits, e.at = "served"
        PROVE  Done(e, rows) = rows
    BY <1>1, <2>1 DEF ListsInv, KeepsItsList
  <2>2. ASSUME screen.edits = "local", screen.pager # "more", ~crossed PROVE served.items = rows
    <3>1. applied = Lists!All /\ screen.pager = "none"
      BY <1>2, <2>2 DEF ListsInv, ListsTyped, Lists!FiltersOf, ScreenIsFit
    <3> QED
      BY <1>3, <1>9, <2>2, <3>1 DEF Lists!Listed, Lists!Matching
  <2>3. ASSUME screen.edits = "local", screen.pager # "more", ~disturbed', ~crossed PROVE Due(served.items)'
    BY <1>1, <1>4, <2>1, <2>2, <2>3 DEF Due
  <2> QED
    BY <1>1, <1>4, <1>9, <2>1, <2>3 DEF KeepsItsList, Done
<1>12. \A q : Lists!Listed(applied, q)' = Lists!Listed(applied, q)
  BY <1>1, ListedStands
<1>13. AsksForItsList'
  BY <1>1, <1>3, <1>9, <1>12 DEF AsksForItsList
<1>14. GrowsItsList'
  <2>1. ASSUME screen.pager = "more", ~disturbed', ~crossed, c.how = "append"
        PROVE  c.page = listPage + 1 /\ items = UNION {Lists!Listed(applied, p) : p \in 1..listPage}
    BY <1>1, <1>9, <2>1 DEF ListsInv, GrowsItsList
  <2> QED
    BY <1>1, <1>3, <1>9, <1>12, <2>1 DEF GrowsItsList
<1> QED
  BY <1>5, <1>6, <1>7, <1>8, <1>11, <1>13, <1>14 DEF ListsInv

LEMMA ServeEditStep ==
  ASSUME ListsInv, NEW c \in listCalls, c.op # "load", Lists!Serve(c) PROVE ListsInv'
<1> DEFINE served == [c EXCEPT !.at = "served"]
<1>1. /\ listCalls' = (listCalls \ {c}) \cup {served}
      /\ rows' = (IF c.op = "remove" THEN rows \ c.items ELSE rows \cup c.items)
      /\ disturbed' = (disturbed \/ screen.pager = "more")
      /\ UNCHANGED <<screen, filter, applied, listPage, status, items, total, ticked, of, timer, sent, crossed>>
      /\ c.at = "sent"
  BY DEF Lists!Serve, Lists!shown
<1>2. listCalls \subseteq ListCall /\ c \in ListCall /\ rows \subseteq ListRows /\ disturbed \in BOOLEAN
      /\ c.items \subseteq ListRows /\ ScreenIsFit(screen)
  BY ScreensAreFit DEF ListsInv, ListsTyped, ListCall
<1>3. /\ served \in ListCall /\ served.op = c.op /\ served.at = "served" /\ served.items = c.items
  BY <1>2 DEF ListCall
<1> HIDE DEF served
<1>4. Lists!Edits = {c} /\ Lists!Edits' = {served} /\ Lists!Loads' = Lists!Loads
  <2>1. Lists!Edits = {c}
    BY DEF ListsInv, LoadsInOrder, Lists!Edits, Lists!Loads
  <2>2. Lists!Edits' = {served} /\ Lists!Loads' = Lists!Loads
    BY <1>1, <1>3, <2>1 DEF Lists!Edits, Lists!Loads
  <2> QED
    BY <2>1, <2>2
<1>5. ListsTyped'
  <2>1. disturbed' \in BOOLEAN /\ listCalls' \subseteq ListCall /\ rows' \subseteq ListRows
    BY <1>1, <1>2, <1>3
  <2> QED
    BY <1>1, <2>1 DEF ListsInv, ListsTyped, Lists!FiltersOf, Lists!Kinds
<1>6. LoadsInOrder' /\ PagesInOrder'
  BY <1>1, <1>4 DEF ListsInv, LoadsInOrder, PagesInOrder
<1>7. EditsInOrder'
  BY <1>1, <1>4 DEF ListsInv, EditsInOrder
<1>8. NoneServed /\ ~NoneServed'
  BY <1>1, <1>3, <1>4 DEF NoneServed
<1>9. KeepsItsList'
  <2>1. Done(served, rows) = rows' /\ Done(served, rows') = rows'
    BY <1>1, <1>3 DEF Done
  <2>2. \A set : Due(set) => Due(set)'
    BY <1>4, <1>8, <2>1 DEF Due, Done
  <2>3. ASSUME screen.edits = "local", screen.pager # "more", ~disturbed', ~crossed
        PROVE  /\ \A l \in Lists!Loads : l.at = "served" => Due(l.items)'
               /\ status = "ready" => Due(items)'
    <3>1. /\ \A l \in Lists!Loads : l.at = "served" => Due(l.items)
          /\ status = "ready" => Due(items)
      BY <1>1, <2>3 DEF ListsInv, KeepsItsList
    <3>2. UNCHANGED items
      BY <1>1
    <3>3. Due(items) => Due(items)'
      BY <1>4, <1>8, <2>1, <3>2 DEF Due, Done
    <3> QED
      BY <2>2, <3>1, <3>3
  <2>4. \A e \in Lists!Edits' : Done(e, rows)' = rows'
    BY <1>4, <2>1 DEF Done
  <2> QED
    BY <1>1, <1>4, <2>3, <2>4 DEF KeepsItsList
<1>10. AsksForItsList'
  BY <1>8 DEF AsksForItsList
<1>11. GrowsItsList'
  BY <1>1 DEF GrowsItsList
<1> QED
  BY <1>5, <1>6, <1>7, <1>9, <1>10, <1>11 DEF ListsInv

LEMMA AnswerLoadStep ==
  ASSUME ListsInv, NEW c \in listCalls, Lists!AnswerLoad(c) PROVE ListsInv'
<1>1. /\ c.op = "load" /\ c.at = "served" /\ listCalls' = listCalls \ {c}
      /\ items' = (IF c.how = "append" THEN items \cup c.items ELSE c.items)
      /\ total' = c.total /\ status' = "ready" /\ of' = [filter |-> c.filter, page |-> c.page]
      /\ listPage' = (IF screen.label = "answer" THEN c.page ELSE listPage) /\ ticked' = {}
      /\ UNCHANGED <<screen, rows, filter, applied, timer, sent, crossed, disturbed>>
  BY DEF Lists!AnswerLoad, Lists!TickedAfterLoad
<1>2. /\ listCalls \subseteq ListCall /\ c.items \subseteq ListRows /\ c.total \in Nat /\ c.page \in Nat \ {0}
      /\ c.how \in {"replace", "append", NoList} /\ items \subseteq ListRows /\ listPage \in Nat \ {0}
      /\ ScreenIsFit(screen)
  BY ScreensAreFit DEF ListsInv, ListsTyped, ListCall
<1>3. c \in Lists!Loads /\ Lists!Edits' = Lists!Edits /\ Lists!Loads' = Lists!Loads \ {c}
  BY <1>1 DEF Lists!Loads, Lists!Edits
<1>4. (screen.cancels \/ ~crossed) => Lists!Loads' = {} /\ c.filter = applied
  BY <1>3 DEF ListsInv, LoadsInOrder
<1>5. of'.filter = c.filter /\ of'.page = c.page /\ listPage' = c.page
  <2>1. screen.label # "answer" => c.page = listPage
    BY <1>2, <1>3 DEF ListsInv, PagesInOrder, ScreenIsFit, Lists!Description
  <2> QED
    BY <1>1, <2>1
<1>6. ListsTyped'
  BY <1>1, <1>2 DEF ListsInv, ListsTyped, Lists!FiltersOf, Lists!Kinds
<1>7. LoadsInOrder'
  BY <1>1, <1>3, <1>4, <1>5 DEF ListsInv, LoadsInOrder
<1>8. PagesInOrder'
  BY <1>1, <1>2, <1>3, <1>5 DEF ListsInv, PagesInOrder
<1>9. EditsInOrder'
  BY <1>1, <1>3 DEF ListsInv, EditsInOrder
<1>10. NoneServed' = NoneServed
  BY <1>3 DEF NoneServed
<1>11. c.how = "append" => screen.pager = "more"
  BY <1>3 DEF ListsInv, PagesInOrder
<1>12. KeepsItsList'
  <2>1. ASSUME screen.edits = "local", screen.pager # "more", ~disturbed, ~crossed PROVE Due(items)'
    <3>1. Due(c.items) /\ items' = c.items
      BY <1>1, <1>3, <1>11, <2>1 DEF ListsInv, KeepsItsList
    <3> QED
      BY <1>1, <1>3, <1>10, <3>1 DEF Due
  <2> QED
    BY <1>1, <1>3, <1>4, <2>1 DEF ListsInv, KeepsItsList, Done
<1>13. Lists!Listed(applied, listPage)' = Lists!Listed(applied, c.page)
       /\ \A q : Lists!Listed(applied, q)' = Lists!Listed(applied, q)
  BY <1>1, <1>5, ListedStands
<1>14. AsksForItsList'
  <2>1. ASSUME screen.edits # "local", ~disturbed, ~crossed, NoneServed PROVE items' = Lists!Listed(applied, c.page)
    <3>1. screen.pager # "more"
      BY <1>2, <2>1 DEF ScreenIsFit
    <3> QED
      BY <1>1, <1>3, <1>11, <2>1, <3>1 DEF ListsInv, AsksForItsList
  <2> QED
    BY <1>1, <1>4, <1>10, <1>13, <2>1 DEF AsksForItsList
<1>15. GrowsItsList'
  <2>1. ASSUME screen.pager = "more", ~disturbed, ~crossed
        PROVE  items' = UNION {Lists!Listed(applied, q) : q \in 1..c.page}
    <3>1. c.items = Lists!Listed(applied, c.page)
      BY <1>1, <1>3, <2>1 DEF ListsInv, GrowsItsList
    <3>2. CASE c.how = "append"
      <4>1. c.page = listPage + 1 /\ items = UNION {Lists!Listed(applied, q) : q \in 1..listPage}
        BY <1>3, <1>4, <2>1, <3>2 DEF ListsInv, GrowsItsList
      <4>2. 1..(listPage + 1) = (1..listPage) \cup {listPage + 1}
        BY <1>2
      <4> QED
        BY <1>1, <3>1, <3>2, <4>1, <4>2
    <3>3. CASE c.how # "append"
      <4>1. c.page = 1 /\ items' = c.items
        BY <1>1, <1>2, <1>3, <2>1, <3>3 DEF ListsInv, PagesInOrder
      <4>2. 1..c.page = {1}
        BY <4>1
      <4> QED
        BY <3>1, <4>1, <4>2
    <3> QED
      BY <3>2, <3>3
  <2> QED
    BY <1>1, <1>4, <1>5, <1>13, <2>1 DEF GrowsItsList
<1> QED
  BY <1>6, <1>7, <1>8, <1>9, <1>12, <1>14, <1>15 DEF ListsInv

LEMMA AnswerEditStep ==
  ASSUME ListsInv, NEW c \in listCalls, Lists!AnswerEdit(c) PROVE ListsInv'
<1>1. /\ c.op # "load" /\ c.at = "served"
      /\ UNCHANGED <<screen, rows, filter, applied, ticked, of, timer, disturbed>>
  BY DEF Lists!AnswerEdit
<1>2. /\ listCalls \subseteq ListCall /\ c \in ListCall /\ c.items \subseteq ListRows /\ total \in Nat /\ items \subseteq ListRows
      /\ crossed \in BOOLEAN /\ listPage \in Nat \ {0} /\ ScreenIsFit(screen) /\ screen \in Lists!Screens
  BY ScreensAreFit DEF ListsInv, ListsTyped, ListCall
<1>3. Lists!Edits = {c}
  BY <1>1 DEF ListsInv, LoadsInOrder, Lists!Edits, Lists!Loads
<1>4. CASE screen.edits = "local"
  <2>1. /\ listCalls' = listCalls \ {c} /\ items' = Done(c, items)
        /\ total' = (IF c.op = "remove" THEN (IF total = 0 THEN 0 ELSE total - 1) ELSE total + 1)
        /\ crossed' = (crossed \/ Lists!Loads # {}) /\ UNCHANGED <<status, sent, listPage>>
    BY <1>4 DEF Lists!AnswerEdit, Done
  <2>2. Lists!Edits' = {} /\ Lists!Loads' = Lists!Loads
    BY <1>1, <1>3, <2>1 DEF Lists!Edits, Lists!Loads
  <2>3. ListsTyped'
    <3>1. items' \subseteq ListRows /\ total' \in Nat /\ crossed' \in BOOLEAN
      BY <1>2, <2>1 DEF Done
    <3> QED
      BY <1>1, <2>1, <3>1 DEF ListsInv, ListsTyped, Lists!FiltersOf, Lists!Kinds
  <2>4. LoadsInOrder' /\ PagesInOrder'
    BY <1>1, <2>1, <2>2 DEF ListsInv, LoadsInOrder, PagesInOrder
  <2>5. EditsInOrder'
    BY <1>1, <1>4, <2>2 DEF ListsInv, EditsInOrder
  <2>6. KeepsItsList'
    <3>1. ASSUME screen.pager # "more", ~disturbed, ~crossed', status = "ready" PROVE items' = rows
      BY <1>1, <1>3, <1>4, <2>1, <3>1 DEF ListsInv, KeepsItsList, Due
    <3>2. ~crossed' => Lists!Loads' = {}
      BY <2>1, <2>2
    <3> QED
      BY <1>1, <2>1, <2>2, <3>1, <3>2 DEF KeepsItsList, Due
  <2>7. AsksForItsList'
    BY <1>1, <1>4 DEF AsksForItsList
  <2>8. GrowsItsList'
    <3>1. screen.pager = "more" => disturbed
      BY <1>1, <1>3 DEF ListsInv, EditsInOrder
    <3> QED
      BY <1>1, <3>1 DEF GrowsItsList
  <2> QED
    BY <2>3, <2>4, <2>5, <2>6, <2>7, <2>8 DEF ListsInv
<1>5. CASE screen.edits # "local"
  <2> DEFINE p == IF screen.edits = "purge" THEN 1 ELSE listPage
  <2>1. /\ sent' = sent + 1 /\ status' = "loading"
        /\ listCalls' = Lists!Awaited \cup {Lists!Load(applied, p, "replace")}
        /\ crossed' = (Lists!Awaited # {}) /\ UNCHANGED <<items, total, listPage>>
    BY <1>5 DEF Lists!AnswerEdit
  <2>2. p \in Nat \ {0} /\ (screen.label = "asked" => listPage = p)
    BY <1>2 DEF ScreenIsFit
  <2> HIDE DEF p
  <2>3. /\ applied \in AnyFilter /\ applied \in Lists!FiltersOf(screen) /\ filter \in Lists!FiltersOf(screen)
        /\ timer \in BOOLEAN /\ (filter = applied \/ timer)
    BY FiltersAreAny DEF ListsInv, ListsTyped, LoadsInOrder
  <2>4. crossed' = (Lists!Awaited # {} \/ ("replace" = "append" /\ crossed)) /\ crossed' \in BOOLEAN
    BY <2>1
  <2>5. "replace" \in {"replace", "append"} /\ {} \in SUBSET Lists!Edits
    OBVIOUS
  <2>6. screen.pager # "more"
    BY <1>2, <1>5 DEF ScreenIsFit
  <2>7. screen.label = "asked" => screen.cancels
    BY <1>2, <1>3 DEF ListsInv, EditsInOrder, ScreenIsFit
  <2>8. listCalls' = {} \cup Lists!Awaited \cup {Lists!Load(applied, p, "replace")}
    BY <2>1
  <2> QED
    BY <1>1, <1>2, <1>5, <2>1, <2>2, <2>3, <2>4, <2>5, <2>6, <2>7, <2>8, AskStep
<1> QED
  BY <1>4, <1>5

LEMMA FailStep ==
  ASSUME ListsInv, NEW c \in listCalls, Lists!Fail(c) PROVE ListsInv'
<1>1. /\ listCalls' = listCalls \ {c}
      /\ IF c.op = "load"
           THEN /\ status' = "error"
                /\ IF screen \in {Lists!SearchPage, Lists!SearchBox} THEN items' = {} /\ total' = 0
                                                                     ELSE UNCHANGED <<items, total>>
           ELSE UNCHANGED <<status, items, total>>
      /\ disturbed' = (disturbed \/ (c.op # "load" /\ c.at = "served"))
      /\ crossed' = (crossed \/ (screen.pager = "more" /\ c.how = "replace"))
      /\ UNCHANGED <<screen, rows, filter, applied, listPage, ticked, of, timer, sent>>
  BY DEF Lists!Fail
<1>2. /\ listCalls \subseteq ListCall /\ c.op \in {"load", "remove", "create"} /\ c.at \in {"sent", "served"}
      /\ disturbed \in BOOLEAN /\ crossed \in BOOLEAN /\ total \in Nat /\ items \subseteq ListRows
      /\ ScreenIsFit(screen)
  BY ScreensAreFit DEF ListsInv, ListsTyped, ListCall
<1>3. items' \subseteq ListRows /\ total' \in Nat /\ disturbed' \in BOOLEAN /\ crossed' \in BOOLEAN
  BY <1>1, <1>2
<1>4. CASE c.op = "load"
  <2>1. c \in Lists!Loads /\ Lists!Edits' = Lists!Edits /\ Lists!Loads' = Lists!Loads \ {c} /\ status' = "error"
    BY <1>1, <1>4 DEF Lists!Loads, Lists!Edits
  <2>2. UNCHANGED <<items, total>> \/ (items' = {} /\ total' = 0 /\ screen.edits = "none" /\ screen.pager # "more")
    BY <1>1, <1>4, SearchesAreFit
  <2>3. ListsTyped'
    BY <1>1, <1>3, <2>1 DEF ListsInv, ListsTyped, Lists!FiltersOf, Lists!Kinds
  <2>4. disturbed' = disturbed /\ (crossed => crossed')
    BY <1>1, <1>2, <1>4
  <2>5. LoadsInOrder'
    BY <1>1, <2>1, <2>4 DEF ListsInv, LoadsInOrder
  <2>6. PagesInOrder'
    BY <1>1, <2>1 DEF ListsInv, PagesInOrder
  <2>7. EditsInOrder'
    BY <1>1, <2>1, <2>2, <2>4 DEF ListsInv, EditsInOrder
  <2>8. ~crossed => Lists!Loads' = {}
    BY <2>1 DEF ListsInv, LoadsInOrder
  <2>9. KeepsItsList' /\ AsksForItsList'
    BY <1>1, <2>1, <2>4, <2>8 DEF ListsInv, KeepsItsList, AsksForItsList, Done
  <2>10. GrowsItsList'
    <3>1. ASSUME screen.pager = "more", ~disturbed, ~crossed'
          PROVE  items' = UNION {Lists!Listed(applied, q) : q \in 1..listPage} /\ Lists!Loads' = {}
      <4>1. ~crossed /\ c.how # "replace" /\ Lists!Loads = {c}
        BY <1>1, <2>1, <3>1 DEF ListsInv, LoadsInOrder
      <4>2. c.how = "append"
        BY <2>1, <4>1 DEF ListsInv, PagesInOrder
      <4>3. items = UNION {Lists!Listed(applied, q) : q \in 1..listPage}
        BY <3>1, <4>1, <4>2 DEF ListsInv, GrowsItsList
      <4> QED
        BY <2>2, <2>8, <3>1, <4>1, <4>3
    <3>2. \A q : Lists!Listed(applied, q)' = Lists!Listed(applied, q)
      BY <1>1, ListedStands
    <3> QED
      BY <1>1, <2>4, <3>1, <3>2 DEF GrowsItsList
  <2> QED
    BY <2>3, <2>5, <2>6, <2>7, <2>9, <2>10 DEF ListsInv
<1>5. CASE c.op # "load"
  <2>1. UNCHANGED <<status, items, total>> /\ (disturbed => disturbed') /\ (crossed => crossed')
    BY <1>1, <1>2, <1>5
  <2>2. Lists!Edits = {c} /\ Lists!Edits' = {} /\ Lists!Loads' = Lists!Loads
    <3>1. Lists!Edits = {c}
      BY <1>5 DEF ListsInv, LoadsInOrder, Lists!Edits, Lists!Loads
    <3> QED
      BY <1>1, <1>5, <3>1 DEF Lists!Edits, Lists!Loads
  <2>3. ListsTyped'
    BY <1>1, <1>3, <2>1 DEF ListsInv, ListsTyped, Lists!FiltersOf, Lists!Kinds
  <2>4. LoadsInOrder' /\ PagesInOrder' /\ EditsInOrder'
    BY <1>1, <2>1, <2>2 DEF ListsInv, LoadsInOrder, PagesInOrder, EditsInOrder
  <2>5. ~disturbed' => NoneServed /\ ~disturbed
    BY <1>1, <1>2, <1>5, <2>2 DEF NoneServed
  <2>6. KeepsItsList'
    BY <1>1, <2>1, <2>2, <2>5 DEF ListsInv, KeepsItsList, Due
  <2>7. /\ \A q : Lists!Listed(applied, q)' = Lists!Listed(applied, q)
        /\ Lists!Listed(applied, listPage)' = Lists!Listed(applied, listPage)
    BY <1>1, ListedStands
  <2>8. AsksForItsList' /\ GrowsItsList'
    BY <1>1, <2>1, <2>2, <2>5, <2>7 DEF ListsInv, AsksForItsList, GrowsItsList
  <2> QED
    BY <2>3, <2>4, <2>6, <2>8 DEF ListsInv
<1> QED
  BY <1>4, <1>5

LEMMA OthersStep ==
  ASSUME ListsInv, NEW r \in ListRows, Lists!Others(r) PROVE ListsInv'
<1>1. /\ rows' = (IF r \in rows THEN rows \ {r} ELSE rows \cup {r}) /\ disturbed' = TRUE
      /\ UNCHANGED <<screen, filter, applied, listPage, status, items, total, ticked, of, timer, listCalls, sent, crossed>>
  BY DEF Lists!Others, Lists!shown
<1>2. ListsTyped'
  BY <1>1 DEF ListsInv, ListsTyped, Lists!FiltersOf, Lists!Kinds
<1>3. LoadsInOrder' /\ PagesInOrder' /\ EditsInOrder'
  BY <1>1 DEF ListsInv, LoadsInOrder, PagesInOrder, EditsInOrder, Lists!Loads, Lists!Edits
<1>4. KeepsItsList' /\ AsksForItsList' /\ GrowsItsList'
  BY <1>1 DEF KeepsItsList, AsksForItsList, GrowsItsList
<1> QED
  BY <1>2, <1>3, <1>4 DEF ListsInv

LEMMA ListsStep ==
  ASSUME ListsInv, Lists!Next PROVE ListsInv'
<1>1. ASSUME NEW c \in listCalls, Lists!Serve(c) \/ Lists!AnswerLoad(c) \/ Lists!AnswerEdit(c) \/ Lists!Fail(c)
      PROVE  ListsInv'
  BY <1>1, ServeLoadStep, ServeEditStep, AnswerLoadStep, AnswerEditStep, FailStep
<1>2. ASSUME NEW r \in ListRows, Lists!Tick(r) \/ Lists!Others(r) PROVE ListsInv'
  BY <1>2, TickStep, OthersStep
<1>3. ASSUME NEW row \in (SUBSET ListRows) \ {{}}, NEW op \in {"remove", "create"}, Lists!Change(op, row) PROVE ListsInv'
  BY <1>3, ChangeStep
<1>4. ASSUME NEW p \in 1..(Lists!Cardinality(ListRows) + 1), Lists!GoToPage(p) PROVE ListsInv'
  BY <1>4, PagerStep
<1>5. ASSUME NEW f, Lists!Filter(f) PROVE ListsInv'
  BY <1>5, FilterStep
<1> QED
  BY <1>1, <1>2, <1>3, <1>4, <1>5, TimeoutStep, MoreStep DEF Lists!Next

-----------------------------------------------------------------------------
(* The editors *)

(* What editor e waits for: previews, and a save.                             *)
Waits(e) == {previews[e][i] : i \in 1..Len(previews[e])} \cup ({save[e]} \ {None})

Last == versions[Len(versions)]

(* A text that came from version b lacks nothing of it but what was erased.      *)
Stands(content, b) == b \in 1..Len(versions) /\ versions[b] \ erased \subseteq content

EditSound(e) ==
  /\ editor[e] # None => Stands(editor[e].content, editor[e].base)
  /\ \A r \in Waits(e) : /\ Stands(r.content, r.base)
                         /\ r.result # None => Stands(r.result.content, r.result.base)
  /\ (save[e] # None /\ save[e].result # None /\ ~save[e].result.conflict) =>
       save[e].result.content \ erased \subseteq Last

EditInv ==
  /\ Editing!TypeOK
  /\ \A v \in 1..Len(versions) : versions[v] \ erased \subseteq Last
  /\ \A e \in Editors : EditSound(e)

(* With answers in turn, what an editor shows and what it waits for differ by     *)
(* what is in the page.                                                     *)
TurnSound(e) ==
  editor[e] # None =>
    /\ typed[e] \ erased \subseteq editor[e].content
    /\ \A r \in Waits(e) :
         /\ r.content \ erased \subseteq editor[e].content
         /\ r.result = None => editor[e].content \ erased \subseteq r.content \cup Last
         /\ r.result # None => /\ editor[e].content \ erased \subseteq r.result.content
                               /\ r.result.content \ erased \subseteq r.content \cup Last
    /\ \A r, s \in Waits(e) : r.result # None /\ s.result # None => r = s

TurnInv == EditInv /\ \A e \in Editors : TurnSound(e)

(* Versions are added, each keeping what nobody erased.                       *)
Grown ==
  /\ erased \subseteq erased' /\ Len(versions) \in Nat /\ Len(versions') \in {Len(versions), Len(versions) + 1}
  /\ \A v \in 1..Len(versions) : versions'[v] = versions[v]
  /\ Last \ erased \subseteq Last'

(* Nobody but e does anything.                                               *)
OnlyBy(e) == \A f \in Editors \ {e} : /\ editor'[f] = editor[f] /\ previews'[f] = previews[f]
                                      /\ save'[f] = save[f] /\ typed'[f] = typed[f]

LEMMA EditShapes ==
  ASSUME Editing!TypeOK, NEW e \in Editors
  PROVE  /\ previews[e] \in Seq(Editing!Preview) /\ Len(previews[e]) \in Nat
         /\ Waits(e) \subseteq Editing!Save
         /\ None \notin Editing!Save /\ None \notin Editing!Draft /\ None \notin Editing!Result
         /\ \A i \in 1..Len(previews[e]) : previews[e][i] \in Waits(e)
         /\ save[e] # None => save[e] \in Waits(e)
         /\ Len(versions) \in Nat \ {0} /\ Len(versions) \in 1..Len(versions)
<1>1. previews[e] \in Seq(Editing!Preview) /\ versions \in Seq(Editing!Content) /\ Len(versions) \in 1..MaxVersions
  BY DEF Editing!TypeOK, Editing!Newest
<1>2. Len(previews[e]) \in Nat /\ \A i \in 1..Len(previews[e]) : previews[e][i] \in Editing!Preview
  BY <1>1
<1>3. None \notin Editing!Save /\ None \notin Editing!Draft /\ None \notin Editing!Result /\ MaxVersions \in Nat
  BY ScreensAssumption DEF Editing!EditorAssumption
<1>4. save[e] # None => save[e] \in Editing!Save
  BY DEF Editing!TypeOK
<1>5. Editing!Preview = Editing!Save
  BY DEF Editing!Preview, Editing!Save
<1> QED
  BY <1>1, <1>2, <1>3, <1>4, <1>5 DEF Waits

LEMMA StandsOn ==
  ASSUME Grown, NEW c, NEW b, Stands(c, b) PROVE Stands(c, b)'
<1>1. b \in 1..Len(versions) /\ b \in 1..Len(versions')
  BY DEF Stands, Grown
<1> QED
  BY <1>1 DEF Stands, Grown

LEMMA StillGrown ==
  ASSUME Editing!TypeOK, UNCHANGED versions, erased \subseteq erased' PROVE Grown
BY DEF Grown, Editing!TypeOK, Editing!Newest, Last

LEMMA EditUnmoved ==
  ASSUME EditInv, Grown, NEW f \in Editors,
         editor'[f] = editor[f] \/ editor'[f] = None, Waits(f)' \subseteq Waits(f), save'[f] = save[f] \/ save'[f] = None
  PROVE  EditSound(f)'
<1>1. ASSUME NEW c, NEW b, Stands(c, b) PROVE Stands(c, b)'
  BY <1>1, StandsOn
<1>2. EditSound(f)
  BY DEF EditInv
<1>3. ASSUME NEW c, c \ erased \subseteq Last PROVE c \ erased' \subseteq Last'
  BY <1>3 DEF Grown
<1>4. (editor[f] # None => Stands(editor[f].content, editor[f].base))'
  BY <1>1, <1>2 DEF EditSound
<1>5. (\A r \in Waits(f) : Stands(r.content, r.base) /\ (r.result # None => Stands(r.result.content, r.result.base)))'
  BY <1>1, <1>2 DEF EditSound
<1>6. (save'[f] # None /\ save'[f].result # None /\ ~save'[f].result.conflict) =>
        save'[f].result.content \ erased' \subseteq Last'
  BY <1>2, <1>3 DEF EditSound
<1> QED
  BY <1>4, <1>5, <1>6 DEF EditSound

LEMMA TurnUnmoved ==
  ASSUME Grown, NEW f \in Editors, TurnSound(f), typed'[f] = typed[f],
         editor'[f] = editor[f] \/ editor'[f] = None, Waits(f)' \subseteq Waits(f)
  PROVE  TurnSound(f)'
<1>1. SUFFICES ASSUME editor'[f] = editor[f], editor[f] # None PROVE TurnSound(f)'
  BY DEF TurnSound
<1>2. erased \subseteq erased' /\ Last \ erased \subseteq Last'
  BY DEF Grown
<1>3. typed'[f] \ erased' \subseteq editor'[f].content
  BY <1>1, <1>2 DEF TurnSound
<1>4. ASSUME NEW r \in Waits(f)'
      PROVE  /\ r.content \ erased' \subseteq editor'[f].content
             /\ r.result = None => editor'[f].content \ erased' \subseteq r.content \cup Last'
             /\ r.result # None => /\ editor'[f].content \ erased' \subseteq r.result.content
                                   /\ r.result.content \ erased' \subseteq r.content \cup Last'
  <2>1. r \in Waits(f)
    BY <1>4
  <2>2. /\ r.content \ erased \subseteq editor[f].content
        /\ r.result = None => editor[f].content \ erased \subseteq r.content \cup Last
        /\ r.result # None => /\ editor[f].content \ erased \subseteq r.result.content
                              /\ r.result.content \ erased \subseteq r.content \cup Last
    BY <1>1, <2>1 DEF TurnSound
  <2> QED
    BY <1>1, <1>2, <2>2
<1>5. \A r, s \in Waits(f)' : r.result # None /\ s.result # None => r = s
  BY <1>1 DEF TurnSound
<1> QED
  BY <1>3, <1>4, <1>5 DEF TurnSound

(* The step of one editor.                                                   *)
LEMMA EditMove ==
  ASSUME EditInv, NEW e \in Editors, Editing!TypeOK', Grown, OnlyBy(e), EditSound(e)'
  PROVE  EditInv' /\ Editing!OthersTextStays
<1>1. ASSUME NEW f \in Editors PROVE EditSound(f)'
  <2>1. CASE f # e
    <3>1. editor'[f] = editor[f] /\ save'[f] = save[f] /\ Waits(f)' = Waits(f)
      BY <2>1 DEF OnlyBy, Waits
    <3> QED
      BY <3>1, EditUnmoved
  <2> QED
    BY <2>1
<1>2. ASSUME NEW v \in 1..Len(versions') PROVE versions'[v] \ erased' \subseteq Last'
  <2>1. CASE v = Len(versions')
    BY <2>1 DEF Last
  <2>2. CASE v # Len(versions')
    <3>1. v \in 1..Len(versions) /\ versions'[v] = versions[v]
      BY <2>2 DEF Grown
    <3> QED
      BY <3>1 DEF EditInv, Grown
  <2> QED
    BY <2>1, <2>2
<1>3. Editing!OthersTextStays
  BY DEF Editing!OthersTextStays, Editing!Newest, Grown, Last
<1> QED
  BY <1>1, <1>2, <1>3 DEF EditInv

LEMMA TurnMove ==
  ASSUME TurnInv, EditInv', NEW e \in Editors, Grown, OnlyBy(e), TurnSound(e)',
         editor[e] # None => IF editor'[e] # None
                               THEN editor[e].content \ erased' \subseteq editor'[e].content
                               ELSE typed'[e] = {} \/ typed[e] \ erased \subseteq Last
  PROVE  TurnInv' /\ Editing!TextStays
<1>1. ASSUME NEW f \in Editors PROVE TurnSound(f)'
  <2>1. CASE f # e
    <3>1. editor'[f] = editor[f] /\ typed'[f] = typed[f] /\ Waits(f)' = Waits(f)
      BY <2>1 DEF OnlyBy, Waits
    <3> QED
      BY <3>1, TurnUnmoved DEF TurnInv
  <2> QED
    BY <2>1
<1>2. Editing!TextStays
  BY DEF Editing!TextStays, Editing!Open, Editing!Newest, OnlyBy, Last
<1> QED
  BY <1>1, <1>2 DEF TurnInv

(* What the service answers to content over version b.                        *)
LEMMA EditAnswers ==
  ASSUME EditInv, NEW c \in SUBSET Texts, NEW b, Stands(c, b), NEW a \in Editing!Answers(c, b)
  PROVE  /\ a \in Editing!Result /\ a # None /\ a.base = Len(versions)
         /\ Last \ erased \subseteq a.content /\ c \ erased \subseteq a.content
         /\ a.content \subseteq c \cup Last
<1>1. versions \in Seq(SUBSET Texts) /\ Len(versions) \in 1..MaxVersions /\ MaxVersions \in Nat
  BY ScreensAssumption DEF EditInv, Editing!TypeOK, Editing!Content, Editing!Newest, Editing!EditorAssumption
<1>2. b \in 1..Len(versions) /\ versions[b] \ erased \subseteq c /\ versions[b] \ erased \subseteq Last
      /\ versions[b] \subseteq Texts /\ Last \subseteq Texts
  BY <1>1 DEF EditInv, Stands, Last
<1>3. ASSUME NEW t \in SUBSET Texts, NEW x \in BOOLEAN, a = [content |-> t, base |-> Len(versions), conflict |-> x]
      PROVE  a \in Editing!Result /\ a # None /\ a.base = Len(versions) /\ a.content = t
  <2>1. a \in Editing!Result
    BY <1>1, <1>3 DEF Editing!Result, Editing!Content
  <2>2. None \notin Editing!Result
    BY ScreensAssumption DEF Editing!EditorAssumption
  <2> QED
    BY <1>3, <2>1, <2>2
<1>4. CASE a = [content |-> Editing!Merge(versions[b], c, Last), base |-> Len(versions), conflict |-> FALSE]
  <2>1. /\ Editing!Merge(versions[b], c, Last) \in SUBSET Texts
        /\ Last \ erased \subseteq Editing!Merge(versions[b], c, Last)
        /\ c \ erased \subseteq Editing!Merge(versions[b], c, Last)
        /\ Editing!Merge(versions[b], c, Last) \subseteq c \cup Last
    BY <1>2 DEF Editing!Merge
  <2> QED
    BY <1>3, <1>4, <2>1
<1>5. CASE a = [content |-> c \cup Last, base |-> Len(versions), conflict |-> TRUE]
  <2>1. c \cup Last \in SUBSET Texts
    BY <1>2
  <2>2. a \in Editing!Result /\ a # None /\ a.base = Len(versions) /\ a.content = c \cup Last
    BY <1>3, <1>5, <2>1
  <2> QED
    BY <2>2
<1> QED
  BY <1>4, <1>5 DEF Editing!Answers, Editing!Newest, Last

Keeps(e) ==
  editor[e] # None => IF editor'[e] # None
                        THEN editor[e].content \ erased' \subseteq editor'[e].content
                        ELSE typed'[e] = {} \/ typed[e] \ erased \subseteq Last

LEMMA EditLoad ==
  ASSUME EditInv, NEW e \in Editors, Editing!Load(e)
  PROVE  /\ Editing!TypeOK' /\ Grown /\ OnlyBy(e) /\ EditSound(e)'
         /\ TurnSound(e)' /\ Keeps(e)
<1>0. EditInv /\ Editing!TypeOK
  BY DEF EditInv
<1>1. /\ editor[e] = None /\ save[e] = None /\ previews[e] = <<>>
      /\ editor' = [editor EXCEPT ![e] = [content |-> Last, base |-> Len(versions)]]
      /\ typed' = [typed EXCEPT ![e] = {}]
      /\ UNCHANGED <<versions, room, events, previews, save, erased>>
  BY <1>0 DEF Editing!Load, Editing!Open, Editing!Newest, Editing!TypeOK, Last
<1>2. Grown
  BY <1>0, <1>1, StillGrown
<1>3. Last \in SUBSET Texts /\ [content |-> Last, base |-> Len(versions)] \in Editing!Draft
  BY <1>0 DEF Editing!TypeOK, Editing!Draft, Editing!Content, Editing!Newest, Last
<1>4. [content |-> Last, base |-> Len(versions)] # None /\ Len(versions) \in 1..Len(versions)
  BY <1>0, <1>3, EditShapes
<1>5. /\ editor'[e] = [content |-> Last, base |-> Len(versions)] /\ typed'[e] = {}
      /\ \A f \in Editors \ {e} : editor'[f] = editor[f] /\ typed'[f] = typed[f]
  BY <1>0, <1>1 DEF Editing!TypeOK
<1>6. Waits(e)' = {}
  BY <1>1 DEF Waits
<1>7. Editing!TypeOK'
  <2>1. editor' \in [Editors -> Editing!Draft \cup {None}] /\ typed' \in [Editors -> Editing!Content]
    BY <1>0, <1>1, <1>3 DEF Editing!TypeOK, Editing!Content
  <2>2. room' \subseteq {f \in Editors : editor'[f] # None} /\ \A f \in Editors : previews'[f] # <<>> => editor'[f] # None
    BY <1>0, <1>1, <1>4, <1>5 DEF Editing!TypeOK, Editing!Open
  <2> QED
    BY <1>0, <1>1, <2>1, <2>2 DEF Editing!TypeOK, Editing!Open, Editing!Newest
<1>8. EditSound(e)'
  BY <1>1, <1>4, <1>5, <1>6 DEF EditSound, Stands, Last
<1> QED
  BY <1>1, <1>2, <1>5, <1>6, <1>7, <1>8 DEF OnlyBy, TurnSound, Keeps

(* Only the room and the events on their way change.                           *)
LEMMA EditHears ==
  ASSUME EditInv, NEW e \in Editors, UNCHANGED <<versions, editor, previews, save, typed, erased>>,
         room' \subseteq {f \in Editors : editor[f] # None}, events' \in [Editors -> Nat]
  PROVE  /\ Editing!TypeOK' /\ Grown /\ OnlyBy(e) /\ EditSound(e)'
         /\ TurnSound(e) => TurnSound(e)' /\ Keeps(e)
<1>1. Grown /\ Waits(e)' = Waits(e)
  BY StillGrown DEF EditInv, Waits
<1>2. EditSound(e)' /\ (TurnSound(e) => TurnSound(e)')
  BY <1>1, EditUnmoved, TurnUnmoved
<1>3. Editing!TypeOK'
  BY DEF EditInv, Editing!TypeOK, Editing!Open, Editing!Newest
<1> QED
  BY <1>1, <1>2, <1>3 DEF OnlyBy, Keeps

LEMMA EditCancel ==
  ASSUME EditInv, NEW e \in Editors, Editing!Cancel(e)
  PROVE  /\ Editing!TypeOK' /\ Grown /\ OnlyBy(e) /\ EditSound(e)'
         /\ TurnSound(e)' /\ Keeps(e)
<1>0. EditInv /\ Editing!TypeOK
  BY DEF EditInv
<1>1. /\ editor' = [editor EXCEPT ![e] = None] /\ room' = room \ {e} /\ events' = [events EXCEPT ![e] = 0]
      /\ previews' = [previews EXCEPT ![e] = <<>>] /\ typed' = [typed EXCEPT ![e] = {}]
      /\ UNCHANGED <<versions, save, erased>>
  BY DEF Editing!Cancel, Editing!Unmount
<1>2. Grown
  BY <1>0, <1>1, StillGrown
<1>3. /\ editor'[e] = None /\ typed'[e] = {} /\ previews'[e] = <<>>
      /\ \A f \in Editors \ {e} : editor'[f] = editor[f] /\ typed'[f] = typed[f] /\ previews'[f] = previews[f]
  BY <1>0, <1>1 DEF Editing!TypeOK
<1>4. Waits(e)' \subseteq Waits(e)
  BY <1>1, <1>3 DEF Waits
<1>5. EditSound(e)'
  BY <1>0, <1>1, <1>2, <1>3, <1>4, EditUnmoved
<1>6. Editing!TypeOK'
  <2>1. /\ editor' \in [Editors -> Editing!Draft \cup {None}] /\ typed' \in [Editors -> Editing!Content]
        /\ previews' \in [Editors -> Seq(Editing!Preview)] /\ events' \in [Editors -> Nat]
    BY <1>0, <1>1 DEF Editing!TypeOK, Editing!Content
  <2>2. room' \subseteq {f \in Editors : editor'[f] # None} /\ \A f \in Editors : previews'[f] # <<>> => editor'[f] # None
    BY <1>0, <1>1, <1>3 DEF Editing!TypeOK, Editing!Open
  <2> QED
    BY <1>0, <1>1, <2>1, <2>2 DEF Editing!TypeOK, Editing!Open, Editing!Newest
<1> QED
  BY <1>1, <1>2, <1>3, <1>5, <1>6 DEF OnlyBy, TurnSound, Keeps

(* Typing and erasing: the text of one editor.                                 *)
LEMMA EditWrite ==
  ASSUME EditInv, NEW e \in Editors, Editing!Write(e)
  PROVE  /\ Editing!TypeOK' /\ Grown /\ OnlyBy(e) /\ EditSound(e)'
         /\ (TurnSound(e) /\ Waits(e) = {}) => TurnSound(e)' /\ Keeps(e)
<1>0. EditInv /\ Editing!TypeOK /\ EditSound(e) /\ editor[e] # None
  BY DEF EditInv, Editing!Write, Editing!Type, Editing!Erase, Editing!Open
<1>1. PICK c \in SUBSET Texts :
        /\ editor' = [editor EXCEPT ![e].content = c] /\ editor[e].content \ erased' \subseteq c
        /\ typed' \in [Editors -> SUBSET Texts] /\ typed'[e] \ erased' \subseteq c \cup (typed[e] \ editor[e].content)
        /\ \A f \in Editors \ {e} : typed'[f] = typed[f]
        /\ erased \subseteq erased' /\ erased' \subseteq Texts
        /\ UNCHANGED <<versions, room, events, previews, save>>
  <2>1. CASE Editing!Type(e)
    <3>1. PICK x \in Texts : /\ editor' = [editor EXCEPT ![e].content = @ \cup {x}]
                             /\ typed' = [typed EXCEPT ![e] = @ \cup {x}]
      BY <2>1 DEF Editing!Type
    <3>2. UNCHANGED <<versions, room, events, previews, save, erased>>
      BY <2>1 DEF Editing!Type
    <3>3. editor[e].content \in SUBSET Texts /\ typed \in [Editors -> SUBSET Texts] /\ erased \subseteq Texts
      BY <1>0 DEF Editing!TypeOK, Editing!Draft, Editing!Content
    <3> DEFINE c == editor[e].content \cup {x}
    <3>4. c \in SUBSET Texts /\ editor' = [editor EXCEPT ![e].content = c]
      BY <3>1, <3>3
    <3>5. typed' \in [Editors -> SUBSET Texts] /\ typed'[e] = typed[e] \cup {x}
          /\ \A f \in Editors \ {e} : typed'[f] = typed[f]
      BY <3>1, <3>3
    <3>6. typed'[e] \ erased' \subseteq c \cup (typed[e] \ editor[e].content) /\ editor[e].content \ erased' \subseteq c
      BY <3>5
    <3> HIDE DEF c
    <3> QED
      BY <3>2, <3>3, <3>4, <3>5, <3>6
  <2>2. CASE Editing!Erase(e)
    <3>1. PICK x \in editor[e].content : /\ editor' = [editor EXCEPT ![e].content = @ \ {x}]
                                         /\ erased' = erased \cup {x}
      BY <2>2 DEF Editing!Erase
    <3>2. UNCHANGED <<versions, room, events, previews, save, typed>>
      BY <2>2 DEF Editing!Erase
    <3>3. editor[e].content \in SUBSET Texts /\ typed \in [Editors -> SUBSET Texts] /\ erased \subseteq Texts
      BY <1>0 DEF Editing!TypeOK, Editing!Draft, Editing!Content
    <3> DEFINE c == editor[e].content \ {x}
    <3>4. c \in SUBSET Texts /\ editor' = [editor EXCEPT ![e].content = c]
      BY <3>1, <3>3
    <3>5. erased \subseteq erased' /\ erased' \subseteq Texts
      BY <3>1, <3>3
    <3>6. typed'[e] \ erased' \subseteq c \cup (typed[e] \ editor[e].content) /\ editor[e].content \ erased' \subseteq c
      BY <3>1, <3>2
    <3> HIDE DEF c
    <3> QED
      BY <3>2, <3>3, <3>4, <3>5, <3>6
  <2> QED
    BY <2>1, <2>2 DEF Editing!Write
<1>2. Grown
  BY <1>0, <1>1, StillGrown
<1>3. editor[e] \in Editing!Draft
  BY <1>0 DEF Editing!TypeOK
<1>4. /\ editor'[e] \in Editing!Draft /\ editor'[e].content = c /\ editor'[e].base = editor[e].base
      /\ \A f \in Editors \ {e} : editor'[f] = editor[f]
      /\ editor' \in [Editors -> Editing!Draft \cup {None}]
  BY <1>0, <1>1, <1>3 DEF Editing!TypeOK, Editing!Draft, Editing!Content
<1>5. editor'[e] # None
  BY <1>0, <1>4, EditShapes
<1>6. Waits(e)' = Waits(e)
  BY <1>1 DEF Waits
<1>7. Editing!TypeOK'
  <2>1. room' \subseteq {f \in Editors : editor'[f] # None} /\ \A f \in Editors : previews'[f] # <<>> => editor'[f] # None
    BY <1>0, <1>1, <1>4, <1>5 DEF Editing!TypeOK, Editing!Open
  <2> QED
    BY <1>0, <1>1, <1>4, <2>1 DEF Editing!TypeOK, Editing!Open, Editing!Newest, Editing!Content
<1>8. EditSound(e)'
  <2>1. Stands(editor[e].content, editor[e].base)
    BY <1>0 DEF EditSound
  <2>2. Stands(editor[e].content, editor[e].base)'
    BY <1>1, <1>4, <2>1 DEF Stands
  <2>3. ASSUME NEW r \in Waits(e)
        PROVE  /\ Stands(r.content, r.base)'
               /\ r.result # None => Stands(r.result.content, r.result.base)'
    BY <1>0, <1>2, StandsOn DEF EditSound
  <2>4. UNCHANGED <<save, Last>>
    BY <1>1 DEF Last
  <2> QED
    BY <1>0, <1>1, <1>6, <2>2, <2>3, <2>4 DEF EditSound
<1> QED
  BY <1>0, <1>1, <1>2, <1>4, <1>5, <1>6, <1>7, <1>8 DEF OnlyBy, TurnSound, Keeps


(* A new request of e, with its text as it is.                                 *)
LEMMA EditAsks ==
  ASSUME EditInv, NEW e \in Editors, NEW r, editor[e] # None,
         r = [content |-> editor[e].content, base |-> editor[e].base, result |-> None],
         \/ /\ previews' = [previews EXCEPT ![e] = Append(@, r)] /\ save' = save
         \/ /\ save[e] = None /\ save' = [save EXCEPT ![e] = r] /\ previews' = previews,
         UNCHANGED <<versions, editor, room, typed, erased>>, events' \in [Editors -> Nat]
  PROVE  /\ Editing!TypeOK' /\ Grown /\ OnlyBy(e) /\ EditSound(e)'
         /\ TurnSound(e) => TurnSound(e)' /\ Keeps(e)
<1>0. Editing!TypeOK /\ EditSound(e)
  BY DEF EditInv
<1>1. Grown
  BY <1>0, StillGrown
<1>2. editor[e] \in Editing!Draft
  BY <1>0 DEF Editing!TypeOK
<1>3. r \in Editing!Save /\ r \in Editing!Preview /\ r # None
  <2>1. r \in Editing!Save /\ r \in Editing!Preview
    BY <1>2 DEF Editing!Save, Editing!Preview, Editing!Draft
  <2> QED
    BY <1>0, <2>1, EditShapes
<1>4. /\ previews' \in [Editors -> Seq(Editing!Preview)] /\ save' \in [Editors -> Editing!Save \cup {None}]
      /\ \A f \in Editors \ {e} : previews'[f] = previews[f] /\ save'[f] = save[f]
      /\ Waits(e)' \subseteq Waits(e) \cup {r}
      /\ save'[e] \in {save[e], r}
  <2>1. CASE previews' = [previews EXCEPT ![e] = Append(@, r)] /\ save' = save
    <3>1. previews[e] \in Seq(Editing!Preview) /\ Len(previews[e]) \in Nat
      BY <1>0, EditShapes
    <3>2. previews'[e] = Append(previews[e], r) /\ \A f \in Editors \ {e} : previews'[f] = previews[f]
      BY <1>0, <2>1 DEF Editing!TypeOK
    <3>3. previews'[e] \in Seq(Editing!Preview) /\ Len(previews'[e]) = Len(previews[e]) + 1
          /\ \A i \in 1..Len(previews'[e]) : previews'[e][i] = IF i <= Len(previews[e]) THEN previews[e][i] ELSE r
      BY <1>3, <3>1, <3>2
    <3>4. \A i \in 1..Len(previews'[e]) : previews'[e][i] = r \/ \E j \in 1..Len(previews[e]) : previews'[e][i] = previews[e][j]
      BY <3>1, <3>3
    <3> QED
      BY <1>0, <2>1, <3>2, <3>3, <3>4 DEF Waits, Editing!TypeOK
  <2>2. CASE save[e] = None /\ save' = [save EXCEPT ![e] = r] /\ previews' = previews
    BY <1>0, <1>3, <2>2 DEF Waits, Editing!TypeOK
  <2> QED
    BY <2>1, <2>2
<1>5. Editing!TypeOK'
  <2>1. \A f \in Editors : previews'[f] # <<>> => editor'[f] # None
    BY <1>0, <1>4 DEF Editing!TypeOK, Editing!Open
  <2> QED
    BY <1>0, <1>4, <2>1 DEF Editing!TypeOK, Editing!Open, Editing!Newest
<1>6. r.content = editor[e].content /\ r.base = editor[e].base /\ r.result = None
  OBVIOUS
<1>7. EditSound(e)'
  <2>1. ASSUME NEW q \in Waits(e)'
        PROVE  Stands(q.content, q.base) /\ (q.result # None => Stands(q.result.content, q.result.base))
    BY <1>0, <1>4, <1>6 DEF EditSound
  <2>2. \A c, b : Stands(c, b) => Stands(c, b)'
    BY DEF Stands
  <2>3. (save[e] # None /\ save[e].result # None /\ ~save[e].result.conflict =>
           save[e].result.content \ erased \subseteq Last)'
    BY <1>0, <1>4, <1>6 DEF EditSound, Last
  <2> QED
    BY <1>0, <2>1, <2>2, <2>3 DEF EditSound
<1>8. TurnSound(e) => TurnSound(e)'
  BY <1>4, <1>6 DEF TurnSound, Last
<1> QED
  BY <1>1, <1>4, <1>5, <1>7, <1>8 DEF OnlyBy, Keeps

(* What e waits for becomes less.                                             *)
LEMMA EditLoses ==
  ASSUME EditInv, NEW e \in Editors,
         previews' \in [Editors -> Seq(Editing!Preview)], save' \in [Editors -> Editing!Save \cup {None}],
         \A f \in Editors \ {e} : previews'[f] = previews[f] /\ save'[f] = save[f],
         previews'[e] # <<>> => previews[e] # <<>>,
         Waits(e)' \subseteq Waits(e), save'[e] = save[e] \/ save'[e] = None,
         UNCHANGED <<versions, editor, room, events, typed, erased>>
  PROVE  /\ Editing!TypeOK' /\ Grown /\ OnlyBy(e) /\ EditSound(e)'
         /\ TurnSound(e) => TurnSound(e)' /\ Keeps(e)
<1>1. Grown
  BY StillGrown DEF EditInv
<1>2. EditSound(e)' /\ (TurnSound(e) => TurnSound(e)')
  BY <1>1, EditUnmoved, TurnUnmoved
<1>3. Editing!TypeOK'
  BY DEF EditInv, Editing!TypeOK, Editing!Open, Editing!Newest
<1> QED
  BY <1>1, <1>2, <1>3 DEF OnlyBy, Keeps

(* What is left of a sequence was in it.                                      *)
LEMMA LeftOver ==
  ASSUME NEW S, NEW s \in Seq(S), NEW i \in 1..Len(s)
  PROVE  LET t == SubSeq(s, 1, i - 1) \o SubSeq(s, i + 1, Len(s))
         IN t \in Seq(S) /\ \A k \in 1..Len(t) : \E j \in 1..Len(s) : t[k] = s[j]
<1> DEFINE a == SubSeq(s, 1, i - 1)
           b == SubSeq(s, i + 1, Len(s))
           t == a \o b
<1>1. /\ a \in Seq(S) /\ Len(a) = i - 1 /\ \A k \in 1..(i - 1) : a[k] = s[k]
      /\ b \in Seq(S) /\ Len(b) = Len(s) - i /\ \A k \in 1..(Len(s) - i) : b[k] = s[i + k]
  BY SubSeqProperties
<1> HIDE DEF a, b
<1>2. t \in Seq(S) /\ Len(t) = Len(s) - 1 /\ \A k \in 1..(Len(s) - 1) : t[k] = IF k < i THEN a[k] ELSE b[k - (i - 1)]
  BY <1>1
<1> HIDE DEF t
<1>3. ASSUME NEW k \in 1..(Len(s) - 1) PROVE \E j \in 1..Len(s) : t[k] = s[j]
  <2>1. CASE k < i
    BY <1>1, <1>2, <2>1
  <2>2. CASE ~(k < i)
    <3>1. k - (i - 1) \in 1..(Len(s) - i) /\ i + (k - (i - 1)) = k + 1 /\ k + 1 \in 1..Len(s)
      BY <2>2
    <3> QED
      BY <1>1, <1>2, <2>2, <3>1
  <2> QED
    BY <2>1, <2>2
<1> QED
  BY <1>2, <1>3 DEF a, b, t

(* A preview out of those e waits for.                                         *)
LEMMA PreviewGone ==
  ASSUME Editing!TypeOK, NEW e \in Editors, NEW i \in DOMAIN previews[e],
         previews' = [previews EXCEPT ![e] = Editing!RemoveAt(@, i)], save' = save
  PROVE  /\ previews' \in [Editors -> Seq(Editing!Preview)]
         /\ \A f \in Editors \ {e} : previews'[f] = previews[f]
         /\ previews[e] # <<>> /\ Waits(e)' \subseteq Waits(e)
<1> DEFINE s == previews[e]
           t == SubSeq(s, 1, i - 1) \o SubSeq(s, i + 1, Len(s))
<1>1. s \in Seq(Editing!Preview) /\ Len(s) \in Nat /\ i \in 1..Len(s)
  BY EditShapes
<1>3. t \in Seq(Editing!Preview) /\ \A k \in 1..Len(t) : \E j \in 1..Len(s) : t[k] = s[j]
  BY <1>1, LeftOver
<1>4. previews'[e] = t /\ \A f \in Editors \ {e} : previews'[f] = previews[f]
  BY DEF Editing!TypeOK, Editing!RemoveAt
<1>5. s # <<>>
  BY <1>1
<1> HIDE DEF t
<1>6. previews' \in [Editors -> Seq(Editing!Preview)]
  BY <1>3, <1>4 DEF Editing!TypeOK
<1> QED
  BY <1>3, <1>4, <1>5, <1>6 DEF Waits

(* One of the requests of e, r, is answered x.                                 *)
LEMMA AnswerSound ==
  ASSUME EditInv, Grown, NEW e \in Editors, NEW r \in Waits(e), r.result = None,
         NEW q, NEW x, q.content = r.content, q.base = r.base, q.result = x, x # None,
         Stands(x.content, x.base)', r.content \ erased \subseteq x.content, Last \ erased \subseteq x.content,
         x.content \subseteq r.content \cup Last',
         Waits(e)' \subseteq Waits(e) \cup {q},
         \/ save'[e] = save[e]
         \/ save'[e] = q /\ (~x.conflict => x.content \subseteq Last'),
         editor'[e] = editor[e], typed'[e] = typed[e], erased' = erased
  PROVE  /\ EditSound(e)'
         /\ (TurnSound(e) /\ \A w \in Waits(e) : w.result = None) => TurnSound(e)'
<1>0. EditSound(e)
  BY DEF EditInv
<1>1. EditSound(e)'
  <2>1. (editor[e] # None => Stands(editor[e].content, editor[e].base))'
    BY <1>0, StandsOn DEF EditSound
  <2>2. ASSUME NEW w \in Waits(e)'
        PROVE  Stands(w.content, w.base)' /\ (w.result # None => Stands(w.result.content, w.result.base)')
    <3>1. CASE w \in Waits(e)
      BY <1>0, <3>1, StandsOn DEF EditSound
    <3>2. CASE w = q
      <4>1. Stands(r.content, r.base)
        BY <1>0 DEF EditSound
      <4> QED
        BY <3>2, <4>1, StandsOn
    <3> QED
      BY <3>1, <3>2
  <2>3. (save[e] # None /\ save[e].result # None /\ ~save[e].result.conflict => save[e].result.content \ erased \subseteq Last)'
    <3>1. CASE save'[e] = save[e]
      BY <1>0, <3>1 DEF EditSound, Grown
    <3>2. CASE save'[e] = q /\ (~x.conflict => x.content \subseteq Last')
      BY <3>2
    <3> QED
      BY <3>1, <3>2
  <2> QED
    BY <2>1, <2>2, <2>3 DEF EditSound
<1>2. ASSUME TurnSound(e), \A w \in Waits(e) : w.result = None PROVE TurnSound(e)'
  <2>1. SUFFICES ASSUME editor[e] # None PROVE TurnSound(e)'
    BY DEF TurnSound
  <2>2. /\ typed[e] \ erased \subseteq editor[e].content
        /\ \A w \in Waits(e) : w.content \ erased \subseteq editor[e].content /\ editor[e].content \ erased \subseteq w.content \cup Last
    BY <1>2, <2>1 DEF TurnSound
  <2>3. Last \ erased \subseteq Last'
    BY DEF Grown
  <2>4. ASSUME NEW w \in Waits(e)'
        PROVE  /\ w.content \ erased \subseteq editor[e].content
               /\ w.result = None => editor[e].content \ erased \subseteq w.content \cup Last'
               /\ w.result # None => /\ w = q /\ editor[e].content \ erased \subseteq w.result.content
                                     /\ w.result.content \ erased \subseteq w.content \cup Last'
    <3>1. CASE w \in Waits(e)
      BY <1>2, <2>2, <2>3, <3>1
    <3>2. CASE w = q
      BY <2>2, <2>3, <3>2
    <3> QED
      BY <3>1, <3>2
  <2> QED
    BY <2>2, <2>4 DEF TurnSound
<1> QED
  BY <1>1, <1>2

LEMMA EditPreview ==
  ASSUME EditInv, NEW e \in Editors, NEW i, Editing!AnswerPreview(e, i)
  PROVE  /\ Editing!TypeOK' /\ Grown /\ OnlyBy(e) /\ EditSound(e)' /\ Keeps(e)
         /\ (TurnSound(e) /\ \A w \in Waits(e) : w.result = None) => TurnSound(e)'
<1>0. EditInv /\ Editing!TypeOK /\ EditSound(e)
  BY DEF EditInv
<1>1. /\ previews[e] \in Seq(Editing!Preview) /\ Len(previews[e]) \in Nat /\ i \in 1..Len(previews[e])
      /\ previews[e][i] \in Waits(e) /\ previews[e][i].result = None
      /\ UNCHANGED <<versions, editor, room, events, save, typed, erased>>
  BY <1>0, EditShapes DEF Editing!AnswerPreview
<1> DEFINE r == previews[e][i]
<1>2. Stands(r.content, r.base) /\ r \in Editing!Preview /\ r.content \in SUBSET Texts
  <2>1. Stands(r.content, r.base)
    BY <1>0, <1>1 DEF EditSound
  <2>2. r \in Editing!Preview
    BY <1>1
  <2> HIDE DEF r
  <2> QED
    BY <2>1, <2>2 DEF Editing!Preview, Editing!Content
<1>3. PICK x \in Editing!Answers(r.content, r.base) : previews' = [previews EXCEPT ![e][i].result = x]
  BY DEF Editing!AnswerPreview
<1>4. /\ x \in Editing!Result /\ x # None /\ x.base = Len(versions)
      /\ Last \ erased \subseteq x.content /\ r.content \ erased \subseteq x.content /\ x.content \subseteq r.content \cup Last
  <2> HIDE DEF r
  <2> QED
    BY <1>2, <1>3, EditAnswers
<1> DEFINE q == [r EXCEPT !.result = x]
<1>5. q \in Editing!Preview /\ q.content = r.content /\ q.base = r.base /\ q.result = x
  BY <1>2, <1>4 DEF Editing!Preview
<1>6. /\ previews'[e] = [previews[e] EXCEPT ![i] = q]
      /\ \A f \in Editors \ {e} : previews'[f] = previews[f]
  BY <1>0, <1>3 DEF Editing!TypeOK
<1>7. /\ previews'[e] \in Seq(Editing!Preview) /\ Len(previews'[e]) = Len(previews[e])
      /\ \A j \in 1..Len(previews[e]) : previews'[e][j] = IF j = i THEN q ELSE previews[e][j]
  <2> HIDE DEF q
  <2> QED
    BY <1>1, <1>5, <1>6
<1>8. previews' \in [Editors -> Seq(Editing!Preview)] /\ Waits(e)' \subseteq Waits(e) \cup {q}
  <2> HIDE DEF q
  <2>1. previews' \in [Editors -> Seq(Editing!Preview)]
    BY <1>0, <1>3, <1>6, <1>7 DEF Editing!TypeOK
  <2> QED
    BY <1>1, <1>7, <2>1 DEF Waits
<1>9. Editing!TypeOK'
  BY <1>0, <1>1, <1>6, <1>7, <1>8 DEF Editing!TypeOK, Editing!Open, Editing!Newest
<1>10. Grown /\ UNCHANGED Last
  BY <1>0, <1>1, StillGrown DEF Last
<1>11. Stands(x.content, x.base)'
  BY <1>0, <1>1, <1>4, EditShapes DEF Stands, Last
<1> HIDE DEF q, r
<1>12. /\ EditSound(e)'
       /\ (TurnSound(e) /\ \A w \in Waits(e) : w.result = None) => TurnSound(e)'
  BY <1>0, <1>1, <1>4, <1>5, <1>8, <1>10, <1>11, AnswerSound DEF r
<1> QED
  BY <1>1, <1>6, <1>9, <1>10, <1>12 DEF OnlyBy, Keeps

LEMMA EditCommit ==
  ASSUME EditInv, NEW e \in Editors, Editing!Commit(e)
  PROVE  /\ Editing!TypeOK' /\ Grown /\ OnlyBy(e) /\ EditSound(e)' /\ Keeps(e)
         /\ (TurnSound(e) /\ \A w \in Waits(e) : w.result = None) => TurnSound(e)'
<1>0. EditInv /\ Editing!TypeOK /\ EditSound(e)
  BY DEF EditInv
<1> DEFINE r == save[e]
<1>1. /\ r # None /\ r.result = None /\ UNCHANGED <<editor, room, previews, typed, erased>>
      /\ r \in Waits(e) /\ r \in Editing!Save
  BY <1>0, EditShapes DEF Editing!Commit
<1>2. Stands(r.content, r.base) /\ r.content \in SUBSET Texts
  <2>1. Stands(r.content, r.base)
    BY <1>0, <1>1 DEF EditSound
  <2> HIDE DEF r
  <2> QED
    BY <1>1, <2>1 DEF Editing!Save, Editing!Content
<1>3. PICK a \in Editing!Answers(r.content, r.base) :
        \/ /\ a.conflict /\ save' = [save EXCEPT ![e].result = a] /\ UNCHANGED <<versions, events>>
        \/ /\ ~a.conflict /\ Len(versions) < MaxVersions /\ versions' = Append(versions, a.content)
           /\ save' = [save EXCEPT ![e].result = [a EXCEPT !.base = Len(versions) + 1]]
           /\ events' = [f \in Editors |-> IF f \in room THEN events[f] + 1 ELSE events[f]]
  BY DEF Editing!Commit, Editing!Saved, Editing!Newest
<1>4. /\ a \in Editing!Result /\ a # None /\ a.base = Len(versions)
      /\ Last \ erased \subseteq a.content /\ r.content \ erased \subseteq a.content /\ a.content \subseteq r.content \cup Last
  <2> HIDE DEF r
  <2> QED
    BY <1>0, <1>2, <1>3, EditAnswers
<1>5. versions \in Seq(SUBSET Texts) /\ Len(versions) \in Nat \ {0} /\ MaxVersions \in Nat
      /\ a.content \in SUBSET Texts
  BY <1>0, <1>4, ScreensAssumption DEF Editing!TypeOK, Editing!Newest, Editing!Content, Editing!EditorAssumption, Editing!Result
(* The answer as the save keeps it.                                          *)
<1>6. \E x :
        /\ x \in Editing!Result /\ x.content = a.content /\ save' = [save EXCEPT ![e].result = x]
        /\ Grown /\ Stands(x.content, x.base)' /\ x.content \subseteq r.content \cup Last'
        /\ ~x.conflict => x.content \subseteq Last'
        /\ versions' \in Seq(SUBSET Texts) /\ Len(versions') \in 1..MaxVersions
        /\ events' \in [Editors -> Nat]
  <2>1. CASE a.conflict /\ save' = [save EXCEPT ![e].result = a] /\ UNCHANGED <<versions, events>>
    <3>1. Grown /\ Last' = Last
      BY <1>0, <1>1, <2>1, StillGrown DEF Last
    <3>2. Stands(a.content, a.base)'
      BY <1>1, <1>4, <1>5, <2>1 DEF Stands, Last
    <3> HIDE DEF r
    <3> QED
      BY <1>0, <1>4, <1>5, <2>1, <3>1, <3>2 DEF Editing!TypeOK, Editing!Newest, Editing!Content
  <2>2. CASE /\ ~a.conflict /\ Len(versions) < MaxVersions /\ versions' = Append(versions, a.content)
             /\ save' = [save EXCEPT ![e].result = [a EXCEPT !.base = Len(versions) + 1]]
             /\ events' = [f \in Editors |-> IF f \in room THEN events[f] + 1 ELSE events[f]]
    <3>0. PICK x : x = [a EXCEPT !.base = Len(versions) + 1]
      OBVIOUS
    <3>1. x \in Editing!Result /\ x.content = a.content /\ x.base = Len(versions) + 1
      BY <1>4, <1>5, <2>2, <3>0 DEF Editing!Result
    <3>2. /\ versions' \in Seq(SUBSET Texts) /\ Len(versions') = Len(versions) + 1 /\ Last' = a.content
          /\ \A v \in 1..Len(versions) : versions'[v] = versions[v]
      BY <1>5, <2>2 DEF Last
    <3>3. Grown
      BY <1>1, <1>4, <1>5, <3>2 DEF Grown
    <3>4. Stands(x.content, x.base)'
      <4>1. Len(versions') \in 1..Len(versions')
        BY <1>5, <3>2
      <4> QED
        BY <1>5, <3>1, <3>2, <4>1 DEF Stands, Last
    <3>5. events' \in [Editors -> Nat] /\ Len(versions') \in 1..MaxVersions
      BY <1>0, <1>5, <2>2, <3>2 DEF Editing!TypeOK
    <3>6. save' = [save EXCEPT ![e].result = x]
      BY <2>2, <3>0
    <3> HIDE DEF r
    <3> QED
      BY <1>4, <3>1, <3>2, <3>3, <3>4, <3>5, <3>6
  <2> QED
    BY <1>3, <2>1, <2>2
<1>7. PICK x :
        /\ x \in Editing!Result /\ x.content = a.content /\ save' = [save EXCEPT ![e].result = x]
        /\ Grown /\ Stands(x.content, x.base)' /\ x.content \subseteq r.content \cup Last'
        /\ ~x.conflict => x.content \subseteq Last'
        /\ versions' \in Seq(SUBSET Texts) /\ Len(versions') \in 1..MaxVersions
        /\ events' \in [Editors -> Nat]
  BY <1>6
<1> DEFINE q == [r EXCEPT !.result = x]
<1>8. q \in Editing!Save /\ q.content = r.content /\ q.base = r.base /\ q.result = x
  <2> HIDE DEF r
  <2> QED
    BY <1>1, <1>7 DEF Editing!Save
<1>9. x # None
  BY <1>0, <1>7, EditShapes
<1>10. save'[e] = q /\ \A f \in Editors \ {e} : save'[f] = save[f]
  BY <1>0, <1>7 DEF Editing!TypeOK
<1>11. Waits(e)' \subseteq Waits(e) \cup {q}
  <2> HIDE DEF q, r
  <2> QED
    BY <1>1, <1>10 DEF Waits
<1>12. Editing!TypeOK'
  <2>1. save' \in [Editors -> Editing!Save \cup {None}]
    <3> HIDE DEF q
    <3> QED
      BY <1>0, <1>7, <1>8, <1>10 DEF Editing!TypeOK
  <2> QED
    BY <1>0, <1>1, <1>7, <2>1 DEF Editing!TypeOK, Editing!Open, Editing!Newest, Editing!Content
<1> HIDE DEF q, r
<1>13. /\ EditSound(e)'
       /\ (TurnSound(e) /\ \A w \in Waits(e) : w.result = None) => TurnSound(e)'
  BY <1>0, <1>1, <1>4, <1>7, <1>8, <1>9, <1>10, <1>11, AnswerSound
<1> QED
  BY <1>1, <1>7, <1>10, <1>12, <1>13 DEF OnlyBy, Keeps

(* An answer comes to stand in the editor.                                     *)
LEMMA EditTakes ==
  ASSUME EditInv, NEW e \in Editors, editor[e] # None, NEW r \in Waits(e), r.result # None,
         editor' = [editor EXCEPT ![e] = Editing!Rebased(@, r.result)],
         previews' \in [Editors -> Seq(Editing!Preview)], save' \in [Editors -> Editing!Save \cup {None}],
         \A f \in Editors \ {e} : previews'[f] = previews[f] /\ save'[f] = save[f],
         Waits(e)' \subseteq Waits(e), save'[e] = save[e] \/ save'[e] = None,
         UNCHANGED <<versions, room, events, typed, erased>>
  PROVE  /\ Editing!TypeOK' /\ Grown /\ OnlyBy(e) /\ EditSound(e)'
         /\ TurnSound(e) => TurnSound(e)' /\ Keeps(e)
<1>0. EditInv /\ Editing!TypeOK /\ EditSound(e)
  BY DEF EditInv
<1>1. Grown /\ UNCHANGED Last
  BY <1>0, StillGrown DEF Last
<1>2. r \in Editing!Save /\ r.result \in Editing!Result /\ editor[e] \in Editing!Draft
  <2>1. r \in Editing!Save
    BY <1>0, EditShapes
  <2> QED
    BY <1>0, <2>1 DEF Editing!Save, Editing!TypeOK
<1>3. /\ Editing!Rebased(editor[e], r.result) \in Editing!Draft
      /\ Editing!Rebased(editor[e], r.result).content = r.result.content
      /\ Editing!Rebased(editor[e], r.result).base = r.result.base
  BY <1>2 DEF Editing!Rebased, Editing!Draft, Editing!Result
<1>4. /\ editor'[e] = Editing!Rebased(editor[e], r.result)
      /\ \A f \in Editors \ {e} : editor'[f] = editor[f]
      /\ editor' \in [Editors -> Editing!Draft \cup {None}]
  BY <1>0, <1>3 DEF Editing!TypeOK
<1>5. editor'[e] # None
  BY <1>0, <1>3, <1>4, EditShapes
<1>6. Editing!TypeOK'
  BY <1>0, <1>4, <1>5 DEF Editing!TypeOK, Editing!Open, Editing!Newest
<1>7. EditSound(e)'
  <2>1. \A c, b : Stands(c, b) => Stands(c, b)'
    BY DEF Stands
  <2>2. \A w \in Waits(e) : Stands(w.content, w.base) /\ (w.result # None => Stands(w.result.content, w.result.base))
    BY <1>0 DEF EditSound
  <2>3. (editor[e] # None => Stands(editor[e].content, editor[e].base))'
    BY <1>3, <1>4, <2>1, <2>2
  <2>4. (\A w \in Waits(e) : Stands(w.content, w.base) /\ (w.result # None => Stands(w.result.content, w.result.base)))'
    BY <2>1, <2>2
  <2>5. (save[e] # None /\ save[e].result # None /\ ~save[e].result.conflict => save[e].result.content \ erased \subseteq Last)'
    BY <1>0, <1>1 DEF EditSound
  <2> QED
    BY <2>3, <2>4, <2>5 DEF EditSound
<1>8. ASSUME TurnSound(e) PROVE TurnSound(e)' /\ editor[e].content \ erased \subseteq editor'[e].content
  <2>1. /\ typed[e] \ erased \subseteq editor[e].content
        /\ editor[e].content \ erased \subseteq r.result.content
        /\ r.result.content \ erased \subseteq r.content \cup Last
        /\ r.content \ erased \subseteq editor[e].content
    BY <1>8 DEF TurnSound
  <2>2. ASSUME NEW w \in Waits(e)
        PROVE  /\ w.content \ erased \subseteq editor'[e].content
               /\ w.result = None => editor'[e].content \ erased \subseteq w.content \cup Last
               /\ w.result # None => /\ editor'[e].content \ erased \subseteq w.result.content
                                     /\ w.result.content \ erased \subseteq w.content \cup Last
    <3>1. /\ w.content \ erased \subseteq editor[e].content
          /\ w.result = None => editor[e].content \ erased \subseteq w.content \cup Last
          /\ w.result # None => w = r
      BY <1>8 DEF TurnSound
    <3> QED
      BY <1>3, <1>4, <2>1, <3>1
  <2>3. \A w, v \in Waits(e) : w.result # None /\ v.result # None => w = v
    BY <1>8 DEF TurnSound
  <2> QED
    BY <1>1, <1>3, <1>4, <2>1, <2>2, <2>3 DEF TurnSound
<1> QED
  BY <1>1, <1>4, <1>5, <1>6, <1>7, <1>8 DEF OnlyBy, Keeps

LEMMA EditSettle ==
  ASSUME EditInv, NEW e \in Editors, Editing!Settle(e)
  PROVE  /\ Editing!TypeOK' /\ Grown /\ OnlyBy(e) /\ EditSound(e)'
         /\ TurnSound(e) => TurnSound(e)' /\ Keeps(e)
<1>0. EditInv /\ Editing!TypeOK /\ EditSound(e)
  BY DEF EditInv
<1>1. /\ save[e] # None /\ save[e].result # None /\ save' = [save EXCEPT ![e] = None]
      /\ UNCHANGED <<versions, typed, erased>> /\ save[e] \in Waits(e)
  BY <1>0, EditShapes DEF Editing!Settle
<1>2. /\ save' \in [Editors -> Editing!Save \cup {None}] /\ save'[e] = None
      /\ \A f \in Editors \ {e} : save'[f] = save[f]
  BY <1>0, <1>1 DEF Editing!TypeOK
<1>3. CASE editor[e] # None /\ save[e].result.conflict
  <2>1. editor' = [editor EXCEPT ![e] = Editing!Rebased(@, save[e].result)] /\ UNCHANGED <<room, events, previews>>
    BY <1>3 DEF Editing!Settle, Editing!Open
  <2>2. Waits(e)' \subseteq Waits(e) /\ previews' \in [Editors -> Seq(Editing!Preview)]
    BY <1>0, <1>2, <2>1 DEF Waits, Editing!TypeOK
  <2> QED
    BY <1>1, <1>2, <1>3, <2>1, <2>2, EditTakes
<1>4. CASE editor[e] # None /\ ~save[e].result.conflict
  <2>1. /\ editor' = [editor EXCEPT ![e] = None] /\ room' = room \ {e} /\ events' = [events EXCEPT ![e] = 0]
        /\ previews' = [previews EXCEPT ![e] = <<>>]
    BY <1>4 DEF Editing!Settle, Editing!Open, Editing!Unmount
  <2>2. /\ editor'[e] = None /\ previews'[e] = <<>>
        /\ \A f \in Editors \ {e} : editor'[f] = editor[f] /\ previews'[f] = previews[f]
    BY <1>0, <2>1 DEF Editing!TypeOK
  <2>3. Grown /\ Waits(e)' \subseteq Waits(e)
    BY <1>0, <1>1, <1>2, <2>2, StillGrown DEF Waits
  <2>4. EditSound(e)'
    BY <1>0, <1>2, <2>2, <2>3, EditUnmoved
  <2>5. Editing!TypeOK'
    <3>1. /\ editor' \in [Editors -> Editing!Draft \cup {None}] /\ events' \in [Editors -> Nat]
          /\ previews' \in [Editors -> Seq(Editing!Preview)]
      BY <1>0, <2>1 DEF Editing!TypeOK
    <3>2. room' \subseteq {f \in Editors : editor'[f] # None} /\ \A f \in Editors : previews'[f] # <<>> => editor'[f] # None
      BY <1>0, <2>1, <2>2 DEF Editing!TypeOK, Editing!Open
    <3> QED
      BY <1>0, <1>1, <1>2, <3>1, <3>2 DEF Editing!TypeOK, Editing!Open, Editing!Newest
  <2>6. TurnSound(e) => Keeps(e)
    <3>1. save[e].result.content \ erased \subseteq Last
      BY <1>0, <1>1, <1>4 DEF EditSound
    <3> QED
      BY <1>1, <1>4, <2>2, <3>1 DEF TurnSound, Keeps
  <2> QED
    BY <1>1, <1>2, <2>2, <2>3, <2>4, <2>5, <2>6 DEF OnlyBy, TurnSound
<1>5. CASE editor[e] = None
  <2>1. UNCHANGED <<editor, room, events, previews>>
    BY <1>5 DEF Editing!Settle, Editing!Open
  <2>2. Waits(e)' \subseteq Waits(e) /\ previews' \in [Editors -> Seq(Editing!Preview)]
    BY <1>0, <1>2, <2>1 DEF Waits, Editing!TypeOK
  <2> QED
    BY <1>0, <1>1, <1>2, <2>1, <2>2, EditLoses
<1> QED
  BY <1>3, <1>4, <1>5

LEMMA EditTakesPreview ==
  ASSUME EditInv, NEW e \in Editors, NEW i, Editing!ApplyPreview(e, i)
  PROVE  /\ Editing!TypeOK' /\ Grown /\ OnlyBy(e) /\ EditSound(e)'
         /\ TurnSound(e) => TurnSound(e)' /\ Keeps(e)
<1>0. EditInv /\ Editing!TypeOK
  BY DEF EditInv
<1>1. /\ i \in DOMAIN previews[e] /\ previews[e][i].result # None
      /\ editor' = [editor EXCEPT ![e] = Editing!Rebased(@, previews[e][i].result)]
      /\ previews' = [previews EXCEPT ![e] = Editing!RemoveAt(@, i)]
      /\ UNCHANGED <<versions, room, events, save, typed, erased>>
  BY DEF Editing!ApplyPreview
<1>2. previews[e][i] \in Waits(e)
  BY <1>0, <1>1, EditShapes
<1>3. /\ previews' \in [Editors -> Seq(Editing!Preview)]
      /\ \A f \in Editors \ {e} : previews'[f] = previews[f]
      /\ previews[e] # <<>> /\ Waits(e)' \subseteq Waits(e)
  BY <1>0, <1>1, PreviewGone
<1>4. editor[e] # None /\ save' \in [Editors -> Editing!Save \cup {None}]
  BY <1>0, <1>1, <1>3 DEF Editing!TypeOK, Editing!Open
<1> QED
  BY <1>1, <1>2, <1>3, <1>4, EditTakes

LEMMA EditLose ==
  ASSUME EditInv, NEW e \in Editors, Editing!Lose(e)
  PROVE  /\ Editing!TypeOK' /\ Grown /\ OnlyBy(e) /\ EditSound(e)'
         /\ TurnSound(e) => TurnSound(e)' /\ Keeps(e)
<1>0. EditInv /\ Editing!TypeOK
  BY DEF EditInv
<1>1. CASE Editing!Reconnect(e)
  <2>1. /\ room' = room \ {e} /\ events' = [events EXCEPT ![e] = 0]
        /\ UNCHANGED <<versions, editor, previews, save, typed, erased>>
    BY <1>1 DEF Editing!Reconnect
  <2>2. room' \subseteq {f \in Editors : editor[f] # None} /\ events' \in [Editors -> Nat]
    BY <1>0, <2>1 DEF Editing!TypeOK, Editing!Open
  <2> QED
    BY <1>0, <2>1, <2>2, EditHears
<1>2. CASE Editing!LoseSave(e)
  <2>1. /\ save' = [save EXCEPT ![e] = None]
        /\ UNCHANGED <<versions, editor, room, events, previews, typed, erased>>
    BY <1>2 DEF Editing!LoseSave
  <2>2. /\ save' \in [Editors -> Editing!Save \cup {None}] /\ save'[e] = None
        /\ \A f \in Editors \ {e} : save'[f] = save[f]
        /\ previews' \in [Editors -> Seq(Editing!Preview)]
    BY <1>0, <2>1 DEF Editing!TypeOK
  <2>3. Waits(e)' \subseteq Waits(e)
    BY <2>1, <2>2 DEF Waits
  <2> QED
    BY <1>0, <2>1, <2>2, <2>3, EditLoses
<1>3. CASE \E i \in 1..MaxAsked : Editing!LosePreview(e, i)
  <2>1. PICK i : Editing!LosePreview(e, i)
    BY <1>3
  <2>2. /\ i \in DOMAIN previews[e] /\ previews' = [previews EXCEPT ![e] = Editing!RemoveAt(@, i)]
        /\ UNCHANGED <<versions, editor, room, events, save, typed, erased>>
    BY <2>1 DEF Editing!LosePreview
  <2>3. /\ previews' \in [Editors -> Seq(Editing!Preview)]
        /\ \A f \in Editors \ {e} : previews'[f] = previews[f]
        /\ previews[e] # <<>> /\ Waits(e)' \subseteq Waits(e)
    BY <1>0, <2>2, PreviewGone
  <2>4. save' \in [Editors -> Editing!Save \cup {None}]
    BY <1>0, <2>2 DEF Editing!TypeOK
  <2> QED
    BY <1>0, <2>2, <2>3, <2>4, EditLoses
<1> QED
  BY <1>1, <1>2, <1>3 DEF Editing!Lose

LEMMA EditSends ==
  ASSUME EditInv, NEW e \in Editors, Editing!Receive(e) \/ Editing!Submit(e)
  PROVE  /\ Editing!TypeOK' /\ Grown /\ OnlyBy(e) /\ EditSound(e)'
         /\ TurnSound(e) => TurnSound(e)' /\ Keeps(e)
<1>0. EditInv /\ Editing!TypeOK
  BY DEF EditInv
<1>1. PICK r : r = [content |-> editor[e].content, base |-> editor[e].base, result |-> None]
  OBVIOUS
<1>2. /\ editor[e] # None /\ UNCHANGED <<versions, editor, room, typed, erased>>
      /\ \/ /\ previews' = [previews EXCEPT ![e] = Append(@, r)] /\ save' = save
            /\ events' = [events EXCEPT ![e] = @ - 1] /\ events[e] > 0
         \/ /\ save[e] = None /\ save' = [save EXCEPT ![e] = r] /\ previews' = previews /\ events' = events
  BY <1>1 DEF Editing!Receive, Editing!Submit, Editing!Open
<1>3. events' \in [Editors -> Nat]
  <2>1. events \in [Editors -> Nat]
    BY <1>0 DEF Editing!TypeOK
  <2>2. CASE events' = [events EXCEPT ![e] = @ - 1] /\ events[e] > 0
    BY <2>1, <2>2
  <2>3. CASE events' = events
    BY <2>1, <2>3
  <2> QED
    BY <1>2, <2>2, <2>3
<1> QED
  BY <1>0, <1>1, <1>2, <1>3, EditAsks

LEMMA EditArrives ==
  ASSUME EditInv, NEW e \in Editors, Editing!Go(e) \/ Editing!Arrive(e)
  PROVE  /\ Editing!TypeOK' /\ Grown /\ OnlyBy(e) /\ EditSound(e)'
         /\ TurnSound(e) => TurnSound(e)' /\ Keeps(e)
<1>1. CASE Editing!Load(e) \/ Editing!Cancel(e)
  BY <1>1, EditLoad, EditCancel
<1>2. CASE Editing!Submit(e) \/ Editing!Receive(e)
  BY <1>2, EditSends
<1>3. CASE Editing!Join(e)
  <2>1. /\ room' = room \cup {e} /\ editor[e] # None
        /\ UNCHANGED <<versions, editor, events, previews, save, typed, erased>>
    BY <1>3 DEF Editing!Join, Editing!Open
  <2>2. room' \subseteq {f \in Editors : editor[f] # None} /\ events' \in [Editors -> Nat]
    BY <2>1 DEF EditInv, Editing!TypeOK, Editing!Open
  <2> QED
    BY <2>1, <2>2, EditHears
<1>4. CASE Editing!Settle(e)
  BY <1>4, EditSettle
<1>5. CASE \E i \in 1..MaxAsked : Editing!ApplyPreview(e, i)
  BY <1>5, EditTakesPreview
<1> QED
  BY <1>1, <1>2, <1>3, <1>4, <1>5 DEF Editing!Go, Editing!Arrive

LEMMA EditServes ==
  ASSUME EditInv, NEW e \in Editors, Editing!Serve(e)
  PROVE  /\ Editing!TypeOK' /\ Grown /\ OnlyBy(e) /\ EditSound(e)' /\ Keeps(e)
         /\ (TurnSound(e) /\ \A w \in Waits(e) : w.result = None) => TurnSound(e)'
BY EditCommit, EditPreview DEF Editing!Serve

LEMMA EditBegin ==
  ASSUME Editing!Init PROVE TurnInv
<1> USE DEF Editing!Init
<1>1. /\ versions \in Seq(SUBSET Texts) /\ Len(versions) = 1 /\ 1 \in 1..MaxVersions
  BY ScreensAssumption DEF Editing!EditorAssumption
<1>2. Editing!TypeOK
  BY <1>1 DEF Editing!TypeOK, Editing!Open, Editing!Newest, Editing!Content
<1>3. \A e \in Editors : editor[e] = None /\ save[e] = None /\ Waits(e) = {}
  BY DEF Waits
<1>4. EditInv
  BY <1>1, <1>2, <1>3 DEF EditInv, EditSound, Last
<1> QED
  BY <1>3, <1>4 DEF TurnInv, TurnSound

LEMMA EditStep ==
  ASSUME EditInv, Editing!Next
  PROVE  EditInv' /\ Editing!TypeOK' /\ Editing!OthersTextStays
<1>1. PICK e \in Editors : \/ Editing!Write(e) \/ Editing!Go(e) \/ Editing!Arrive(e)
                          \/ Editing!Serve(e) \/ Editing!Lose(e)
  BY DEF Editing!Next
<1>2. Editing!TypeOK' /\ Grown /\ OnlyBy(e) /\ EditSound(e)'
  BY <1>1, EditWrite, EditArrives, EditServes, EditLose
<1> QED
  BY <1>2, EditMove

LEMMA SteadyIsNext ==
  ASSUME Editing!SteadyNext PROVE Editing!Next
BY DEF Editing!SteadyNext, Editing!Next

LEMMA TurnStep ==
  ASSUME TurnInv, Editing!PromptNext
  PROVE  TurnInv' /\ Editing!TypeOK' /\ Editing!OthersTextStays /\ Editing!TextStays
<1>1. PICK e \in Editors : \/ Editing!Go(e) \/ Editing!Arrive(e) \/ (Editing!Write(e) /\ ~Editing!Waiting(e))
                          \/ Editing!Prompt(e) \/ Editing!Lose(e)
  BY DEF Editing!PromptNext, Editing!Careful
<1>2. EditInv /\ TurnSound(e)
  BY DEF TurnInv
<1>3. /\ Editing!TypeOK' /\ Grown /\ OnlyBy(e) /\ EditSound(e)' /\ TurnSound(e)' /\ Keeps(e)
  <2>1. CASE Editing!Go(e) \/ Editing!Arrive(e)
    BY <1>2, <2>1, EditArrives
  <2>2. CASE Editing!Write(e) /\ ~Editing!Waiting(e)
    <3>1. Waits(e) = {}
      BY <2>2 DEF Editing!Waiting, Waits
    <3> QED
      BY <1>2, <2>2, <3>1, EditWrite
  <2>3. CASE Editing!Prompt(e)
    <3>1. \A w \in Waits(e) : w.result = None
      BY <1>2, <2>3, EditShapes DEF Editing!Prompt, Editing!Answered, Waits, EditInv
    <3> QED
      BY <1>2, <2>3, <3>1, EditServes DEF Editing!Prompt
  <2>4. CASE Editing!Lose(e)
    BY <1>2, <2>4, EditLose
  <2> QED
    BY <1>1, <2>1, <2>2, <2>3, <2>4
<1>4. EditInv' /\ Editing!OthersTextStays
  BY <1>2, <1>3, EditMove
<1> QED
  BY <1>3, <1>4, TurnMove DEF Keeps

-----------------------------------------------------------------------------
(* A tab of which nothing is in use.                                          *)

LEMMA RoomsStand ==
  ASSUME RoomsInv, UNCHANGED vars PROVE RoomsInv'
BY DEF vars, client, socket, server, RoomsInv, RoomsTyped, RequestsInOrder, ReloadsInOrder, VersionKnown,
   CommentsKnown, Known, OnItsWay, VersionsTold, RoomReached, JoinComes, Stays

LEMMA EditsStand ==
  ASSUME EditInv, UNCHANGED editorVars
  PROVE  EditInv' /\ Editing!TypeOK' /\ (TurnInv => TurnInv')
<1> USE DEF editorVars
<1>1. Editing!TypeOK'
  BY DEF EditInv, Editing!TypeOK, Editing!Newest, Editing!Open
<1>2. EditInv'
  BY <1>1 DEF EditInv, EditSound, Stands, Waits, Last
<1>3. TurnInv => TurnInv'
  BY <1>2 DEF TurnInv, TurnSound, Waits, Last
<1> QED
  BY <1>1, <1>2, <1>3

LEMMA FormsStand ==
  ASSUME FormsInv, UNCHANGED formVars PROVE FormsInv'
<1>1. /\ UNCHANGED <<form, open, value, base, waiting, formCalls, formSent, stored, made, known, told, revealed,
                     unread, overlapped, lost>>
  BY DEF formVars
<1> QED
  BY <1>1, RequestsStand
  DEF FormsInv, FormsTyped, WaitsForOne, SecretsInTurn, RightsEntered, SentAsEntered

LEMMA ListsRemain ==
  ASSUME ListsInv, UNCHANGED listVars PROVE ListsInv'
<1>1. UNCHANGED <<screen, rows, filter, applied, listPage, status, items, total, ticked, of, timer, listCalls,
                  sent, crossed, disturbed>>
  BY DEF listVars
<1>2. ListsTyped'
  BY <1>1 DEF ListsInv, ListsTyped, Lists!FiltersOf, Lists!Kinds
<1>3. LoadsInOrder' /\ PagesInOrder' /\ EditsInOrder'
  BY <1>1 DEF ListsInv, LoadsInOrder, PagesInOrder, EditsInOrder, Lists!Loads, Lists!Edits
<1>4. KeepsItsList' /\ AsksForItsList' /\ GrowsItsList'
  BY <1>1, ListsStand
<1> QED
  BY <1>2, <1>3, <1>4 DEF ListsInv

=============================================================================
