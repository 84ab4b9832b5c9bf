-------------------------------- MODULE PageTree --------------------------------
(***************************************************************************)
(* The tree of pages in the sidebar: GET /pages/tree served query by query,  *)
(* the provider that asks for it, the signal that it changed, and what the   *)
(* sidebar, the parent picker and the links read in it.  One browser; the    *)
(* handlers that change the tree are PageStore's, a step each here.         *)
(***************************************************************************)
EXTENDS Naturals, Sequences, FiniteSets

CONSTANTS
  Pages,
  Slug,        \* of each page: it never changes
  Older,       \* pages in the order of their creation, in which they are listed
  Roots, Private, \* pages that start as roots and as private ones
  MaxChanges,  \* bound on changes of the tree
  MaxAsked,    \* bound on requests for the tree
  MaxUntold,   \* bound on changes of rights and losses of the connection
  Titles,      \* titles a page may have
  Null, None   \* None: no page of that address

(* The member, and whoever is not signed in. *)
Who == {"member", "visitor"}

VARIABLES
  parent, live, public, title,
  granted,   \* private pages the member's access rules let them read
  session,   \* whom the browser's cookies say
  signedIn,  \* AuthProvider: whom the screen takes the user for; Null while it asks
  connected, \* the realtime socket is
  signals,   \* page-tree:changed on the way
  calls,     \* requests under way
  asked,     \* how many were sent
  due,       \* moves and creations of this browser whose answer is on the way
  tree,      \* the tree of PageTreeContext: each page's parent in it; Null before the first
  titles,    \* the titles in it
  from,      \* history: the request that tree answers
  changedAt, \* history: the requests sent when the tree, or who may read it, last changed
  untold,    \* history: something changed since the last request and nobody was told
  changes, troubles

server == <<parent, live, public, title, granted>>
shown  == <<tree, titles, from>>
vars   == <<server, session, signedIn, connected, signals, calls, asked, due, shown, changedAt, untold, changes, troubles>>

Range(f) == {f[x] : x \in DOMAIN f}

-----------------------------------------------------------------------------
(* The server *)

(* The pages from p up to its root, p first. *)
Up[p \in Pages] == IF parent[p] = Null THEN <<p>> ELSE <<p>> \o Up[parent[p]]
Below(p) == {q \in live : p \in Range(Up[q])}

ReadableBy(who) == live \cap (public \cup (IF who = "member" THEN granted ELSE {}))

(* PageTreeMapper.buildTree: a page whose parent is not among them is a root.  *)
BuildTree(pages, up) == [p \in pages |-> IF up[p] \in pages THEN up[p] ELSE Null]

TreeFor(who)   == BuildTree(ReadableBy(who), parent)
TitlesFor(who) == [p \in ReadableBy(who) |-> title[p]]

(* The page a list of slugs leads to, or Null: findChainByPath. *)
Named(slug, above) == {p \in live : Slug[p] = slug /\ parent[p] = above}
Resolve(path) ==
  LET At[i \in 0..Len(path)] ==
        IF i = 0 THEN {Null} ELSE UNION {Named(path[i], p) : p \in At[i - 1]}
  IN At[Len(path)]

-----------------------------------------------------------------------------
(* What the browser reads in a tree t *)

Children(t, above) == {p \in DOMAIN t : t[p] = above}

(* findPathToNode: the pages from a root of the tree to p.                  *)
PathIn(t, p) ==
  LET To[q \in DOMAIN t] == IF t[q] = Null THEN <<q>> ELSE Append(To[t[q]], q)
  IN To[p]

(* buildPagePath, and the links of the sidebar and the breadcrumb. *)
Link(t, p) == [i \in DOMAIN PathIn(t, p) |-> Slug[PathIn(t, p)[i]]]

FirstOf(S) == CHOOSE p \in S : \A q \in S : \E i, j \in DOMAIN Older : i <= j /\ Older[i] = p /\ Older[j] = q

(* A mutated form of ActiveNode: the last slug of the address is enough.     *)
ActiveBySlug(t, path) ==
  LET same == {p \in DOMAIN t : Slug[p] = path[Len(path)]}
  IN IF same = {} THEN Null ELSE FirstOf(same)

(* findNodeByPath: level by level, the first child with the slug.             *)
ActiveNode(t, path) ==
  LET At[i \in 0..Len(path)] ==
        IF i = 0 THEN Null
        ELSE LET here == {p \in Children(t, At[i - 1]) : Slug[p] = path[i]}
             IN IF At[i - 1] = None \/ here = {} THEN None ELSE FirstOf(here)
  IN IF At[Len(path)] = None THEN Null ELSE At[Len(path)]

(* A mutated form of Offered: the page itself is left out, its subtree is not. *)
OfferedBelow(t, p) == DOMAIN t \ {p}

(* PageMetadataForm: the pages its picker offers as a new parent of p are those *)
(* outside of collectSubtreeIds.                                            *)
Offered(t, p) == {q \in DOMAIN t : p \notin Range(PathIn(t, q))}

-----------------------------------------------------------------------------
Init ==
  /\ parent = [p \in Pages |-> IF p \in Roots THEN Null ELSE Older[1]]
  /\ live = Pages /\ public = Pages \ Private
  /\ \E t \in Titles : title = [p \in Pages |-> t]
  /\ granted = Private
  /\ session \in Who /\ signedIn = Null
  /\ connected = TRUE /\ signals = 0
  /\ calls = {} /\ asked = 0 /\ due = 0 /\ tree = Null /\ titles = Null /\ from = 0
  /\ changedAt = 0 /\ untold = FALSE /\ changes = 0 /\ troubles = 0

(* PageTreeProvider.refresh *)
Refresh ==
  /\ asked < MaxAsked
  /\ asked' = asked + 1 /\ untold' = FALSE
  /\ calls' = calls \cup {[n |-> asked + 1, as |-> session, at |-> "sent", tree |-> <<>>, titles |-> <<>>]}

(* The gateway tells every socket that is connected.                        *)
Broadcast ==
  /\ signals' = IF connected THEN signals + 1 ELSE signals
  /\ untold' = (untold \/ ~connected)

Changed ==
  /\ changes < MaxChanges /\ changes' = changes + 1
  /\ changedAt' = asked
  /\ UNCHANGED <<granted, session, signedIn, connected, calls, asked, shown, troubles>>

Change == Changed /\ UNCHANGED title

(* A handler that PageEditor or PageCreate of this browser waits for, or of     *)
(* another.                                                                 *)
Awaited == due' = due \/ (signedIn = "member" /\ due' = due + 1)

(* movePage: below no page of its own subtree, beside none of its name.       *)
Move(p, above) ==
  /\ p \in live /\ above \in (live \ Below(p)) \cup {Null}
  /\ Named(Slug[p], above) \subseteq {p}
  /\ parent' = [parent EXCEPT ![p] = above]
  /\ Broadcast /\ Change /\ Awaited /\ UNCHANGED <<live, public>>

(* A mutated form of Delete: nobody is told. *)
DeleteQuietly(p) ==
  /\ p \in live /\ live' = live \ Below(p)
  /\ Change /\ UNCHANGED <<parent, public, signals, untold, due>>

(* deletePage, with all that is below. *)
Delete(p) ==
  /\ p \in live /\ live' = live \ Below(p)
  /\ Broadcast /\ Change /\ UNCHANGED <<parent, public, due>>

(* setVisibility goes down to every page below.                             *)
SetVisibility(p, open) ==
  /\ p \in live
  /\ public' = IF open THEN public \cup Below(p) ELSE public \ Below(p)
  /\ Broadcast /\ Change /\ UNCHANGED <<parent, live, due>>

(* createPage: a page that was deleted stands for a new one.                 *)
Create(p, above) ==
  /\ p \notin live /\ above \in live \cup {Null} /\ Named(Slug[p], above) = {}
  /\ live' = live \cup {p} /\ public' = public \ {p}
  /\ parent' = [parent EXCEPT ![p] = above]
  /\ Broadcast /\ Change /\ Awaited

(* updatePage with another title.  The event that the tree has changed hangs on  *)
(* a title other than the page's, and updateWithNewVersion has merged the new   *)
(* title into that very page by then: nothing is emitted.                    *)
Rename(p) ==
  /\ p \in live /\ \E t \in Titles \ {title[p]} : title' = [title EXCEPT ![p] = t]
  /\ untold' = TRUE
  /\ Changed /\ UNCHANGED <<parent, live, public, signals, due>>

-----------------------------------------------------------------------------
(* getTree: the rows, then what may be read of them. *)
ListPages(c) ==
  /\ c.at = "sent"
  /\ calls' = (calls \ {c}) \cup {[c EXCEPT !.at = "listed",
                  !.tree = [p \in live |-> parent[p]], !.titles = [p \in live |-> title[p]]]}
  /\ UNCHANGED <<server, session, signedIn, connected, signals, asked, due, shown, changedAt, untold, changes, troubles>>

Filter(c) ==
  /\ c.at = "listed"
  /\ LET pages == DOMAIN c.tree \cap ReadableBy(c.as)
     IN calls' = (calls \ {c}) \cup {[c EXCEPT !.at = "served",
                  !.tree = BuildTree(pages, @), !.titles = [p \in pages |-> @[p]]]}
  /\ UNCHANGED <<server, session, signedIn, connected, signals, asked, due, shown, changedAt, untold, changes, troubles>>

(* Answers arrive in any order, and each is shown. *)
Answer(c) ==
  /\ c.at = "served"
  /\ calls' = calls \ {c}
  /\ tree' = c.tree /\ titles' = c.titles /\ from' = c.n
  /\ UNCHANGED <<server, session, signedIn, connected, signals, asked, due, changedAt, untold, changes, troubles>>

(* The request ends in an error, which is told: the tree stays as it was.      *)
Fail(c) ==
  /\ troubles < MaxUntold /\ troubles' = troubles + 1
  /\ calls' = calls \ {c}
  /\ UNCHANGED <<server, session, signedIn, connected, signals, asked, due, shown, changedAt, untold, changes>>

(* page-tree:changed *)
Signalled ==
  /\ signals > 0 /\ signals' = signals - 1
  /\ Refresh
  /\ UNCHANGED <<server, session, signedIn, connected, due, shown, changedAt, changes, troubles>>

(* PageEditor, once its move is answered, and PageCreate ask by themselves.      *)
OwnAnswered ==
  /\ due > 0 /\ due' = due - 1
  /\ Refresh
  /\ UNCHANGED <<server, session, signedIn, connected, signals, shown, changedAt, changes, troubles>>

(* AuthProvider learns, or is told, whom the cookies say: the start of the     *)
(* application, the end of a login.  The provider's effect asks for the tree. *)
Recognised ==
  /\ signedIn' = session /\ signedIn # session
  /\ Refresh
  /\ UNCHANGED <<server, session, connected, signals, due, shown, changedAt, changes, troubles>>

Trouble ==
  /\ troubles < MaxUntold /\ troubles' = troubles + 1
  /\ UNCHANGED <<parent, live, public, title, calls, asked, due, shown, changes>>

(* POST /auth/login sets the cookies, before AuthProvider knows.             *)
CookiesSet ==
  /\ signedIn = "visitor" /\ session = "visitor" /\ session' = "member"
  /\ untold' = TRUE /\ changedAt' = asked
  /\ Trouble /\ UNCHANGED <<granted, signedIn, connected, signals>>

(* An access rule changes: no event. *)
Regrant(p) ==
  /\ granted' = IF p \in granted THEN granted \ {p} ELSE granted \cup {p}
  /\ untold' = TRUE /\ changedAt' = asked
  /\ Trouble /\ UNCHANGED <<session, signedIn, connected, signals>>

(* A lost connection loses the signals; nothing asks for the tree when it is   *)
(* back.                                                                    *)
Disconnect ==
  /\ connected /\ connected' = FALSE
  /\ signals' = 0 /\ untold' = (untold \/ signals > 0)
  /\ Trouble /\ UNCHANGED <<granted, session, signedIn, changedAt>>

Reconnect ==
  /\ ~connected /\ connected' = TRUE
  /\ UNCHANGED <<server, session, signedIn, signals, calls, asked, due, shown, changedAt, untold, changes, troubles>>

Others ==
  \/ \E p \in Pages : Delete(p) \/ Rename(p) \/ \E above \in Pages \cup {Null} : Move(p, above) \/ Create(p, above)
  \/ \E p \in Pages, open \in BOOLEAN : SetVisibility(p, open)
  \/ \E p \in Private : Regrant(p)
Serve == \E c \in calls : ListPages(c) \/ Filter(c) \/ Answer(c) \/ Fail(c)
Browser == Signalled \/ OwnAnswered \/ Recognised \/ CookiesSet \/ Disconnect \/ Reconnect

Next == Others \/ Serve \/ Browser

-----------------------------------------------------------------------------
(* Properties *)

TypeOK ==
  /\ parent \in [Pages -> Pages \cup {Null}] /\ live \subseteq Pages /\ public \subseteq Pages
  /\ granted \subseteq Private /\ session \in Who /\ signedIn \in Who \cup {Null}
  /\ signals \in Nat /\ (~connected => signals = 0)
  /\ \A c \in calls : c.n \in 1..asked /\ c.at \in {"sent", "listed", "served"} /\ DOMAIN c.tree \subseteq Pages
  /\ tree = Null \/ (DOMAIN tree \subseteq Pages /\ Range(tree) \subseteq DOMAIN tree \cup {Null})
  /\ title \in [Pages -> Titles] /\ due \in 0..MaxChanges
  /\ tree # Null => titles \in [DOMAIN tree -> Titles]
  /\ from <= asked /\ changedAt <= asked

(* The request whose answer is shown was sent after the last change of the tree. *)
Current == tree # Null /\ from > changedAt

(* CHANGELOG 117, 261: the sidebar follows every creation, move, deletion and  *)
(* change of visibility, and every sign-in.  At every moment, whatever is under *)
(* way: a tree asked for since the last change is the one the signed-in user    *)
(* has on the server, titles included; and after every change that the          *)
(* application tells, with the connection up, a new tree was asked for.  That   *)
(* an older answer may arrive last, and be shown, is not excluded; nor are a     *)
(* rename and a change of rights, of which nobody is told.                   *)
TreeIsCurrent ==
  /\ Current => tree = TreeFor(session) /\ titles = TitlesFor(session)
  /\ signedIn # Null /\ signals = 0 /\ ~untold => asked > changedAt

(* Nothing is on its way, the last tree asked for is the one shown, no request  *)
(* failed, no connection was lost and nobody's rights changed.               *)
Settled == tree # Null /\ calls = {} /\ signals = 0 /\ due = 0 /\ from = asked /\ troubles = 0

(* CHANGELOG 261, 265: the sidebar follows a page's new title, too.  Of a       *)
(* rename no event is emitted, see Rename.                                   *)
FollowsRenames == Settled => titles = TitlesFor(session)

(* A tree in which some page is without its parent lists that page as a root.  *)
Whole(p) == Range(Up[p]) \subseteq DOMAIN tree
Namesake(p) ==
  \E q \in Children(tree, Null) : parent[q] # Null /\ Slug[q] = Link(tree, p)[1]

(* CHANGELOG 494, 844: of a page whose ancestors are all listed, the link leads *)
(* to it, its address marks it in the sidebar, and the parents offered for it    *)
(* are pages movePage accepts.                                              *)
LinksLead ==
  Current =>
    \A p \in DOMAIN tree : Whole(p) =>
      /\ Resolve(Link(tree, p)) = {p}
      /\ ~Namesake(p) => ActiveNode(tree, Link(tree, p)) = p
      /\ \A q \in Offered(tree, p) : Whole(q) => q \notin Below(p)

=============================================================================
