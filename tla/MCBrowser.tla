--------------------------------- MODULE MCBrowser ---------------------------------
(***************************************************************************)
(* What the browser shows of what others change meanwhile: the page that is  *)
(* viewed, the page that is edited, the tree of the sidebar, the lists, the   *)
(* tree of access rules; and its forms.  The components write no common       *)
(* state, so a behaviour is one of a single part; the variables of the others *)
(* stay.                                                                    *)
(***************************************************************************)
EXTENDS TabScreens, FiniteSets, TLC

CONSTANTS h1, h2, p1, p2, p3, x1, x2, Off

TwoKinds == <<"x", "y", "x">>

Symmetry == Permutations({h1, h2}) \cup Permutations({x1, x2})

VARIABLES
  part,
  rules, created, view, ready, loads, pending, ruleCalls, unseen, halved,
  parent, present, public, title, granted, session, signedIn, connected, signals, treeCalls,
  treesAsked, due, tree, titles, from, changedAt, untold, treeChanges, troubles

ruleVars   == <<rules, created, view, ready, loads, pending, ruleCalls, unseen, halved>>
treeVars   == <<parent, present, public, title, granted, session, signedIn, connected, signals, treeCalls,
                treesAsked, due, tree, titles, from, changedAt, untold, treeChanges, troubles>>

(* The same editors with less to type, save, ask for or erase.                *)
EditWithin(texts, ofVersions, ofAsked, ofErased) ==
  /\ \A e \in Editors : typed'[e] \subseteq texts /\ Len(previews'[e]) <= ofAsked
  /\ Len(versions') <= ofVersions /\ Cardinality(erased') <= ofErased

(* The rules of one subject: a click at a time over three pages in a row; two   *)
(* requests at once over two, in a tree opened again or beside a page's panel. *)
OneClick == INSTANCE AccessTree WITH
  stored <- rules, calls <- ruleCalls, Pages <- {p1, p2, p3}, Null <- None, Listed <- {p1, p2, p3},
  Parent <- (p1 :> None) @@ (p2 :> p1) @@ (p3 :> p2), Held <- {p1, p2, p3, None},
  Given <- {{}}, AtOnce <- 1, MaxRules <- 3, MaxLoads <- 0, MaxElsewhere <- 0
TwoClicks == INSTANCE AccessTree WITH
  stored <- rules, calls <- ruleCalls, Pages <- {p1, p2}, Listed <- {p1, p2}, Null <- None,
  Parent <- (p1 :> None) @@ (p2 :> p1), Held <- {p2},
  Given <- {{}}, AtOnce <- 2, MaxRules <- 2, MaxLoads <- 1, MaxElsewhere <- 0
BesidePanel == INSTANCE AccessTree WITH
  stored <- rules, calls <- ruleCalls, Pages <- {p1, p2}, Listed <- {p1, p2}, Null <- None,
  Parent <- (p1 :> None) @@ (p2 :> p1), Held <- {p2},
  Given <- {{}}, AtOnce <- 2, MaxRules <- 2, MaxLoads <- 0, MaxElsewhere <- 1
(* An administrator who may read the first and the last of three pages only,     *)
(* and a rule that somebody else made.                                      *)
Before ==
  UNION {{{[id |-> 1, pageId |-> p, appliesTo |-> "subtree", actions |-> {"page.read"}, excluded |-> E]} :
            E \in SUBSET ({p2, p3} \ {p})} : p \in {p1, p2, None}}
HiddenPage == INSTANCE AccessTree WITH
  stored <- rules, calls <- ruleCalls, Pages <- {p1, p2, p3}, Null <- None, Listed <- {p1, p3},
  Parent <- (p1 :> None) @@ (p2 :> p1) @@ (p3 :> p2), Held <- {p3, None},
  Given <- Before, AtOnce <- 1, MaxRules <- 3, MaxLoads <- 0, MaxElsewhere <- 0

(* Three pages, of which two have the same slug and one is below another.       *)
Sidebar == INSTANCE PageTree WITH
  live <- present, calls <- treeCalls, asked <- treesAsked, changes <- treeChanges, Null <- Off,
  Pages <- {p1, p2, p3}, Slug <- (p1 :> "y") @@ (p2 :> "x") @@ (p3 :> "x"), Older <- <<p1, p2, p3>>,
  Roots <- {p1, p3}, Private <- {p1}, Titles <- {x1, x2}, MaxChanges <- 2, MaxAsked <- 2, MaxUntold <- 1

ASSUME BrowserAssumption ==
  /\ OneClick!AccessTreeAssumption /\ TwoClicks!AccessTreeAssumption
  /\ BesidePanel!AccessTreeAssumption /\ HiddenPage!AccessTreeAssumption

RoomsOff ==
  /\ route = Off /\ last = Off /\ requests = Off /\ page = Off /\ banner = Off /\ reloads = Off
  /\ asked = Off /\ thread = Off /\ up = Off /\ out = Off /\ checks = Off /\ rooms = Off
  /\ inbox = Off /\ drops = Off /\ live = Off /\ saved = Off /\ changes = Off /\ unheard = Off
EditorOff ==
  /\ versions = Off /\ editor = Off /\ room = Off /\ events = Off
  /\ previews = Off /\ save = Off /\ typed = Off /\ erased = Off
RulesOff ==
  /\ rules = Off /\ created = Off /\ view = Off /\ ready = Off /\ loads = Off
  /\ pending = Off /\ ruleCalls = Off /\ unseen = Off /\ halved = Off
TreeOff ==
  /\ parent = Off /\ present = Off /\ public = Off /\ granted = Off /\ session = Off
  /\ signedIn = Off /\ connected = Off /\ signals = Off /\ treeCalls = Off /\ treesAsked = Off
  /\ title = Off /\ due = Off /\ tree = Off /\ titles = Off /\ from = Off /\ changedAt = Off
  /\ untold = Off /\ treeChanges = Off /\ troubles = Off
ListsOff ==
  /\ screen = Off /\ rows = Off /\ filter = Off /\ applied = Off /\ listPage = Off /\ status = Off
  /\ items = Off /\ total = Off /\ ticked = Off /\ of = Off /\ timer = Off /\ listCalls = Off
  /\ sent = Off /\ crossed = Off /\ disturbed = Off /\ listChanges = Off

FormsOff ==
  /\ form = Off /\ open = Off /\ value = Off /\ base = Off /\ waiting = Off /\ formCalls = Off
  /\ formSent = Off /\ stored = Off /\ made = Off /\ known = Off /\ told = Off /\ revealed = Off
  /\ unread = Off /\ overlapped = Off /\ lost = Off

Begins ==
  \/ part = "rooms" /\ Init /\ EditorOff /\ RulesOff /\ TreeOff /\ ListsOff /\ FormsOff
  \/ part \in {"editing", "typing", "inTurn", "erasing"} /\ Editing!Init /\ RoomsOff /\ RulesOff /\ TreeOff /\ ListsOff /\ FormsOff
  \/ part = "oneClick" /\ OneClick!Init /\ RoomsOff /\ EditorOff /\ TreeOff /\ ListsOff /\ FormsOff
  \/ part = "twoClicks" /\ TwoClicks!Init /\ RoomsOff /\ EditorOff /\ TreeOff /\ ListsOff /\ FormsOff
  \/ part = "besidePanel" /\ BesidePanel!Init /\ RoomsOff /\ EditorOff /\ TreeOff /\ ListsOff /\ FormsOff
  \/ part = "hiddenPage" /\ HiddenPage!Init /\ RoomsOff /\ EditorOff /\ TreeOff /\ ListsOff /\ FormsOff
  \/ part = "sidebar" /\ Sidebar!Init /\ RoomsOff /\ EditorOff /\ RulesOff /\ ListsOff /\ FormsOff
  \/ part = "lists" /\ Lists!Init /\ RoomsOff /\ EditorOff /\ RulesOff /\ TreeOff /\ FormsOff
  \/ part = "filling" /\ Filling!Init /\ RoomsOff /\ EditorOff /\ RulesOff /\ TreeOff /\ ListsOff

Goes ==
  /\ UNCHANGED part
  /\ \/ /\ part = "rooms" /\ Next
        /\ UNCHANGED <<editorVars, ruleVars, treeVars, listVars, formVars>>
     \/ /\ \/ part = "editing" /\ Editing!Next /\ EditWithin({First, x1}, 3, 1, 0)
           \/ part = "typing" /\ Editing!SteadyNext /\ EditWithin(Texts, 3, 1, 0)
           \/ part = "inTurn" /\ Editing!PromptNext /\ EditWithin({First, x1}, 3, 2, 0)
           \/ part = "erasing" /\ Editing!PromptNext /\ EditWithin({First, x1}, 2, 2, 1)
        /\ UNCHANGED <<vars, ruleVars, treeVars, listVars, formVars>>
     \/ /\ \/ part = "oneClick" /\ OneClick!Next
           \/ part = "twoClicks" /\ TwoClicks!Next
           \/ part = "besidePanel" /\ BesidePanel!Next
           \/ part = "hiddenPage" /\ HiddenPage!Next
        /\ UNCHANGED <<vars, editorVars, treeVars, listVars, formVars>>
     \/ /\ part = "sidebar" /\ Sidebar!Next
        /\ UNCHANGED <<vars, editorVars, ruleVars, listVars, formVars>>
     \/ /\ part = "lists" /\ Lists!Next
        /\ UNCHANGED <<vars, editorVars, ruleVars, treeVars, formVars>>
     \/ /\ part = "filling" /\ Filling!Next
        /\ UNCHANGED <<vars, editorVars, ruleVars, treeVars, listVars>>

all == <<part, vars, editorVars, ruleVars, treeVars, listVars, formVars>>

Behaviour == Begins /\ [][Goes]_all

-----------------------------------------------------------------------------
(* Properties *)

(* updatePage, mergePreview and the editor together: a version drops no text    *)
(* of the one before that nobody erased, whatever is late, lost or reordered;   *)
(* with answers in turn, and nobody typing meanwhile, none leaves an editor;   *)
(* and no answer takes from a form what it did not send.                      *)
TextKept ==
  [][ /\ part \in {"editing", "typing", "inTurn", "erasing"} =>
           Editing!TypeOK' /\ Editing!OthersTextStays
      /\ part \in {"inTurn", "erasing"} => Editing!TextStays
      /\ part = "filling" => Filling!EnteredStays ]_<<editorVars, formVars>>

(* PageAccessTreeSelector: a click touches nothing outside of the subtree of     *)
(* its box.                                                                 *)
ClicksStayBelow ==
  [][ /\ part = "oneClick" => OneClick!RestUntouched
      /\ part = "hiddenPage" => HiddenPage!RestUntouched ]_ruleVars

(* The two trees of pages.  The boxes, over the pages their administrator may   *)
(* read, tell what PermissionsService grants on the rules that are shown, and    *)
(* what is shown is stored, or about to be told.  The sidebar asks for the tree   *)
(* after every change it is told of, and a tree asked for since the last change   *)
(* is the server's, its links lead to their pages, whatever else is on the way. *)
TreesTell ==
  /\ part = "oneClick" =>
       /\ OneClick!TypeOK /\ OneClick!QuietViewIsStored /\ OneClick!ShownIsGranted
       /\ OneClick!BoxTellsAccess /\ OneClick!FullHasHandle
  /\ part = "twoClicks" => TwoClicks!TypeOK /\ TwoClicks!ShownIsStored
  /\ part = "besidePanel" => BesidePanel!ShownIsStored
  /\ part = "hiddenPage" =>
       /\ HiddenPage!TypeOK /\ HiddenPage!QuietViewIsStored /\ HiddenPage!ShownIsGranted
       /\ HiddenPage!BoxTellsAccess /\ HiddenPage!FullHasHandle
  /\ part = "sidebar" => Sidebar!TypeOK /\ Sidebar!TreeIsCurrent /\ Sidebar!LinksLead

(* CHANGELOG 261: the sidebar follows a page that is renamed.                  *)
SidebarFollowsRenames == part = "sidebar" => Sidebar!FollowsRenames

(* The lists: whatever is asked, answered and changed on the way, at rest they    *)
(* show what was asked for and what the server has; and the forms and switches   *)
(* show what was stored, send one request at a time, and lose no secret.      *)
ScreensTell ==
  /\ part = "lists" => Lists!ListsTell
  /\ part = "filling" => Filling!FormsTell

(* usePageRoom, PageView and useComments beside pages.gateway: a tab ends in the *)
(* room of the page it shows, and shows its last version and comments, or that  *)
(* there are others.                                                        *)
PageIsTold == part = "rooms" => ViewersAreTold

=============================================================================
