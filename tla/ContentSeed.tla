------------------------------- MODULE ContentSeed -------------------------------
(***************************************************************************)
(* A backend container from its start to its end: the entry point seeds the   *)
(* documentation and the release notes before it starts the server, at every  *)
(* start, over whatever people have made of those pages meanwhile; it may be  *)
(* stopped between any two writes, and it is restarted whenever it ends.      *)
(* A text is the release's or people's own, a page's tags are one tag.       *)
(***************************************************************************)
EXTENDS Naturals, Sequences, FiniteSets, SequencesExt

CONSTANTS
  Pages,       \* uuids of pages, enough for all the rows that MaxTrouble changes lead to
  Seeds,       \* the part of the seeded tree that is looked at, in the order of its traversal
  MaxTrouble,  \* bound on crashes, upgrades, stops and changes by people
  Null

(* PAGE_TREE_SEED, in the order of its traversal.                           *)
SeedOrder ==
  << "documentation", "guide-demarrage", "installation", "configuration", "deploiement", "endpoints",
     "apercus-de-liens", "mcp", "gestion-utilisateurs-groupes-acces", "marquages-disponibles", "notes-de-version" >>

SeedParent ==
  [ s \in ToSet(SeedOrder) |->
      IF s = "documentation" THEN Null
      ELSE IF s \in {"installation", "configuration", "deploiement"} THEN "guide-demarrage" ELSE "documentation" ]

Seeded   == ToSet(Seeds)
Releases == {"old", "new"}
Texts    == Releases \cup {"none", "others"}
Row      == [slug : Seeded, parent : Pages \cup {Null}, text : Texts, comments : BOOLEAN, deleted : BOOLEAN]

(* A page of the tree comes after its parent.                               *)
SeedAssumption ==
  /\ Seeds \in Seq(ToSet(SeedOrder)) /\ Seeds # << >> /\ MaxTrouble \in Nat
  /\ \A i, j \in 1..Len(Seeds) : i < j =>
       \E m, n \in 1..Len(SeedOrder) : m < n /\ SeedOrder[m] = Seeds[i] /\ SeedOrder[n] = Seeds[j]
  /\ \A i \in 1..Len(Seeds) :
       SeedParent[Seeds[i]] = Null \/ \E j \in 1..i - 1 : Seeds[j] = SeedParent[Seeds[i]]
  /\ Null \notin Row /\ Null \notin Pages /\ Null \notin ToSet(SeedOrder)

VARIABLES
  rows,      \* the table of pages; a text is that of the current version
  versions,  \* how many versions each page has
  tag,       \* the tag exists
  tagged,    \* pages with the tag
  release,   \* what the image seeds
  process,   \* "down", "tags", "pages", "up"
  next,      \* the seed at hand
  step,      \* what seedPage does next
  ids,       \* the page of each seed visited
  trouble

db   == <<rows, versions, tag, tagged>>
vars == <<db, release, process, next, step, ids, trouble>>

Live(p)  == rows[p] # Null /\ ~rows[p].deleted
Seed     == Seeds[next]
Parent   == IF SeedParent[Seed] = Null THEN Null ELSE ids[SeedParent[Seed]]
Page     == ids[Seed]
NoIds    == [s \in Seeded |-> Null]

(* The uuid of the next row: any unused one, and all of them are alike.       *)
Fresh == CHOOSE p \in Pages : rows[p] = Null
Room  == \E p \in Pages : rows[p] = Null

(* The unique index of pages: soft-deleted rows count, roots do not.         *)
Taken(slug, parent) ==
  parent # Null /\ \E p \in Pages : rows[p] # Null /\ rows[p].slug = slug /\ rows[p].parent = parent

Init ==
  /\ rows = [p \in Pages |-> Null] /\ versions = [p \in Pages |-> 0]
  /\ tag = FALSE /\ tagged = {}
  /\ release = "old" /\ process = "down" /\ next = 1 /\ step = "find" /\ ids = NoIds /\ trouble = 0

-----------------------------------------------------------------------------
(* The entry point, past the migrations and the administrator; seedTags       *)
(* then finds or creates the tag.                                           *)
Start ==
  /\ process = "down"
  /\ process' = "tags" /\ next' = 1 /\ step' = "find" /\ ids' = NoIds
  /\ UNCHANGED <<db, release, trouble>>

SeedTags ==
  /\ process = "tags"
  /\ tag' = TRUE /\ process' = "pages"
  /\ UNCHANGED <<rows, versions, tagged, release, next, step, ids, trouble>>

(* Mutant: any page of that slug, as before CHANGELOG 248.                  *)
FoundAnywhere(slug, parent) == {p \in Pages : Live(p) /\ rows[p].slug = slug}

(* findOneBy passes over soft-deleted pages.                                *)
Found(slug, parent) == {p \in Pages : Live(p) /\ rows[p].slug = slug /\ rows[p].parent = parent}

(* Mutant: a page that people edited counts as up to date.                  *)
ChangedIfOlder(p) == rows[p].text \in Releases \ {release}

ContentChanged(p) == rows[p].text # release

Seeding(at) == process = "pages" /\ step = at

FindPage ==
  /\ Seeding("find")
  /\ \E p \in Found(Seed, Parent) :
       /\ ids' = [ids EXCEPT ![Seed] = p]
       /\ IF ContentChanged(p)
            THEN step' = "version" /\ UNCHANGED rows
            ELSE step' = "tag" /\ rows' = [rows EXCEPT ![p].comments = FALSE]
  /\ UNCHANGED <<versions, tag, tagged, release, process, next, trouble>>

CreatePage ==
  /\ Seeding("find") /\ Found(Seed, Parent) = {} /\ ~Taken(Seed, Parent) /\ Room
  /\ ids' = [ids EXCEPT ![Seed] = Fresh]
  /\ rows' = [rows EXCEPT ![Fresh] =
       [slug |-> Seed, parent |-> Parent, text |-> "none", comments |-> FALSE, deleted |-> FALSE]]
  /\ step' = "version"
  /\ UNCHANGED <<versions, tag, tagged, release, process, next, trouble>>

(* The insert is refused: the script ends with 1, and so does the container.  *)
CreateRefused ==
  /\ Seeding("find") /\ Found(Seed, Parent) = {} /\ Taken(Seed, Parent)
  /\ process' = "down"
  /\ UNCHANGED <<db, release, next, step, ids, trouble>>

InsertVersion ==
  /\ Seeding("version")
  /\ versions' = [versions EXCEPT ![Page] = @ + 1] /\ step' = "current"
  /\ UNCHANGED <<rows, tag, tagged, release, process, next, ids, trouble>>

SetCurrent ==
  /\ Seeding("current")
  /\ rows' = [rows EXCEPT ![Page].text = release, ![Page].comments = FALSE] /\ step' = "tag"
  /\ UNCHANGED <<versions, tag, tagged, release, process, next, ids, trouble>>

(* seedPageTags, and on to the next page of the tree, or to the server.       *)
TagPage ==
  /\ Seeding("tag")
  /\ tagged' = tagged \cup {Page}
  /\ step' = "find"
  /\ IF next < Len(Seeds) THEN next' = next + 1 /\ UNCHANGED process
                          ELSE process' = "up" /\ UNCHANGED next
  /\ UNCHANGED <<rows, versions, tag, release, ids, trouble>>

-----------------------------------------------------------------------------
Trouble == trouble < MaxTrouble /\ trouble' = trouble + 1

(* Stopped, killed, or its database gone; the rows stay.                    *)
Crash ==
  /\ process # "down" /\ Trouble /\ process' = "down"
  /\ UNCHANGED <<db, release, next, step, ids>>

Upgrade ==
  /\ process = "down" /\ release = "old" /\ Trouble /\ release' = "new"
  /\ UNCHANGED <<db, process, next, step, ids>>

People(change) == process = "up" /\ Trouble /\ change /\ UNCHANGED <<release, process, next, step, ids>>

Edit == \E p \in Pages : Live(p) /\ \E on \in BOOLEAN :
  /\ rows' = [rows EXCEPT ![p].text = "others", ![p].comments = on]
  /\ versions' = [versions EXCEPT ![p] = @ + 1]
  /\ UNCHANGED <<tag, tagged>>

Below(p) == {q \in Pages : Live(q) /\ (rows[q].parent = p \/ (rows[q].parent # Null /\ rows[rows[q].parent].parent = p))}

(* PagesService.movePage, createPage and deletePage (PageStore).             *)
Move == \E p \in Pages, to \in Pages \cup {Null} :
  /\ Live(p) /\ to # rows[p].parent /\ to \notin Below(p) \cup {p} /\ (to # Null => Live(to))
  /\ ~Taken(rows[p].slug, to) /\ (to = Null => Found(rows[p].slug, Null) = {})
  /\ rows' = [rows EXCEPT ![p].parent = to]
  /\ UNCHANGED <<versions, tag, tagged>>

Create == \E to \in Pages \cup {Null}, s \in Seeded :
  /\ Room /\ (to # Null => Live(to)) /\ ~Taken(s, to) /\ (to = Null => Found(s, Null) = {})
  /\ rows' = [rows EXCEPT ![Fresh] =
       [slug |-> s, parent |-> to, text |-> "others", comments |-> TRUE, deleted |-> FALSE]]
  /\ versions' = [versions EXCEPT ![Fresh] = 1]
  /\ UNCHANGED <<tag, tagged>>

Delete == \E p \in Pages :
  /\ Live(p)
  /\ rows' = [q \in Pages |-> IF q \in Below(p) \cup {p} THEN [rows[q] EXCEPT !.deleted = TRUE] ELSE rows[q]]
  /\ UNCHANGED <<versions, tag, tagged>>

(* Mutant: page_tags is not cleared with the tag.                           *)
DeleteTagOnly == tag /\ tag' = FALSE /\ UNCHANGED <<tagged, rows, versions>>

(* TagsService.deleteTag, with the cascade of page_tags.                    *)
DeleteTag == tag /\ tag' = FALSE /\ tagged' = {} /\ UNCHANGED <<rows, versions>>

Boot == Start \/ SeedTags \/ FindPage \/ CreatePage \/ CreateRefused \/ InsertVersion \/ SetCurrent \/ TagPage
Life == Crash \/ Upgrade \/ People(Edit \/ Move \/ Create \/ DeleteTag)

Next == Boot \/ Life \/ People(Delete)

(* Nobody deletes a page.                                                   *)
KeepingNext == Boot \/ Life

-----------------------------------------------------------------------------
(* Properties *)

TypeOK ==
  /\ rows \in [Pages -> Row \cup {Null}] /\ versions \in [Pages -> Nat]
  /\ \A p \in Pages : rows[p] # Null /\ rows[p].text # "none" => versions[p] > 0
  /\ tag \in BOOLEAN /\ tagged \subseteq Pages /\ (tagged # {} => tag)
  /\ release \in Releases /\ process \in {"down", "tags", "pages", "up"}
  /\ next \in 1..Len(Seeds) /\ step \in {"find", "version", "current", "tag"}
  /\ ids \in [Seeded -> Pages \cup {Null}] /\ trouble \in 0..MaxTrouble

(* CHANGELOG 552: whatever people changed, and wherever earlier starts were    *)
(* broken off, the server starts over the whole tree of its release: every    *)
(* page in its place, with the release's text, closed to comments, tagged.   *)
SeedShown ==
  (process = "pages" /\ process' = "up") =>
    \A s \in Seeded : LET p == ids[s] IN
      /\ Live(p) /\ rows[p].slug = s
      /\ rows[p].parent = IF SeedParent[s] = Null THEN Null ELSE ids[SeedParent[s]]
      /\ rows[p].text = release /\ ~rows[p].comments
      /\ p \in tagged'

(* The pages that stand where the seed has one.                             *)
Place[s \in Seeded] ==
  {p \in Pages : Live(p) /\ rows[p].slug = s /\
     IF SeedParent[s] = Null THEN rows[p].parent = Null ELSE rows[p].parent \in Place[SeedParent[s]]}

(* CHANGELOG 248: a start never writes to a page outside the places of the     *)
(* seed, whatever its slug, and gives no version to one whose text is the    *)
(* release's already.                                                       *)
OthersKept ==
  process = "pages" =>
    \A p \in Pages : rows[p] # Null =>
      /\ rows'[p] # rows[p] => \E s \in Seeded : p \in Place[s]
      /\ versions'[p] # versions[p] => rows[p].text # release

=============================================================================
