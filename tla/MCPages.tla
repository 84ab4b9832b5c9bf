------------------------------- MODULE MCPages -------------------------------
(***************************************************************************)
(* Small instances of PageStore: three pages in a tree, room for one more,  *)
(* and the calls worth racing on them.                                      *)
(***************************************************************************)
EXTENDS PageProperties, TLC

CONSTANTS p1, p2, p3, p4, p5, v1, v2, v3, v4, v5, r1, r2

MCPages    == {p1, p2, p3, p4, p5}
MCVersions == {v1, v2, v3, v4, v5}
MCRequests == {r1, r2}

First == (p1 :> v1) @@ (p2 :> v2) @@ (p3 :> v3)

(* A wiki of p1, p2 and p3 with these parents and slugs.                    *)
Tree(parent, slug, visibility) ==
  [ pages |-> [p \in MCPages |->
      IF p \notin DOMAIN First THEN Null
      ELSE [ slug |-> slug[p], title |-> "t", parentId |-> parent[p],
             currentVersionId |-> First[p], visibility |-> visibility,
             commentsEnabled |-> TRUE, deleted |-> FALSE ]],
    versions |-> [v \in MCVersions |->
      IF \E p \in DOMAIN First : First[p] = v
      THEN [ pageId |-> CHOOSE p \in DOMAIN First : First[p] = v,
             content |-> {"a"}, title |-> "t" ]
      ELSE Null] ]

Slugs3 == (p1 :> "x") @@ (p2 :> "y") @@ (p3 :> "stats")

Chain == Tree((p1 :> Null) @@ (p2 :> p1) @@ (p3 :> p2), Slugs3, "private")
Fork  == Tree((p1 :> Null) @@ (p2 :> p1) @@ (p3 :> p1),
              (p1 :> "x") @@ (p2 :> "y") @@ (p3 :> "z"), "public")
Roots == Tree((p1 :> Null) @@ (p2 :> Null) @@ (p3 :> p2),
              (p1 :> "x") @@ (p2 :> "y") @@ (p3 :> "x"), "public")

AllSeeds == {Chain, Fork, Roots}

Creates(parents, slugs) ==
  { [ op |-> "create", parent |-> p, slug |-> s, title |-> "t", content |-> {"a"},
      visibility |-> "private" ] : p \in parents, s \in slugs }
Updates(ps, titles, contents, bases) ==
  { [op |-> "update", page |-> p, title |-> t, content |-> c, base |-> b] :
      p \in ps, t \in titles, c \in contents, b \in bases }
Restores(ps, vs)    == { [op |-> "restore", page |-> p, version |-> v] : p \in ps, v \in vs }
Moves(ps, parents)  == { [op |-> "move", page |-> p, parent |-> q] : p \in ps, q \in parents }
Deletes(ps)         == { [op |-> "delete", page |-> p, cascade |-> c] : p \in ps, c \in BOOLEAN }
Visible(ps)         == { [op |-> "visibility", page |-> p, visibility |-> v] :
                           p \in ps, v \in Visibilities }
Comments(ps)        == { [op |-> "comments", page |-> p, commentsEnabled |-> FALSE] : p \in ps }

(* Every operation, on every page that matters to it.                       *)
SerialCalls ==
  Creates({Null, p1, p3}, {"x", "stats", "tree"})
    \cup Updates({p1}, {Null, "u"}, {Null, {"a", "b"}, {"c"}}, {Null, v1, v2})
    \cup Restores({p1, p4}, {v1, v2})
    \cup Moves({p1, p2, p3}, {Null, p1, p2, p3, p4})
    \cup Deletes({p1, p2, p4}) \cup Visible({p1, p2}) \cup Comments({p1, p4})

(* Handlers that race: every operation, fewer arguments.                    *)
RacingCalls ==
  Creates({p1, p2}, {"y", "z"}) \cup Creates({Null}, {"x", "z"})
    \cup Updates({p2}, {Null, "u"}, {{"a", "b"}, {"c"}}, {v1, v2})
    \cup Updates({p1}, {"u"}, {Null}, {Null})
    \cup Restores({p2}, {v2})
    \cup Moves({p2}, {Null, p3}) \cup Moves({p1, p3}, {Null, p2, p1})
    \cup Deletes({p1, p2}) \cup Visible({p1, p2}) \cup Comments({p1, p2})

(* Two people saving one page.                                              *)
EditingCalls == Updates({p1}, {Null}, {{"a", "b"}, {"a", "c"}}, {v1})

=============================================================================
