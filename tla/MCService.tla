--------------------------------- MODULE MCService ---------------------------------
(***************************************************************************)
(* What brings the service up and lets a request in: the migrations, the      *)
(* content seed, the guards and the audit of the API, the refresh of a       *)
(* session in the browser, the look for a newer release; and, for what they   *)
(* have in common, that an answer comes, the editors of one page.  They write  *)
(* no common state, so a behaviour is one of a single part; the variables of  *)
(* the others stay as they are.                                             *)
(***************************************************************************)
EXTENDS VersionCheck, ApiRoutes, FiniteSets

CONSTANTS
  q1, k1, o1, u1, u2, x0, x1, Off,
  SeedPages, SeedPart, MaxUpheavals,                     \* of the content seed
  CalmRequests, TabRequests, MaxExpiries, MaxMishaps,    \* of the tab
  Accounts, Keys, OAuthTokens, McpSessions, Entrants, OpenRoutes, OpenTools,
  Grants, ScopeSets, InitAccounts, InitKeys, MaxChanges, MaxFaults  \* of the gate

ThreeSeeds == <<"documentation", "guide-demarrage", "installation">>

Releases == {<<1, 9, 5>>, <<1, 10, 0>>, <<2, 0, 0>>}
Running  == <<1, 10, 0>>

VARIABLES
  part,
  rows, versions, seedTag, seedTagged, release, process, next, step, ids, trouble,
  db, migration, at, saved, old, crashes,
  account, shown, cookie, cred, session, req, changes, faults,
  cookies, alive, requests, refresh, logouts, signedIn, socket, expiries, mishaps,
  contents, editor, room, events, previews, save, typed, erased

seedVars   == <<rows, versions, seedTag, seedTagged, release, process, next, step, ids, trouble>>
schemaVars == <<db, migration, at, saved, old, crashes>>
gateVars   == <<account, shown, cookie, cred, session, req, changes, faults>>
tabVars    == <<cookies, alive, requests, refresh, logouts, signedIn, socket, expiries, mishaps>>
editorVars == <<contents, editor, room, events, previews, save, typed, erased>>

(* Three pages one below the other, over three upheavals; or two, in place.    *)
Seed == INSTANCE ContentSeed WITH
  tag <- seedTag, tagged <- seedTagged, Pages <- SeedPages, Seeds <- SeedPart, MaxTrouble <- MaxUpheavals, Null <- None
SmallSeed == INSTANCE ContentSeed WITH
  tag <- seedTag, tagged <- seedTagged, Pages <- 1..8, Seeds <- <<"documentation", "endpoints">>,
  MaxTrouble <- 3, Null <- None

(* Two users and a page in the database of every release, with a crash; one     *)
(* user and a page, without.                                                *)
Schema == INSTANCE SchemaHistory WITH
  process <- migration, Users <- {u1, u2}, Pages <- {k1}, Editors <- "editors", MaxCrash <- 1, Null <- None
SchemaUncrashed == INSTANCE SchemaHistory WITH
  process <- migration, Users <- {u1}, Pages <- {k1}, Editors <- "editors", MaxCrash <- 0, Null <- None

Gate == INSTANCE ApiGate WITH
  user <- account, Users <- Accounts, NoUser <- None, Creds <- Keys, OAuthCreds <- OAuthTokens,
  Sessions <- McpSessions, Requests <- Entrants, Open <- OpenRoutes, InitUsers <- InitAccounts, InitCreds <- InitKeys

(* Accounts of one right less than all, or none; of both roles, active or not.  *)
Account(role, rights) == [role |-> role, active |-> TRUE, rights |-> rights]
TagRights     == {"page.read", "page.manage_tags"}
AllButOne     == {Rights \ {r} : r \in Rights \ {"page.read"}} \cup {Rights \ PageActions, {}}
SomeGrants    == {{}, TagRights}
SomeScopes    == {{"tags:read"}}
Administrator == [role : {"admin"}, active : BOOLEAN, rights : SomeGrants]
SomeAccounts  ==
  {Account("member", g) : g \in AllButOne}
    \cup {[Account("member", Rights \ {"page.move"}) EXCEPT !.active = FALSE]} \cup Administrator

(* A key in use; or one to create, beside an OAuth token.                     *)
Live(u, scopes) == [state |-> "live", owner |-> u, scopes |-> scopes]
Unused(u)       == [state |-> "none", owner |-> u, scopes |-> {}]
KeyInUse  == [c \in Keys |-> IF c = k1 THEN Live(u1, Scopes) ELSE Unused(u1)]
TokenLive == [c \in Keys |-> IF c = k1 THEN Unused(u1) ELSE Live(u1, {"tags:write", "tags:read"})]
SomeKeys  == {KeyInUse, TokenLive}

(* The parts about the gate: every route and tool, for a request at a time,     *)
(* while nothing changes; requests whose account and key change meanwhile;     *)
(* calls with a key or an OAuth token, with writes to the log that fail.        *)
Named(entries, names) == {e \in entries : e.name \in names}
WithdrawnRoutes == Named(OpenRoutes, {"key/revoke", "tagPage"})
WithdrawnTools  == Named(OpenTools, {"wiki_tag_page"})
AuditedRoutes   == Named(OpenRoutes, {"key/create"})
AuditedTools    == Named(OpenTools, {"wiki_tag_page", "wiki_list_tags"})

PastDoors   == Gate!NextFrom({q1}, OpenRoutes, OpenTools) /\ changes' = 0 /\ faults' = 0
Withdrawing == Gate!NextFrom(Entrants, WithdrawnRoutes, WithdrawnTools) /\ faults' = 0
Auditing    == Gate!NextFrom({q1}, AuditedRoutes, AuditedTools)

(* Requests of a tab while nothing fails, and while anything does.             *)
Calm == INSTANCE ClientRefresh WITH faults <- mishaps, Requests <- CalmRequests, MaxFaults <- 0, Null <- None
Tab  == INSTANCE ClientRefresh WITH faults <- mishaps, Requests <- TabRequests, MaxFaults <- MaxMishaps, Null <- None

(* Two editors of one page while nothing is lost.                            *)
Editors == INSTANCE EditorSession WITH
  versions <- contents, Editors <- {u1, u2}, Texts <- {x0, x1}, First <- x0, Null <- None,
  MaxVersions <- 3, MaxAsked <- 2, MaxErased <- 0

ASSUME ServiceAssumption ==
  /\ Seed!SeedAssumption /\ SmallSeed!SeedAssumption
  /\ q1 \in Entrants /\ Gate!GateAssumption
  /\ Calm!RefreshAssumption /\ Tab!RefreshAssumption /\ Editors!EditorAssumption

SeedOff ==
  /\ rows = Off /\ versions = Off /\ seedTag = Off /\ seedTagged = Off /\ release = Off
  /\ process = Off /\ next = Off /\ step = Off /\ ids = Off /\ trouble = Off
SchemaOff == db = Off /\ migration = Off /\ at = Off /\ saved = Off /\ old = Off /\ crashes = Off
GateOff ==
  /\ account = Off /\ shown = Off /\ cookie = Off /\ cred = Off
  /\ session = Off /\ req = Off /\ changes = Off /\ faults = Off
TabOff ==
  /\ cookies = Off /\ alive = Off /\ requests = Off /\ refresh = Off /\ logouts = Off
  /\ signedIn = Off /\ socket = Off /\ expiries = Off /\ mishaps = Off
EditorsOff ==
  /\ contents = Off /\ editor = Off /\ room = Off /\ events = Off
  /\ previews = Off /\ save = Off /\ typed = Off /\ erased = Off

Begins ==
  /\ Init
  /\ \/ /\ \/ part = "seed" /\ Seed!Init
           \/ part = "seedInPlace" /\ SmallSeed!Init
        /\ SchemaOff /\ GateOff /\ TabOff /\ EditorsOff
     \/ /\ \/ part = "schema" /\ Schema!Init
           \/ part = "schemaUncrashed" /\ SchemaUncrashed!Init
        /\ SeedOff /\ GateOff /\ TabOff /\ EditorsOff
     \/ /\ Gate!Init
        /\ \/ part = "doors" /\ cred = KeyInUse
           \/ part = "withdrawn" /\ cred = KeyInUse /\ \A u \in Accounts : account[u] \in Administrator
           \/ part = "audited" /\ cred = TokenLive /\ \A u \in Accounts : account[u] \in Administrator
        /\ SeedOff /\ SchemaOff /\ TabOff /\ EditorsOff
     \/ /\ \/ part = "calm" /\ Calm!Init /\ alive
           \/ part = "tab" /\ Tab!Init
        /\ SeedOff /\ SchemaOff /\ GateOff /\ EditorsOff
     \/ part = "editors" /\ Editors!Init /\ SeedOff /\ SchemaOff /\ GateOff /\ TabOff
     \/ part = "versions" /\ SeedOff /\ SchemaOff /\ GateOff /\ TabOff /\ EditorsOff

Goes ==
  /\ UNCHANGED part
  /\ \/ /\ \/ part = "seed" /\ Seed!Next
           \/ part = "seedInPlace" /\ SmallSeed!KeepingNext
        /\ UNCHANGED <<vars, schemaVars, gateVars, tabVars, editorVars>>
     \/ /\ \/ part = "schema" /\ Schema!Next
           \/ part = "schemaUncrashed" /\ SchemaUncrashed!Next
        /\ UNCHANGED <<vars, seedVars, gateVars, tabVars, editorVars>>
     \/ /\ \/ part = "doors" /\ PastDoors
           \/ part = "withdrawn" /\ Withdrawing
           \/ part = "audited" /\ Auditing
        /\ UNCHANGED <<vars, seedVars, schemaVars, tabVars, editorVars>>
     \/ /\ \/ part = "calm" /\ Calm!CalmNext
           \/ part = "tab" /\ Tab!Next
        /\ UNCHANGED <<vars, seedVars, schemaVars, gateVars, editorVars>>
     \/ /\ part = "editors" /\ Editors!ReliableNext
        /\ UNCHANGED <<vars, seedVars, schemaVars, gateVars, tabVars>>
     \/ /\ part = "versions" /\ Next
        /\ UNCHANGED <<seedVars, schemaVars, gateVars, tabVars, editorVars>>

all == <<part, vars, seedVars, schemaVars, gateVars, tabVars, editorVars>>

(* Docker restarts what has ended, and a start takes its steps; the server goes *)
(* on with a request it serves; a request of a tab is answered, by the         *)
(* browser's timeout at worst.                                              *)
Works ==
  \/ part = "seedInPlace" /\ SmallSeed!Boot
       /\ UNCHANGED <<part, vars, schemaVars, gateVars, tabVars, editorVars>>
  \/ part = "schemaUncrashed" /\ SchemaUncrashed!Boot
       /\ UNCHANGED <<part, vars, seedVars, gateVars, tabVars, editorVars>>
  \/ part = "audited" /\ Gate!Proceed(q1)
       /\ UNCHANGED <<part, vars, seedVars, schemaVars, tabVars, editorVars>>
  \/ part = "tab" /\ Tab!Server
       /\ UNCHANGED <<part, vars, seedVars, schemaVars, gateVars, editorVars>>

(* What an editor waits for is served, and arrives.                          *)
Serves(e)  == part = "editors" /\ Editors!Prompt(e) /\ UNCHANGED <<part, vars, seedVars, schemaVars, gateVars, tabVars>>
Arrives(e) == part = "editors" /\ Editors!Arrive(e) /\ UNCHANGED <<part, vars, seedVars, schemaVars, gateVars, tabVars>>

Behaviour ==
  /\ Begins /\ [][Goes]_all
  /\ WF_all(Works) /\ \A e \in {u1, u2} : WF_all(Serves(e)) /\ WF_all(Arrives(e))

-----------------------------------------------------------------------------
(* Properties *)

(* seed-content: whatever people changed and wherever a start broke off, the    *)
(* server starts over the whole tree of its release, and no other page was    *)
(* written.                                                                 *)
ContentSeeded ==
  [][ part = "seed" => Seed!TypeOK' /\ Seed!SeedShown /\ Seed!OthersKept ]_seedVars

(* The migrations from every release, broken off anywhere: the server serves    *)
(* the schema that entities and the queries for all readers name, what was      *)
(* hidden stays so, and rights are carried over.                             *)
SchemaSound ==
  part = "schema" =>
    Schema!TypeOK /\ Schema!ServesItsSchema /\ Schema!HiddenStaysHidden /\ Schema!RightsKept

(* CHANGELOG 748, 170: search and library answer readers who may not read       *)
(* everything: the server has the columns those queries name.                *)
EveryoneSearches == part = "schema" => Schema!ServesRestricted

(* The guards, the checks of rights and the audit log, past every route and     *)
(* tool, and while accounts, keys and the log itself change or fail.          *)
GateSound ==
  part \in {"doors", "withdrawn", "audited"} =>
    /\ Gate!TypeOK
    /\ Gate!RightHeld /\ Gate!KeyIsLive /\ Gate!AuditTells /\ Gate!SilentOnlyAfterTwoFaults

(* The interceptor of 401 answers: in calm, a living session has every request  *)
(* served with its rights; whatever fails, who waits waits for a refresh.     *)
SessionRenewed ==
  /\ part = "calm" => Calm!ServedBySession
  /\ part = "tab" => Tab!TypeOK

Awaited ==
  \/ part = "seedInPlace" /\ process = "down"
  \/ part = "schemaUncrashed" /\ migration = "down"
  \/ part = "audited" /\ req[q1].at # "idle"
  \/ part = "tab" /\ Tab!In("sent") # {}
  \/ part = "editors" /\ Editors!Told(u1, 2)
Given ==
  \/ part = "seedInPlace" /\ process = "up"
  \/ part = "schemaUncrashed" /\ migration = "up"
  \/ part = "audited" /\ req[q1].at \in {"done", "idle"}
  \/ part = "tab" /\ Tab!In("sent") \cup Tab!In("waiting") = {}
  \/ part = "editors" /\ Editors!CaughtUp(u1, 2)

(* The entry point, restarted until it gets through, brings the server up; a    *)
(* call of a tool and a request of a tab are answered, whatever fails; an        *)
(* editor told of a version comes to stand on it or a later one, or is left.   *)
Answers == Awaited ~> Given

=============================================================================
