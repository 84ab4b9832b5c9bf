------------------------------- MODULE ApiGate -------------------------------
(***************************************************************************)
(* A request on its way in: past the guards of a REST route, or past the   *)
(* guard of /mcp, the session of the MCP server and the scopes of a tool,  *)
(* then past the checks of rights, to the operation and, for a tool, to    *)
(* its line in the audit log.  Each read of the database is a step; the    *)
(* accounts and the keys change between them.  One page stands for the     *)
(* pages, and what an operation then does is the matter of other modules.  *)
(***************************************************************************)
EXTENDS Naturals, ApiRoutes

CONSTANTS
  Users, NoUser,     \* accounts; nobody
  Creds, OAuthCreds, \* what a client of /mcp may present; those that are OAuth tokens
  Sessions,          \* session ids the MCP server may give out
  Requests,          \* requests under way at once
  Open, OpenTools,   \* the routes and tools requests are made of
  Grants,            \* the sets of rights an account may have
  ScopeSets,         \* the scopes a key may be given
  InitUsers, InitCreds, \* how accounts and credentials may start
  MaxChanges,        \* bound: changes of accounts
  MaxFaults          \* bound: writes to the audit log or the key that fail

(* Who may act on a page may read it.                                      *)
Granted == {g \in SUBSET Rights : g \cap PageActions # {} => "page.read" \in g}

GateAssumption ==
  /\ NoUser \notin Users
  /\ OAuthCreds \subseteq Creds
  /\ Open \subseteq Routes /\ OpenTools \subseteq Tools
  /\ \A g \in Grants : g \in Granted
  /\ \A u \in InitUsers : u \in [role : {"member", "admin"}, active : BOOLEAN, rights : Granted]
  /\ \A c \in InitCreds : c \in [Creds -> [state : {"none", "live", "ended"}, owner : Users, scopes : SUBSET Scopes]]
  /\ ScopeSets \subseteq (SUBSET Scopes) \ {{}}
  /\ MaxChanges \in Nat /\ MaxFaults \in Nat

VARIABLES
  user,      \* [Users -> [role, active, rights]]
  shown,     \* the page is public
  cookie,    \* [Users -> the role in the access token, "expired" or "none"]
  cred,      \* [Creds -> [state, owner, scopes]]; state is "none", "live" or "ended"
  session,   \* [Sessions -> the credentials an MCP session was opened with]
  req,       \* [Requests -> a request]
  changes, faults

vars == <<user, shown, cookie, cred, session, req, changes, faults>>

Roles == {"member", "admin"}
NoSession == [cred |-> "none", owner |-> NoUser, scopes |-> {}]
Idle == [at |-> "idle", entry |-> Route("", "none", <<>>), tool |-> FALSE, who |-> NoUser,
         cred |-> "none", sess |-> "none", left |-> <<>>,
         was |-> [admin |-> FALSE, active |-> FALSE, rights |-> {}, public |-> FALSE,
                  live |-> FALSE, token |-> FALSE],
         did |-> FALSE, answer |-> "none", good |-> 0, bad |-> 0]

Init ==
  /\ user \in [Users -> InitUsers]
  /\ shown \in BOOLEAN
  /\ cookie = [u \in Users |-> "none"]
  /\ cred \in InitCreds
  /\ session = [s \in Sessions |-> NoSession]
  /\ req = [q \in Requests |-> Idle]
  /\ changes = 0 /\ faults = 0

----------------------------------------------------------------------------
(* What was so at some moment of a request: kept to judge it afterwards.   *)

WasSo(u, us) ==
  [admin |-> u \in Users /\ us[u].role = "admin",
   active |-> u \in Users /\ us[u].active,
   rights |-> IF u \in Users THEN us[u].rights ELSE {}, public |-> shown, live |-> FALSE, token |-> FALSE]

Seen(w, v) ==
  [admin |-> w.admin \/ v.admin, active |-> w.active \/ v.active,
   rights |-> w.rights \cup v.rights, public |-> w.public \/ v.public, live |-> w.live, token |-> w.token]

----------------------------------------------------------------------------
(* The accounts, changed by what AccessRules and Accounts model.           *)

ChangeUser(u, role, active, rights) ==
  /\ changes < MaxChanges
  /\ user[u] # [role |-> role, active |-> active, rights |-> rights]
  /\ user' = [user EXCEPT ![u] = [role |-> role, active |-> active, rights |-> rights]]
  /\ changes' = changes + 1
  /\ req' = [q \in Requests |->
               IF req[q].at = "idle" THEN req[q]
               ELSE [req[q] EXCEPT !.was = Seen(@, WasSo(req[q].who, user'))]]
  /\ UNCHANGED <<shown, cookie, cred, session, faults>>

(* Signing in, or renewing the access token, writes the role into it.      *)
SignIn(u) ==
  /\ user[u].active /\ cookie[u] # user[u].role
  /\ cookie' = [cookie EXCEPT ![u] = user[u].role]
  /\ UNCHANGED <<user, shown, cred, session, req, changes, faults>>

Expire(u) ==
  /\ cookie[u] \in Roles
  /\ cookie' = [cookie EXCEPT ![u] = "expired"]
  /\ UNCHANGED <<user, shown, cred, session, req, changes, faults>>

----------------------------------------------------------------------------
(* The guards of a route: who the request is for, or "refused".            *)

Bearer(u) == IF u \in Users /\ cookie[u] \in Roles THEN u ELSE NoUser

(* Mutant: the guard looks at whether somebody is signed in, not at whom.  *)
AdmittedAny(g, u) ==
  CASE g = "none" -> TRUE
    [] g = "fallback" -> TRUE
    [] g = "visitor" -> u = NoUser \/ cookie[u] # "expired"
    [] g \in {"user", "admin"} -> Bearer(u) # NoUser

Admitted(g, u) ==
  CASE g = "none" -> TRUE
    [] g = "fallback" -> TRUE
    [] g = "visitor" -> u = NoUser \/ cookie[u] # "expired"
    [] g = "user" -> Bearer(u) # NoUser
    [] g = "admin" -> u \in Users /\ cookie[u] = "admin"

Ready(rest) == IF rest = <<>> THEN "act" ELSE "user"

(* A request for a route.  The token is not compared with the account.     *)
(* Keys are created while the constant Creds has one left.                 *)
Request(q, u, r) ==
  /\ req[q].at = "idle"
  /\ u \in Users => cookie[u] # "none"
  /\ r.name = "key/create" =>
       Cardinality({ c \in Creds \ OAuthCreds : cred[c].state = "none" })
         > Cardinality({ p \in Requests : req[p].entry.name = "key/create" /\ ~ req[p].did })
  /\ LET who == IF r.guard = "none" THEN NoUser ELSE Bearer(u)
         now == [WasSo(who, user) EXCEPT !.token = u \in Users /\ cookie[u] = "admin"]
         new == [Idle EXCEPT !.entry = r, !.who = who, !.left = r.checks, !.was = now]
     IN req' = [req EXCEPT ![q] =
                  IF Admitted(r.guard, u)
                  THEN [new EXCEPT !.at = Ready(r.checks)]
                  ELSE [new EXCEPT !.at = "done", !.answer = "refused"]]
  /\ UNCHANGED <<user, shown, cookie, cred, session, changes, faults>>

----------------------------------------------------------------------------
(* The guard of /mcp: the key is looked up, then its owner.  An OAuth      *)
(* token is verified without the database.                                 *)

(* A call presents a credential and a session.  A session id is known to   *)
(* the programs of one account.                                            *)
Call(q, c, s, t) ==
  /\ req[q].at = "idle"
  /\ cred[c].state # "none"
  /\ session[s] # NoSession /\ session[s].owner = cred[c].owner
  /\ req' = [req EXCEPT ![q] =
       [Idle EXCEPT !.entry = t, !.tool = TRUE, !.at = "key", !.who = cred[c].owner,
                    !.cred = c, !.sess = s,
                    !.was = [WasSo(cred[c].owner, user) EXCEPT !.live = cred[c].state = "live"]]]
  /\ UNCHANGED <<user, shown, cookie, cred, session, changes, faults>>

Refuse(r) == [r EXCEPT !.at = "done", !.answer = "refused"]
Fail(r) == IF r.tool THEN [r EXCEPT !.at = "failed"] ELSE Refuse(r)

(* Mutant: a key is known by its hash, revoked or not.                     *)
KnownKey(q) ==
  /\ req[q].at = "key"
  /\ req' = [req EXCEPT ![q].at = "owner"]
  /\ UNCHANGED <<user, shown, cookie, cred, session, changes, faults>>

ValidateKey(q) ==
  /\ req[q].at = "key"
  /\ req' = [req EXCEPT ![q] =
       IF cred[@.cred].state = "live" THEN [@ EXCEPT !.at = "owner"] ELSE Refuse(@)]
  /\ UNCHANGED <<user, shown, cookie, cred, session, changes, faults>>

(* Mutant: the guard trusts a key without looking at its owner.            *)
TrustOwner(q) ==
  /\ req[q].at = "owner"
  /\ req' = [req EXCEPT ![q].at = "tool"]
  /\ UNCHANGED <<user, shown, cookie, cred, session, changes, faults>>

AssertUserActive(q) ==
  /\ req[q].at = "owner"
  /\ req' = [req EXCEPT ![q] =
       IF user[@.who].active THEN [@ EXCEPT !.at = "tool"] ELSE Refuse(@)]
  /\ UNCHANGED <<user, shown, cookie, cred, session, changes, faults>>

(* The server of a session keeps what the first call presented.            *)
OpenSession(c, s) ==
  /\ cred[c].state = "live" /\ user[cred[c].owner].active
  /\ session[s] = NoSession
  /\ session' = [session EXCEPT ![s] =
                   [cred |-> c, owner |-> cred[c].owner, scopes |-> cred[c].scopes]]
  /\ UNCHANGED <<user, shown, cookie, cred, req, changes, faults>>

CloseSession(s) ==
  /\ session[s] # NoSession
  /\ session' = [session EXCEPT ![s] = NoSession]
  /\ UNCHANGED <<user, shown, cookie, cred, req, changes, faults>>

HasRequiredScope(t, scopes) == t.scopes = {} \/ t.scopes \cap scopes # {}

(* Mutant: a call whose session was closed is never answered.              *)
ExecuteToolOpen(q) ==
  /\ req[q].at = "tool"
  /\ LET r == req[q] s == session[r.sess]
     IN /\ s # NoSession
        /\ req' = [req EXCEPT ![q] =
             IF HasRequiredScope(r.entry, s.scopes)
             THEN [r EXCEPT !.at = Ready(r.entry.checks), !.left = r.entry.checks]
             ELSE Fail(r)]
  /\ UNCHANGED <<user, shown, cookie, cred, session, changes, faults>>

(* The tool is run with the scopes the session was opened with.            *)
ExecuteTool(q) ==
  /\ req[q].at = "tool"
  /\ LET r == req[q] s == session[r.sess]
     IN req' = [req EXCEPT ![q] =
          IF s = NoSession THEN Refuse(r)
          ELSE IF HasRequiredScope(r.entry, s.scopes)
          THEN [r EXCEPT !.at = Ready(r.entry.checks), !.left = r.entry.checks]
          ELSE Fail(r)]
  /\ UNCHANGED <<user, shown, cookie, cred, session, changes, faults>>

----------------------------------------------------------------------------
(* The checks of rights, of guard, tool and service: the account is read,  *)
(* then, unless that settles it, what it is granted.                       *)

Pass(r) == [r EXCEPT !.left = Tail(@), !.at = Ready(Tail(r.left))]

(* Mutant: the account is taken as active.                                 *)
ReadUserOnly(q) ==
  /\ req[q].at = "user"
  /\ LET r == req[q]
     IN req' = [req EXCEPT ![q] =
          IF Head(r.left) = "page.read" /\ shown THEN Pass(r)
          ELSE IF r.who = NoUser THEN Fail(r)
          ELSE IF user[r.who].role = "admin" THEN Pass(r)
          ELSE [r EXCEPT !.at = "rights"]]
  /\ UNCHANGED <<user, shown, cookie, cred, session, changes, faults>>

ReadUser(q) ==
  /\ req[q].at = "user"
  /\ LET r == req[q]
     IN req' = [req EXCEPT ![q] =
          IF Head(r.left) = "page.read" /\ shown THEN Pass(r)
          ELSE IF r.who = NoUser THEN Fail(r)
          ELSE IF user[r.who].role = "admin" THEN Pass(r)
          ELSE IF user[r.who].active THEN [r EXCEPT !.at = "rights"]
          ELSE Fail(r)]
  /\ UNCHANGED <<user, shown, cookie, cred, session, changes, faults>>

LoadRights(q) ==
  /\ req[q].at = "rights"
  /\ LET r == req[q]
     IN req' = [req EXCEPT ![q] =
                  IF Head(r.left) \in user[r.who].rights THEN Pass(r) ELSE Fail(r)]
  /\ UNCHANGED <<user, shown, cookie, cred, session, changes, faults>>

----------------------------------------------------------------------------
(* The operation.  Two of them change what the guards read.                *)

Acted(r) == IF r.tool THEN [r EXCEPT !.did = TRUE, !.at = "log"]
            ELSE [r EXCEPT !.did = TRUE, !.at = "done", !.answer = "ok"]

Act(q) ==
  /\ req[q].at = "act"
  /\ req[q].entry.name \notin {"key/create", "key/revoke"}
  /\ req' = [req EXCEPT ![q] = Acted(@)]
  /\ UNCHANGED <<user, shown, cookie, cred, session, changes, faults>>

CreateKey(q, c, scopes) ==
  /\ req[q].at = "act" /\ req[q].entry.name = "key/create"
  /\ c \notin OAuthCreds /\ cred[c].state = "none"
  /\ cred' = [cred EXCEPT ![c] = [state |-> "live", owner |-> req[q].who, scopes |-> scopes]]
  /\ req' = [req EXCEPT ![q] = Acted(@)]
  /\ UNCHANGED <<user, shown, cookie, session, changes, faults>>

RevokeKey(q, c) ==
  /\ req[q].at = "act" /\ req[q].entry.name = "key/revoke"
  /\ c \notin OAuthCreds
  /\ IF cred[c].state = "none"
     THEN req' = [req EXCEPT ![q] = Refuse(@)] /\ UNCHANGED cred
     ELSE /\ cred' = [cred EXCEPT ![c].state = "ended"]
          /\ req' = [req EXCEPT ![q] = Acted(@)]
  /\ UNCHANGED <<user, shown, cookie, session, changes, faults>>

(* An OAuth token is valid for its time, whatever is revoked.              *)
ExpireToken(c) ==
  /\ c \in OAuthCreds /\ cred[c].state = "live"
  /\ cred' = [cred EXCEPT ![c].state = "ended"]
  /\ UNCHANGED <<user, shown, cookie, session, req, changes, faults>>

----------------------------------------------------------------------------
(* The audit log of the tools.                                             *)

Lost(written) == IF written THEN 0 ELSE 1

(* Mutant: only what a tool refuses is logged.                             *)
AnswerUnlogged(q) ==
  /\ req[q].at = "log"
  /\ req' = [req EXCEPT ![q] = [@ EXCEPT !.at = "done", !.answer = "ok"]]
  /\ UNCHANGED <<user, shown, cookie, cred, session, changes, faults>>

(* Mutant: the answer does not wait for the log.                           *)
LogSuccessLater(q) ==
  /\ req[q].at = "log"
  /\ \E logged, touched \in BOOLEAN :
       /\ faults' = faults + Lost(logged) + Lost(touched)
       /\ faults' <= MaxFaults
       /\ req' = [req EXCEPT ![q] =
            [@ EXCEPT !.good = 1 - Lost(logged), !.at = "done", !.answer = "ok"]]
  /\ UNCHANGED <<user, shown, cookie, cred, session, changes>>

(* The line of a success and the date of the key's use are written side by *)
(* side; when either fails the tool counts as failed.                      *)
LogSuccess(q) ==
  /\ req[q].at = "log"
  /\ \E logged, touched \in BOOLEAN :
       /\ faults' = faults + Lost(logged) + Lost(touched)
       /\ faults' <= MaxFaults
       /\ req' = [req EXCEPT ![q] =
            IF logged /\ touched
            THEN [@ EXCEPT !.good = 1, !.at = "done", !.answer = "ok"]
            ELSE [@ EXCEPT !.good = 1 - Lost(logged), !.at = "failed"]]
  /\ UNCHANGED <<user, shown, cookie, cred, session, changes>>

LogFailure(q) ==
  /\ req[q].at = "failed"
  /\ \E logged \in BOOLEAN :
       /\ faults' = faults + Lost(logged)
       /\ faults' <= MaxFaults
       /\ req' = [req EXCEPT ![q] =
                    [@ EXCEPT !.bad = 1 - Lost(logged), !.at = "done", !.answer = "error"]]
  /\ UNCHANGED <<user, shown, cookie, cred, session, changes>>

(* Mutant: a slot keeps what the last request left in it.                  *)
LeaveAsIs(q) ==
  /\ req[q].at = "done"
  /\ req' = [req EXCEPT ![q].at = "idle"]
  /\ UNCHANGED <<user, shown, cookie, cred, session, changes, faults>>

Leave(q) ==
  /\ req[q].at = "done"
  /\ req' = [req EXCEPT ![q] = Idle]
  /\ UNCHANGED <<user, shown, cookie, cred, session, changes, faults>>

----------------------------------------------------------------------------
Proceed(q) ==
  \/ ValidateKey(q) \/ AssertUserActive(q) \/ ExecuteTool(q)
  \/ ReadUser(q) \/ LoadRights(q) \/ Act(q)
  \/ \E c \in Creds : RevokeKey(q, c) \/ \E scopes \in ScopeSets : CreateKey(q, c, scopes)
  \/ LogSuccess(q) \/ LogFailure(q)

Enter(q, open, tools) ==
  \/ \E u \in Users \cup {NoUser}, r \in open : Request(q, u, r)
  \/ \E c \in Creds, s \in Sessions, t \in tools : Call(q, c, s, t)

(* Steps in which requests of some slots come to some of the routes and tools. *)
NextFrom(slots, open, tools) ==
  \/ \E u \in Users :
       \/ \E role \in Roles, active \in BOOLEAN, rights \in Grants :
            ChangeUser(u, role, active, rights)
       \/ SignIn(u) \/ Expire(u)
  \/ \E q \in slots : Enter(q, open, tools)
  \/ \E q \in Requests : Proceed(q) \/ Leave(q)
  \/ \E c \in Creds, s \in Sessions : OpenSession(c, s)
  \/ \E s \in Sessions : CloseSession(s)
  \/ \E c \in Creds : ExpireToken(c)

Next == NextFrom(Requests, Open, OpenTools)

----------------------------------------------------------------------------
TypeOK ==
  /\ user \in [Users -> [role : Roles, active : BOOLEAN, rights : Granted]]
  /\ shown \in BOOLEAN
  /\ cookie \in [Users -> Roles \cup {"none", "expired"}]
  /\ cred \in [Creds -> [state : {"none", "live", "ended"}, owner : Users, scopes : SUBSET Scopes]]
  /\ \A s \in Sessions : session[s] # NoSession => session[s].cred \in Creds
  /\ \A q \in Requests :
       /\ req[q].at \in {"idle", "key", "owner", "tool", "user", "rights", "act", "log",
                          "failed", "done"}
       /\ req[q].at = "idle" => req[q] = Idle
       /\ req[q].at # "idle" => req[q].entry \in (IF req[q].tool THEN OpenTools ELSE Open)
       /\ req[q].who \in Users \cup {NoUser}
       /\ req[q].answer \in {"none", "ok", "error", "refused"}
  /\ changes \in 0..MaxChanges /\ faults \in 0..MaxFaults

(* An operation is done only for an account that held, during the request, *)
(* every right the specification of the API gives for it: by the route or  *)
(* by the tool, whatever is withdrawn meanwhile.  An account holds a right *)
(* as an administrator, or being active and having been granted it; who is *)
(* an administrator is, for what is theirs alone, what the access token    *)
(* said when it was made.                                                  *)
RightHeld ==
  \A q \in Requests : LET r == req[q] w == req[q].was IN
    r.did => \A n \in Needs(r.entry.name) :
               \/ w.admin \/ (n = "admin" /\ w.token)
               \/ w.active /\ n \in w.rights
               \/ n = "page.read" /\ w.public

(* A tool acts only on a call whose key was not revoked when it arrived,   *)
(* and for an account that was active at some moment of it: the session it *)
(* opened earlier keeps nothing alive.                                     *)
KeyIsLive ==
  \A q \in Requests : req[q].tool /\ req[q].did => req[q].was.live /\ req[q].was.active

(* When no write fails, a tool that was run has one line in the log, and   *)
(* the line says what became of it.                                        *)
AuditTells ==
  \A q \in Requests : LET r == req[q] IN
    faults = 0 /\ r.tool /\ r.at = "done" /\ r.answer # "refused"
      => r.good + r.bad = 1 /\ (r.good = 1 <=> r.did) /\ (r.answer = "ok" <=> r.did)

(* No operation of a tool goes without any line unless two writes failed.  *)
SilentOnlyAfterTwoFaults ==
  \A q \in Requests : LET r == req[q] IN
    r.tool /\ r.at = "done" /\ r.did /\ r.good + r.bad = 0 => faults >= 2

=============================================================================
