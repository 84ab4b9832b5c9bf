-------------------------------- MODULE OAuthFlow --------------------------------
(***************************************************************************)
(* OAuthFlowService: authorization codes, kept in the memory of one process, *)
(* and refresh tokens, kept in a table.  A code is exchanged for the first  *)
(* token of a grant; a refresh revokes a token and creates the next one; a  *)
(* client or an administrator revokes a token.  Deleting a user deletes the *)
(* user's tokens with it (the foreign key's cascade).                        *)
(***************************************************************************)
EXTENDS FiniteSets, Naturals

CONSTANTS
  Clients, Users,
  Proofs,      \* redirect URI and code challenge of an authorization request
  Codes,       \* codes that may be handed out, one for each grant
  TokenIds,    \* refresh tokens that may be created
  Requests,    \* handlers
  CodeExpiry, TokenExpiry, MaxTime,
  Null

VARIABLES
  now,
  users,      \* users that exist
  pending,    \* pendingCodes: codes waiting for their exchange
  granted,    \* history: who granted what with each code
  tokens,     \* the table oauth_refresh_tokens
  pc, call,   \* step and call of each handler
  issuing     \* the grant, client and user it is about to create a token for

vars == <<now, users, pending, granted, tokens, pc, call, issuing>>

Grant   == [client : Clients, user : Users]
Pending == [client : Clients, user : Users, proof : Proofs, expiresAt : Nat]
(* first: created by the exchange, not by a refresh (history, like grant).   *)
Token   == [grant : Codes, client : Clients, user : Users, expiresAt : Nat, revoked : BOOLEAN, first : BOOLEAN]
Issue   == [grant : Codes, client : Clients, user : Users]

ExchangeCall == [op : {"exchange"}, code : Codes, client : Clients, proof : Proofs]
RefreshCall  == [op : {"refresh"}, token : TokenIds, client : Clients]
RevokeCall   == [op : {"revoke"}, token : TokenIds]
AdminCall    == [op : {"revokeToken"}, token : TokenIds, client : Clients]
Call         == ExchangeCall \cup RefreshCall \cup RevokeCall \cup AdminCall

ASSUME OAuthAssumption ==
  /\ CodeExpiry \in Nat /\ TokenExpiry \in Nat /\ MaxTime \in Nat
  /\ Null \notin Clients \cup Users \cup Proofs \cup Codes \cup TokenIds
  /\ Null \notin Grant \cup Pending \cup Token \cup Issue \cup Call

Init ==
  /\ now = 0 /\ users = Users
  /\ pending = [c \in Codes |-> Null]
  /\ granted = [c \in Codes |-> Null]
  /\ tokens = [t \in TokenIds |-> Null]
  /\ pc = [r \in Requests |-> "idle"]
  /\ call = [r \in Requests |-> Null]
  /\ issuing = [r \in Requests |-> Null]

Live(t)      == tokens[t] # Null /\ ~tokens[t].revoked
TokensOf(c)  == {t \in TokenIds : tokens[t] # Null /\ tokens[t].grant = c}
Made         == {t \in TokenIds : tokens[t] # Null}

-----------------------------------------------------------------------------
Goto(r, step) == pc' = [pc EXCEPT ![r] = step] /\ UNCHANGED call
(* Mutant: what the handler was about to issue outlives its call.            *)
DoneHolding(r) ==
  /\ pc' = [pc EXCEPT ![r] = "idle"]
  /\ call' = [call EXCEPT ![r] = Null]
  /\ UNCHANGED issuing

Done(r) ==
  /\ pc' = [pc EXCEPT ![r] = "idle"]
  /\ call' = [call EXCEPT ![r] = Null]
  /\ issuing' = [issuing EXCEPT ![r] = Null]

Tick == now < MaxTime /\ now' = now + 1 /\ UNCHANGED <<users, pending, granted, tokens, pc, call, issuing>>

(* createAuthorizationCode, after a decision of the user.                    *)
Authorize ==
  /\ \E c \in Codes, client \in Clients, user \in users, proof \in Proofs :
       /\ granted[c] = Null
       /\ granted' = [granted EXCEPT ![c] = [client |-> client, user |-> user]]
       /\ pending' = [pending EXCEPT ![c] =
            [client |-> client, user |-> user, proof |-> proof, expiresAt |-> now + CodeExpiry]]
  /\ UNCHANGED <<now, users, tokens, pc, call, issuing>>

Begin(r) ==
  /\ pc[r] = "idle"
  /\ \E c \in Call :
       /\ IF c.op = "exchange" THEN granted[c.code] # Null ELSE c.token \in Made
       /\ call' = [call EXCEPT ![r] = c]
       /\ pc' = [pc EXCEPT ![r] = c.op]
  /\ UNCHANGED <<now, users, pending, granted, tokens, issuing>>

(* Mutant: the code is only looked up.                                      *)
CodeKept(code) == UNCHANGED pending

(* Map.get and Map.delete, without an await between them.                   *)
CodeTaken(code) == pending' = [pending EXCEPT ![code] = Null]

(* exchangeAuthorizationCode up to its await: a failed check burns the code. *)
Exchange(r) ==
  LET c == call[r]
      p == pending[c.code]
  IN /\ pc[r] = "exchange"
     /\ CodeTaken(c.code)
     /\ IF p # Null /\ p.expiresAt >= now /\ p.client = c.client /\ p.proof = c.proof
          THEN /\ Goto(r, "create")
               /\ issuing' = [issuing EXCEPT ![r] = [grant |-> c.code, client |-> c.client, user |-> p.user]]
          ELSE Done(r)
     /\ UNCHANGED <<now, users, granted, tokens>>

(* Mutant: another client's token will do.                                  *)
UsableByAny(t, client) == t # Null /\ ~t.revoked /\ t.expiresAt >= now

(* Mutant: a revoked token will do.                                         *)
UsableForever(t, client) == t # Null /\ t.client = client /\ t.expiresAt >= now

Usable(t, client) == t # Null /\ t.client = client /\ ~t.revoked /\ t.expiresAt >= now

FindForRefresh(r) ==
  LET c == call[r]
      t == tokens[c.token]
  IN /\ pc[r] = "refresh"
     /\ IF Usable(t, c.client)
          THEN /\ Goto(r, "rotate")
               /\ issuing' = [issuing EXCEPT ![r] = [grant |-> t.grant, client |-> c.client, user |-> t.user]]
          ELSE Done(r)
     /\ UNCHANGED <<now, users, pending, granted, tokens>>

FindForRevoke(r) ==
  LET c == call[r]
      t == tokens[c.token]
  IN /\ pc[r] \in {"revoke", "revokeToken"}
     /\ IF t # Null /\ ~t.revoked /\ (c.op = "revokeToken" => t.client = c.client)
          THEN pc' = [pc EXCEPT ![r] = "write"] /\ UNCHANGED <<call, issuing>>
          ELSE Done(r)
     /\ UNCHANGED <<now, users, pending, granted, tokens>>

(* Mutant: the answer first.                                                *)
NotRevoked(t) == tokens

(* An UPDATE by id, which a deleted row does not notice.                    *)
Revoked(t) == [tokens EXCEPT ![t] = IF @ = Null THEN Null ELSE [@ EXCEPT !.revoked = TRUE]]

Revoke(r) ==
  /\ \/ pc[r] = "write" /\ Done(r)
     \/ pc[r] = "rotate" /\ Goto(r, "create") /\ UNCHANGED issuing
  /\ tokens' = Revoked(call[r].token)
  /\ UNCHANGED <<now, users, pending, granted>>

(* Mutant: without the foreign key.                                         *)
AnyUser(u) == TRUE

UserExists(u) == u \in users

(* issueTokenPair; the foreign key refuses the token of a deleted user.      *)
Create(r) ==
  LET i == issuing[r]
  IN /\ pc[r] = "create"
     /\ IF UserExists(i.user)
          THEN \E t \in TokenIds \ Made :
                 tokens' = [tokens EXCEPT ![t] =
                   [grant |-> i.grant, client |-> i.client, user |-> i.user, revoked |-> FALSE,
                    expiresAt |-> now + TokenExpiry, first |-> call[r].op = "exchange"]]
          ELSE UNCHANGED tokens
     /\ Done(r)
     /\ UNCHANGED <<now, users, pending, granted>>

(* A database error, at any step.                                           *)
Fail(r) ==
  /\ pc[r] # "idle"
  /\ Done(r)
  /\ UNCHANGED <<now, users, pending, granted, tokens>>

(* The process restarts: its codes and its handlers are gone.               *)
Restart ==
  /\ pending' = [c \in Codes |-> Null]
  /\ pc' = [r \in Requests |-> "idle"]
  /\ call' = [r \in Requests |-> Null]
  /\ issuing' = [r \in Requests |-> Null]
  /\ UNCHANGED <<now, users, granted, tokens>>

DeleteUser ==
  /\ \E u \in users :
       /\ users' = users \ {u}
       /\ tokens' = [t \in TokenIds |-> IF tokens[t] # Null /\ tokens[t].user = u THEN Null ELSE tokens[t]]
  /\ UNCHANGED <<now, pending, granted, pc, call, issuing>>

-----------------------------------------------------------------------------
Handle(r) ==
  \/ Begin(r) \/ Exchange(r) \/ FindForRefresh(r) \/ FindForRevoke(r) \/ Revoke(r) \/ Create(r) \/ Fail(r)
World == Tick \/ Authorize \/ Restart \/ DeleteUser

Next == World \/ \E r \in Requests : Handle(r)
Spec == Init /\ [][Next]_vars

(* One call at a time, and any of them may break off.                        *)
Alone(r)   == \A q \in Requests \ {r} : pc[q] = "idle"
SerialNext == World \/ \E r \in Requests : Alone(r) /\ Handle(r)
SerialSpec == Init /\ [][SerialNext]_vars

-----------------------------------------------------------------------------
(* Properties *)

TypeOK ==
  /\ now \in Nat /\ users \subseteq Users
  /\ pending \in [Codes -> Pending \cup {Null}]
  /\ granted \in [Codes -> Grant \cup {Null}]
  /\ tokens \in [TokenIds -> Token \cup {Null}]
  /\ pc \in [Requests -> {"idle", "exchange", "refresh", "revoke", "revokeToken", "write", "rotate", "create"}]
  /\ call \in [Requests -> Call \cup {Null}]
  /\ issuing \in [Requests -> Issue \cup {Null}]
  /\ \A r \in Requests : issuing[r] # Null <=> pc[r] \in {"rotate", "create"}

(* exchangeAuthorizationCode: however exchanges of one code interleave, fail  *)
(* and are repeated across restarts, the code yields one token at most.     *)
CodeYieldsOnce ==
  \A c \in Codes : \A s, t \in TokensOf(c) : (tokens[s].first /\ tokens[t].first) => s = t

(* Through every chain of refreshes, at once or not, a token is its client's  *)
(* and its user's: the ones of the grant it descends from.                  *)
TokenKeepsItsGrant ==
  \A t \in Made : granted[tokens[t].grant] = [client |-> tokens[t].client, user |-> tokens[t].user]

(* The table keeps no token of a user who is gone, handlers in flight or not. *)
NoTokenOfTheGone == \A t \in Made : tokens[t].user \in users

(* The three of them, of every state whatever interleaves.                   *)
TokensSound == TypeOK /\ CodeYieldsOnce /\ TokenKeepsItsGrant /\ NoTokenOfTheGone

(* refresh, calls served one at a time, any of them possibly broken off: a    *)
(* grant has at most one token that is not revoked.                         *)
OneLiveToken == \A c \in Codes : \A s, t \in TokensOf(c) : (Live(s) /\ Live(t)) => s = t

Reaches(r, c) == issuing[r] # Null /\ issuing[r].grant = c

(* revoke and revokeToken, calls interleaved or not: a grant that has no       *)
(* live token any more, and none about to be created, never has one again.  *)
RevokedForGood ==
  \A c \in Codes :
    (TokensOf(c) # {} /\ (\A t \in TokensOf(c) : ~Live(t)) /\ (\A r \in Requests : ~Reaches(r, c)))
      => \A r \in Requests : issuing'[r] = Null \/ issuing'[r].grant # c

=============================================================================
