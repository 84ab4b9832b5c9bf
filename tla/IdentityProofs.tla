----------------------------- MODULE IdentityProofs -----------------------------
(***************************************************************************)
(* Theorems about who somebody is, in every part of MCIdentity and for every *)
(* limit of failures, length of a lock, number of passwords, set of handlers, *)
(* table of accounts and set of calls.                                       *)
(*                                                                         *)
(* Interleaved, the invariants say what a handler has checked by each of its *)
(* steps (CheckedCall), and count the handlers that may still fail or lock    *)
(* (FailuresCounted).  In turn, what it read is also what there still is      *)
(* (StillTrue, PresentRead).                                                *)
(***************************************************************************)
EXTENDS MCIdentity, FiniteSetTheorems, TLAPS

-----------------------------------------------------------------------------
(* OAuthFlow, for every set of clients, users, codes, tokens and handlers:       *)
(* whatever interleaves, fails or restarts, a code yields one token at most and   *)
(* a token is that of its grant; served one at a time, a grant has one live        *)
(* token at most, and none again after its last.                              *)
(* Why a code yields one token: taking it out of the map and going on to create   *)
(* its token is one step, so that a grant is in one of three places, waiting as   *)
(* a code, with one handler, or in the table.                                 *)

Exchanging(r) == pc[r] = "create" /\ call[r].op = "exchange"

(* What a handler serves at each of its steps.                              *)
Control(r) ==
  /\ pc[r] = "exchange" => call[r] \in ExchangeCall
  /\ pc[r] \in {"refresh", "rotate"} => call[r] \in RefreshCall
  /\ pc[r] \in {"revoke", "revokeToken", "write"} => call[r] \in RevokeCall \cup AdminCall
  /\ pc[r] = "create" => call[r] \in ExchangeCall \cup RefreshCall

(* Nothing was made of grant c, and none of the handlers S is about to.        *)
Untouched(c, S) == TokensOf(c) = {} /\ \A q \in S : ~Reaches(q, c)

(* A code that waits was granted, and nothing was made of it.                 *)
PendingIsGranted ==
  \A c \in Codes : pending[c] # Null =>
    /\ granted[c] = [client |-> pending[c].client, user |-> pending[c].user]
    /\ Untouched(c, Requests)

(* A handler issues what was granted, and an exchange is alone to do so.        *)
IssuedIsGranted ==
  \A r \in Requests :
    /\ issuing[r] # Null =>
         granted[issuing[r].grant] = [client |-> issuing[r].client, user |-> issuing[r].user]
    /\ Exchanging(r) =>
         pending[issuing[r].grant] = Null /\ Untouched(issuing[r].grant, Requests \ {r})

Inv ==
  /\ TokensSound
  /\ \A r \in Requests : Control(r)
  /\ PendingIsGranted
  /\ IssuedIsGranted

-----------------------------------------------------------------------------
LEMMA InitSound == Init => Inv
<1> SUFFICES ASSUME Init PROVE Inv
  OBVIOUS
<1>1. TypeOK
  BY OAuthAssumption DEF Init, TypeOK
<1>2. CodeYieldsOnce /\ TokenKeepsItsGrant /\ NoTokenOfTheGone
  BY DEF Init, CodeYieldsOnce, TokenKeepsItsGrant, NoTokenOfTheGone, TokensOf, Made
<1>3. (\A r \in Requests : Control(r)) /\ PendingIsGranted /\ IssuedIsGranted
  BY DEF Init, Control, PendingIsGranted, IssuedIsGranted, Exchanging
<1> QED
  BY <1>1, <1>2, <1>3 DEF Inv, TokensSound

LEMMA ExchangeSound ==
  ASSUME Inv, NEW r \in Requests, Exchange(r)
  PROVE  Inv'
<1> DEFINE c == call[r]
           p == pending[c.code]
<1> USE DEF Inv, TokensSound
<1>1. c \in ExchangeCall /\ c.code \in Codes /\ issuing[r] = Null
  BY DEF Exchange, Control, TypeOK, ExchangeCall
<1>2. TypeOK'
  BY <1>1, OAuthAssumption DEF Exchange, TypeOK, Goto, Done, CodeTaken, Pending, Issue, ExchangeCall
<1>3. (CodeYieldsOnce /\ TokenKeepsItsGrant /\ NoTokenOfTheGone)'
  BY DEF Exchange, CodeYieldsOnce, TokenKeepsItsGrant, NoTokenOfTheGone, TokensOf, Made
<1>4. (\A q \in Requests : Control(q))'
  BY <1>1 DEF Exchange, Control, Goto, Done, TypeOK
<1>5. PendingIsGranted'
  BY <1>1 DEF Exchange, PendingIsGranted, Untouched, Reaches, TokensOf, CodeTaken, Goto, Done, TypeOK
<1>6. IssuedIsGranted'
  BY <1>1 DEF Exchange, PendingIsGranted, IssuedIsGranted, Exchanging, Untouched, Reaches, TokensOf,
    CodeTaken, Goto, Done, TypeOK
<1> QED
  BY <1>2, <1>3, <1>4, <1>5, <1>6

LEMMA TickSound ==
  ASSUME Inv, Tick
  PROVE  Inv'
<1> USE DEF Inv, TokensSound
<1>2. TypeOK'
  BY OAuthAssumption DEF Tick, TypeOK
<1>3. (CodeYieldsOnce /\ TokenKeepsItsGrant /\ NoTokenOfTheGone)'
  BY OAuthAssumption DEF Tick, CodeYieldsOnce, TokenKeepsItsGrant, NoTokenOfTheGone, TokensOf, Made
<1>4. (\A q \in Requests : Control(q))'
  BY OAuthAssumption DEF Tick, Control, TypeOK
<1>5. PendingIsGranted'
  BY OAuthAssumption DEF Tick, PendingIsGranted, IssuedIsGranted, Untouched, Reaches, TokensOf, TypeOK
<1>6. IssuedIsGranted'
  BY OAuthAssumption DEF Tick, PendingIsGranted, IssuedIsGranted, Exchanging, Untouched, Reaches, TokensOf, TypeOK
<1> QED
  BY <1>2, <1>3, <1>4, <1>5, <1>6

LEMMA GrantIsSomething ==
  ASSUME NEW client \in Clients, NEW user \in Users
  PROVE  [client |-> client, user |-> user] # Null
<1>1. [client |-> client, user |-> user] \in Grant
  BY DEF Grant
<1> QED
  BY <1>1, OAuthAssumption

(* The code drawn was never granted, so nothing names it.                    *)
LEMMA AuthorizeSound ==
  ASSUME Inv, Authorize
  PROVE  Inv'
<1> USE DEF Inv, TokensSound
<1>1. PICK c \in Codes, client \in Clients, user \in users, proof \in Proofs :
        /\ granted[c] = Null
        /\ granted' = [granted EXCEPT ![c] = [client |-> client, user |-> user]]
        /\ pending' = [pending EXCEPT ![c] =
             [client |-> client, user |-> user, proof |-> proof, expiresAt |-> now + CodeExpiry]]
  BY DEF Authorize
<1>2. UNCHANGED <<now, users, tokens, pc, call, issuing>>
  BY DEF Authorize
<1>3. \A t \in Made : tokens[t] \in Token /\ tokens[t].grant # c
  <2>1. \A t \in Made : tokens[t] \in Token
    BY DEF TypeOK, Made
  <2>2. \A t \in Made : tokens[t].client \in Clients /\ tokens[t].user \in Users
    BY <2>1 DEF Token
  <2> QED
    BY <1>1, <2>1, <2>2, GrantIsSomething DEF TokenKeepsItsGrant
<1>4. \A r \in Requests : issuing[r] # Null => issuing[r] \in Issue /\ issuing[r].grant # c
  <2>1. \A r \in Requests : issuing[r] # Null => issuing[r] \in Issue
    BY DEF TypeOK
  <2>2. \A r \in Requests : issuing[r] # Null => issuing[r].client \in Clients /\ issuing[r].user \in Users
    BY <2>1 DEF Issue
  <2> QED
    BY <1>1, <2>1, <2>2, GrantIsSomething DEF IssuedIsGranted
<1>5. TypeOK'
  BY OAuthAssumption DEF Authorize, TypeOK, Grant, Pending
<1>6. (CodeYieldsOnce /\ NoTokenOfTheGone)'
  BY <1>2 DEF CodeYieldsOnce, NoTokenOfTheGone, TokensOf, Made
<1>7. TokenKeepsItsGrant'
  BY <1>1, <1>2, <1>3 DEF TokenKeepsItsGrant, TypeOK, Token, Made
<1>8. (\A q \in Requests : Control(q))'
  BY <1>2 DEF Control
<1>9. Untouched(c, Requests)
  BY <1>3, <1>4 DEF Untouched, TokensOf, Made, Reaches
<1>10. PendingIsGranted'
  BY <1>1, <1>2, <1>9 DEF PendingIsGranted, Untouched, TokensOf, Reaches, TypeOK
<1>11. IssuedIsGranted'
  BY <1>1, <1>2, <1>4 DEF IssuedIsGranted, Exchanging, Untouched, TokensOf, Reaches, TypeOK, Issue
<1> QED
  BY <1>5, <1>6, <1>7, <1>8, <1>10, <1>11

LEMMA BeginSound ==
  ASSUME Inv, NEW r \in Requests, Begin(r)
  PROVE  Inv'
<1> USE DEF Inv, TokensSound
<1>2. TypeOK'
  BY OAuthAssumption DEF Begin, TypeOK, Call, ExchangeCall, RefreshCall, RevokeCall, AdminCall
<1>3. (CodeYieldsOnce /\ TokenKeepsItsGrant /\ NoTokenOfTheGone)'
  BY OAuthAssumption DEF Begin, CodeYieldsOnce, TokenKeepsItsGrant, NoTokenOfTheGone, TokensOf, Made
<1>4. (\A q \in Requests : Control(q))'
  BY OAuthAssumption DEF Begin, Call, ExchangeCall, RefreshCall, RevokeCall, AdminCall, Control, TypeOK
<1>5. PendingIsGranted'
  BY OAuthAssumption DEF Begin, PendingIsGranted, IssuedIsGranted, Untouched, Reaches, TokensOf, TypeOK
<1>6. IssuedIsGranted'
  BY OAuthAssumption DEF Begin, Call, ExchangeCall, RefreshCall, RevokeCall, AdminCall, PendingIsGranted, IssuedIsGranted, Exchanging, Untouched, Reaches, TokensOf, TypeOK
<1> QED
  BY <1>2, <1>3, <1>4, <1>5, <1>6

LEMMA FindForRefreshSound ==
  ASSUME Inv, NEW r \in Requests, FindForRefresh(r)
  PROVE  Inv'
<1> USE DEF Inv, TokensSound
<1>1. call[r] \in RefreshCall /\ call[r].token \in TokenIds /\ issuing[r] = Null
  BY DEF FindForRefresh, Control, TypeOK, RefreshCall
<1>2. TypeOK'
  BY <1>1, OAuthAssumption DEF FindForRefresh, Goto, Done, TypeOK, Usable, RefreshCall, Token, Issue
<1>3. (CodeYieldsOnce /\ TokenKeepsItsGrant /\ NoTokenOfTheGone)'
  BY <1>1, OAuthAssumption DEF FindForRefresh, CodeYieldsOnce, TokenKeepsItsGrant, NoTokenOfTheGone, TokensOf, Made
<1>4. (\A q \in Requests : Control(q))'
  BY <1>1, OAuthAssumption DEF FindForRefresh, Goto, Done, Control, TypeOK
<1>5. PendingIsGranted'
  BY <1>1, OAuthAssumption DEF FindForRefresh, Goto, Done, Usable, PendingIsGranted, IssuedIsGranted, Untouched, Reaches, TokensOf, TypeOK
<1>6. IssuedIsGranted'
  BY <1>1, OAuthAssumption DEF FindForRefresh, Goto, Done, Usable, TokenKeepsItsGrant, Made, PendingIsGranted, IssuedIsGranted, Exchanging, Untouched, Reaches, TokensOf, TypeOK
<1> QED
  BY <1>2, <1>3, <1>4, <1>5, <1>6

LEMMA FindForRevokeSound ==
  ASSUME Inv, NEW r \in Requests, FindForRevoke(r)
  PROVE  Inv'
<1> USE DEF Inv, TokensSound
<1>2. TypeOK'
  BY OAuthAssumption DEF FindForRevoke, Done, TypeOK
<1>3. (CodeYieldsOnce /\ TokenKeepsItsGrant /\ NoTokenOfTheGone)'
  BY OAuthAssumption DEF FindForRevoke, CodeYieldsOnce, TokenKeepsItsGrant, NoTokenOfTheGone, TokensOf, Made
<1>4. (\A q \in Requests : Control(q))'
  BY OAuthAssumption DEF FindForRevoke, Done, Control, TypeOK
<1>5. PendingIsGranted'
  BY OAuthAssumption DEF FindForRevoke, Done, PendingIsGranted, IssuedIsGranted, Untouched, Reaches, TokensOf, TypeOK
<1>6. IssuedIsGranted'
  BY OAuthAssumption DEF FindForRevoke, Done, PendingIsGranted, IssuedIsGranted, Exchanging, Untouched, Reaches, TokensOf, TypeOK
<1> QED
  BY <1>2, <1>3, <1>4, <1>5, <1>6

(* A revocation changes of a token nothing but the mark.                      *)
LEMMA RevokedKeeps ==
  ASSUME TypeOK, NEW t \in TokenIds, NEW s \in TokenIds
  PROVE  /\ Revoked(t)[s] = Null <=> tokens[s] = Null
         /\ tokens[s] # Null =>
              /\ Revoked(t)[s] \in Token
              /\ Revoked(t)[s].grant = tokens[s].grant /\ Revoked(t)[s].client = tokens[s].client
              /\ Revoked(t)[s].user = tokens[s].user /\ Revoked(t)[s].first = tokens[s].first
<1>1. tokens[s] \in Token \cup {Null} /\ tokens \in [TokenIds -> Token \cup {Null}]
  BY DEF TypeOK
<1>2. CASE tokens[s] = Null
  BY <1>1, <1>2 DEF Revoked
<1>3. CASE tokens[s] # Null /\ s # t
  BY <1>1, <1>3 DEF Revoked
<1>4. CASE tokens[s] # Null /\ s = t
  <2>1. Revoked(t)[s] = [tokens[s] EXCEPT !.revoked = TRUE]
    BY <1>1, <1>4 DEF Revoked
  <2>2. tokens[s] \in Token
    BY <1>1, <1>4
  <2>3. Revoked(t)[s] \in Token
    BY <2>1, <2>2 DEF Token
  <2> QED
    BY <1>4, <2>1, <2>2, <2>3, OAuthAssumption DEF Token
<1> QED
  BY <1>2, <1>3, <1>4

LEMMA RevokeSound ==
  ASSUME Inv, NEW r \in Requests, Revoke(r)
  PROVE  Inv'
<1> USE DEF Inv, TokensSound
<1>1. call[r].token \in TokenIds /\ tokens' = Revoked(call[r].token)
  BY DEF Revoke, Control, RefreshCall, RevokeCall, AdminCall
<1>2. \A s \in TokenIds :
        /\ tokens'[s] = Null <=> tokens[s] = Null
        /\ tokens[s] # Null =>
             /\ tokens'[s] \in Token
             /\ tokens'[s].grant = tokens[s].grant /\ tokens'[s].client = tokens[s].client
             /\ tokens'[s].user = tokens[s].user /\ tokens'[s].first = tokens[s].first
  BY <1>1, RevokedKeeps
<1>3. tokens' \in [TokenIds -> Token \cup {Null}]
  <2>1. DOMAIN tokens' = TokenIds /\ tokens' = [s \in TokenIds |-> tokens'[s]]
    BY <1>1 DEF Revoked, TypeOK
  <2> QED
    BY <2>1, <1>2
<1>4. TypeOK'
  BY <1>3 DEF Revoke, Goto, Done, TypeOK
<1>5. (CodeYieldsOnce /\ TokenKeepsItsGrant /\ NoTokenOfTheGone)'
  BY <1>2 DEF Revoke, CodeYieldsOnce, TokenKeepsItsGrant, NoTokenOfTheGone, TokensOf, Made
<1>6. (\A q \in Requests : Control(q))'
  BY <1>1 DEF Revoke, Goto, Done, Control, TypeOK
<1>7. \A c \in Codes : TokensOf(c)' = TokensOf(c)
  BY <1>2 DEF TokensOf
<1>8. PendingIsGranted'
  BY <1>7 DEF Revoke, Goto, Done, PendingIsGranted, Untouched, Reaches, TypeOK
<1>9. IssuedIsGranted'
  <2>1. \A q \in Requests : issuing'[q] # Null => issuing'[q] = issuing[q] /\ issuing[q].grant \in Codes
    BY DEF Revoke, Goto, Done, TypeOK, Issue
  <2>2. \A q \in Requests : Exchanging(q)' => Exchanging(q) /\ issuing'[q] # Null
    BY <1>4, <1>6 DEF Revoke, Goto, Done, Exchanging, Control, TypeOK, RefreshCall
  <2> QED
    BY <1>7, <2>1, <2>2 DEF Revoke, IssuedIsGranted, Untouched, Reaches
<1> QED
  BY <1>4, <1>5, <1>6, <1>8, <1>9

(* The new token is its grant's first when an exchange made it: nobody else was  *)
(* to make one of that grant, and nothing had been made of it.                *)
LEMMA CreateSound ==
  ASSUME Inv, NEW r \in Requests, Create(r)
  PROVE  Inv'
<1> DEFINE i == issuing[r]
           made(t) == [grant |-> i.grant, client |-> i.client, user |-> i.user, revoked |-> FALSE,
                       expiresAt |-> now + TokenExpiry, first |-> call[r].op = "exchange"]
<1> USE DEF Inv, TokensSound
<1>1. i \in Issue /\ i # Null /\ call[r] \in ExchangeCall \cup RefreshCall
  BY DEF Create, Control, TypeOK
<1>2. pc[r] = "create" /\ Done(r) /\ UNCHANGED <<now, users, pending, granted>>
  BY DEF Create
<1>3. CASE ~UserExists(i.user)
  <2>1. UNCHANGED tokens
    BY <1>3 DEF Create
  <2>2. TypeOK'
    BY <1>2, <2>1 DEF Done, TypeOK
  <2>3. (CodeYieldsOnce /\ TokenKeepsItsGrant /\ NoTokenOfTheGone)'
    BY <1>2, <2>1 DEF CodeYieldsOnce, TokenKeepsItsGrant, NoTokenOfTheGone, TokensOf, Made
  <2>4. (\A q \in Requests : Control(q))'
    BY <1>2 DEF Done, Control, TypeOK
  <2>5. PendingIsGranted' /\ IssuedIsGranted'
    BY <1>2, <2>1 DEF Done, PendingIsGranted, IssuedIsGranted, Exchanging, Untouched, Reaches, TokensOf, TypeOK
  <2> QED
    BY <2>2, <2>3, <2>4, <2>5
<1>4. CASE UserExists(i.user)
  <2>1. PICK t \in TokenIds \ Made : tokens' = [tokens EXCEPT ![t] = made(t)]
    BY <1>4 DEF Create
  <2>2. made(t) \in Token
    BY <1>1, OAuthAssumption DEF TypeOK, Token, Issue
  <2>3. tokens[t] = Null /\ tokens'[t] = made(t) /\ made(t) # Null
        /\ \A s \in TokenIds \ {t} : tokens'[s] = tokens[s]
    BY <2>1, <2>2, OAuthAssumption DEF TypeOK, Made
  <2>4. Made' = Made \cup {t} /\ \A c \in Codes : TokensOf(c)' = TokensOf(c) \cup (IF c = i.grant THEN {t} ELSE {})
    BY <2>3, <1>1 DEF Made, TokensOf
  <2>5. TypeOK'
    BY <1>2, <2>1, <2>2 DEF Done, TypeOK
  <2>6. CodeYieldsOnce'
    <3>1. made(t).first => TokensOf(i.grant) = {}
      BY <1>2 DEF IssuedIsGranted, Exchanging, Untouched
    <3> QED
      BY <2>3, <2>4, <3>1, <1>1 DEF CodeYieldsOnce, TokensOf
  <2>7. TokenKeepsItsGrant'
    <3>1. granted[i.grant] = [client |-> i.client, user |-> i.user]
      BY <1>1 DEF IssuedIsGranted
    <3>2. \A s \in Made : s \in TokenIds /\ s # t
      BY <2>1 DEF Made
    <3> QED
      BY <1>2, <2>3, <2>4, <3>1, <3>2 DEF TokenKeepsItsGrant
  <2>8. NoTokenOfTheGone'
    BY <1>2, <1>4, <2>3, <2>4 DEF NoTokenOfTheGone, UserExists, Made
  <2>9. (\A q \in Requests : Control(q))'
    BY <1>2 DEF Done, Control, TypeOK
  <2>10. PendingIsGranted'
    <3>1. pending[i.grant] = Null
      BY <1>1 DEF PendingIsGranted, Untouched, Reaches, Issue
    <3> QED
      BY <1>1, <1>2, <2>4, <3>1 DEF Done, PendingIsGranted, Untouched, Reaches, TypeOK
  <2>11. IssuedIsGranted'
    <3>1. \A q \in Requests \ {r} : Exchanging(q) => issuing[q].grant # i.grant /\ issuing[q].grant \in Codes
      <4> SUFFICES ASSUME NEW q \in Requests \ {r}, Exchanging(q)
                   PROVE  issuing[q].grant # i.grant /\ issuing[q].grant \in Codes
        OBVIOUS
      <4>1. issuing[q] \in Issue
        BY DEF Exchanging, TypeOK
      <4>2. ~Reaches(r, issuing[q].grant)
        BY DEF IssuedIsGranted, Untouched
      <4> QED
        BY <1>1, <4>1, <4>2 DEF Reaches, Issue
    <3> QED
      BY <1>2, <2>4, <3>1 DEF Done, IssuedIsGranted, Exchanging, Untouched, Reaches, TypeOK
  <2> QED
    BY <2>5, <2>6, <2>7, <2>8, <2>9, <2>10, <2>11
<1> QED
  BY <1>3, <1>4

LEMMA FailSound ==
  ASSUME Inv, NEW r \in Requests, Fail(r)
  PROVE  Inv'
<1> USE DEF Inv, TokensSound
<1>2. TypeOK'
  BY OAuthAssumption DEF Fail, Done, TypeOK
<1>3. (CodeYieldsOnce /\ TokenKeepsItsGrant /\ NoTokenOfTheGone)'
  BY OAuthAssumption DEF Fail, CodeYieldsOnce, TokenKeepsItsGrant, NoTokenOfTheGone, TokensOf, Made
<1>4. (\A q \in Requests : Control(q))'
  BY OAuthAssumption DEF Fail, Done, Control, TypeOK
<1>5. PendingIsGranted'
  BY OAuthAssumption DEF Fail, Done, PendingIsGranted, IssuedIsGranted, Untouched, Reaches, TokensOf, TypeOK
<1>6. IssuedIsGranted'
  BY OAuthAssumption DEF Fail, Done, PendingIsGranted, IssuedIsGranted, Exchanging, Untouched, Reaches, TokensOf, TypeOK
<1> QED
  BY <1>2, <1>3, <1>4, <1>5, <1>6

LEMMA RestartSound ==
  ASSUME Inv, Restart
  PROVE  Inv'
<1> USE DEF Inv, TokensSound
<1>2. TypeOK'
  BY OAuthAssumption DEF Restart, TypeOK
<1>3. (CodeYieldsOnce /\ TokenKeepsItsGrant /\ NoTokenOfTheGone)'
  BY OAuthAssumption DEF Restart, CodeYieldsOnce, TokenKeepsItsGrant, NoTokenOfTheGone, TokensOf, Made
<1>4. (\A q \in Requests : Control(q))'
  BY OAuthAssumption DEF Restart, Control, TypeOK
<1>5. PendingIsGranted'
  BY OAuthAssumption DEF Restart, PendingIsGranted, IssuedIsGranted, Untouched, Reaches, TokensOf, TypeOK
<1>6. IssuedIsGranted'
  BY OAuthAssumption DEF Restart, PendingIsGranted, IssuedIsGranted, Exchanging, Untouched, Reaches, TokensOf, TypeOK
<1> QED
  BY <1>2, <1>3, <1>4, <1>5, <1>6

LEMMA DeleteUserSound ==
  ASSUME Inv, DeleteUser
  PROVE  Inv'
<1> USE DEF Inv, TokensSound
<1>2. TypeOK'
  BY OAuthAssumption DEF DeleteUser, TypeOK
<1>3. (CodeYieldsOnce /\ TokenKeepsItsGrant /\ NoTokenOfTheGone)'
  BY OAuthAssumption DEF DeleteUser, TypeOK, Token, CodeYieldsOnce, TokenKeepsItsGrant, NoTokenOfTheGone, TokensOf, Made
<1>4. (\A q \in Requests : Control(q))'
  BY OAuthAssumption DEF DeleteUser, Control, TypeOK
<1>5. PendingIsGranted'
  BY OAuthAssumption DEF DeleteUser, Token, PendingIsGranted, IssuedIsGranted, Untouched, Reaches, TokensOf, TypeOK
<1>6. IssuedIsGranted'
  BY OAuthAssumption DEF DeleteUser, Token, PendingIsGranted, IssuedIsGranted, Exchanging, Untouched, Reaches, TokensOf, TypeOK
<1> QED
  BY <1>2, <1>3, <1>4, <1>5, <1>6

-----------------------------------------------------------------------------
LEMMA StutterSound ==
  ASSUME Inv, UNCHANGED vars
  PROVE  Inv'
BY DEF vars, Inv, TokensSound, TypeOK, CodeYieldsOnce, TokenKeepsItsGrant, NoTokenOfTheGone, TokensOf, Made,
  Control, PendingIsGranted, IssuedIsGranted, Exchanging, Untouched, Reaches

LEMMA StepSound == Inv /\ [Next]_vars => Inv'
<1> SUFFICES ASSUME Inv, [Next]_vars PROVE Inv'
  OBVIOUS
<1>1. CASE World
  BY <1>1, TickSound, AuthorizeSound, RestartSound, DeleteUserSound DEF World
<1>2. ASSUME NEW r \in Requests, Handle(r) PROVE Inv'
  BY <1>2, BeginSound, ExchangeSound, FindForRefreshSound, FindForRevokeSound, RevokeSound, CreateSound,
    FailSound DEF Handle
<1>3. CASE UNCHANGED vars
  BY <1>3, StutterSound
<1> QED
  BY <1>1, <1>2, <1>3 DEF Next

(* exchangeAuthorizationCode, refresh, issueTokenPair and the foreign key,     *)
(* handlers interleaved, failing and restarted: a code yields one token, a     *)
(* token is that of its grant, and of a user there is.                       *)
THEOREM TokensAreSound == Spec => []TokensSound
<1>1. Inv => TokensSound
  BY DEF Inv
<1> QED
  BY InitSound, StepSound, <1>1, PTL DEF Spec

-----------------------------------------------------------------------------
(* A grant all of whose tokens are revoked is revoked for good, served at once  *)
(* or not: what could issue of it once more finds neither a code nor a live   *)
(* token.                                                                  *)
LEMMA RevocationsHold ==
  ASSUME Inv, [Next]_vars
  PROVE  RevokedForGood
<1> SUFFICES ASSUME NEW c \in Codes, TokensOf(c) # {}, \A t \in TokensOf(c) : ~Live(t),
                    \A r \in Requests : ~Reaches(r, c),
                    NEW q \in Requests
             PROVE  issuing'[q] = Null \/ issuing'[q].grant # c
  BY DEF RevokedForGood
<1> USE DEF Inv, TokensSound
<1>1. issuing[q] = Null \/ issuing[q].grant # c
  BY DEF Reaches
<1>2. CASE World \/ UNCHANGED vars
  BY <1>1, <1>2 DEF World, Tick, Authorize, Restart, DeleteUser, vars
<1>3. ASSUME NEW r \in Requests, Handle(r) PROVE issuing'[q] = Null \/ issuing'[q].grant # c
  <2>1. CASE Begin(r) \/ FindForRevoke(r) \/ Revoke(r) \/ Create(r) \/ Fail(r)
    BY <1>1, <2>1 DEF Begin, FindForRevoke, Revoke, Create, Fail, Goto, Done, TypeOK
  <2>2. CASE Exchange(r)
    <3>1. call[r].code \in Codes /\ pending[c] = Null
      BY <2>2 DEF Exchange, Control, ExchangeCall, PendingIsGranted, Untouched
    <3> QED
      BY <1>1, <2>2, <3>1 DEF Exchange, Goto, Done, TypeOK
  <2>3. CASE FindForRefresh(r)
    <3>1. call[r].token \in TokenIds
      BY <2>3 DEF FindForRefresh, Control, RefreshCall
    <3>2. Usable(tokens[call[r].token], call[r].client) => tokens[call[r].token].grant # c
      BY <3>1 DEF Usable, TokensOf, Live
    <3> QED
      BY <1>1, <2>3, <3>2 DEF FindForRefresh, Goto, Done, TypeOK
  <2> QED
    BY <1>3, <2>1, <2>2, <2>3 DEF Handle
<1> QED
  BY <1>2, <1>3 DEF Next

(* revoke and revokeToken, handlers interleaved, failing and restarted.        *)
THEOREM GrantsRevokedForGood == Spec => [][RevokedForGood]_vars
<1>1. Inv /\ [Next]_vars => [RevokedForGood]_vars
  BY RevocationsHold
<1> QED
  BY InitSound, StepSound, <1>1, PTL DEF Spec

-----------------------------------------------------------------------------
(* Calls served one at a time *)

AtMostOne == \A q, r \in Requests : pc[q] # "idle" /\ pc[r] # "idle" => q = r

(* A live token of the grant a handler issues of is the one it rotates.         *)
Rotates(r) ==
  issuing[r] # Null =>
    \A t \in TokensOf(issuing[r].grant) : Live(t) => pc[r] = "rotate" /\ t = call[r].token

Replaces == \A r \in Requests : Rotates(r)

SerialInv == Inv /\ OneLiveToken /\ AtMostOne /\ Replaces

LEMMA SerialInit == Init => SerialInv
BY InitSound DEF Init, SerialInv, OneLiveToken, AtMostOne, Replaces, Rotates, TokensOf

(* The handlers beside the one that acts are idle, and so issue nothing.       *)
LEMMA OthersIdle ==
  ASSUME TypeOK, NEW r \in Requests, Alone(r), Handle(r), NEW q \in Requests \ {r}
  PROVE  pc[q] = "idle" /\ issuing[q] = Null /\ pc'[q] = "idle" /\ issuing'[q] = Null
<1>1. pc[q] = "idle" /\ issuing[q] = Null
  BY DEF Alone, TypeOK
<1> QED
  BY <1>1 DEF Handle, Begin, Exchange, FindForRefresh, FindForRevoke, Revoke, Create, Fail, Goto, Done, TypeOK

LEMMA SerialHandle ==
  ASSUME SerialInv, NEW r \in Requests, Alone(r), Handle(r)
  PROVE  (OneLiveToken /\ AtMostOne /\ Replaces)'
<1> USE DEF SerialInv, Inv, TokensSound
<1>1. AtMostOne'
  BY OthersIdle DEF AtMostOne
<1>2. Rotates(r)' => Replaces'
  BY OthersIdle DEF Replaces, Rotates
<1>3. CASE Begin(r) \/ FindForRevoke(r) \/ Fail(r)
  <2>1. UNCHANGED tokens /\ issuing'[r] = Null
    BY <1>3 DEF Begin, FindForRevoke, Fail, Done, TypeOK
  <2> QED
    BY <1>1, <1>2, <2>1 DEF OneLiveToken, Rotates, TokensOf, Live
<1>4. CASE Exchange(r)
  <2>1. UNCHANGED tokens /\ call[r].code \in Codes
    BY <1>4 DEF Exchange, Control, ExchangeCall
  <2>2. issuing'[r] # Null => issuing'[r].grant = call[r].code /\ TokensOf(call[r].code) = {}
    BY <1>4, <2>1 DEF Exchange, Goto, Done, TypeOK, PendingIsGranted, Untouched
  <2>3. Rotates(r)' /\ OneLiveToken'
    BY <2>1, <2>2 DEF OneLiveToken, Rotates, TokensOf, Live
  <2> QED
    BY <1>1, <1>2, <2>3
<1>5. CASE FindForRefresh(r)
  <2>1. UNCHANGED tokens /\ call[r].token \in TokenIds
    BY <1>5 DEF FindForRefresh, Control, RefreshCall
  <2>2. issuing'[r] # Null =>
          /\ pc'[r] = "rotate" /\ call'[r] = call[r]
          /\ issuing'[r].grant = tokens[call[r].token].grant
          /\ tokens[call[r].token].grant \in Codes
          /\ call[r].token \in TokensOf(tokens[call[r].token].grant) /\ Live(call[r].token)
    BY <1>5, <2>1 DEF FindForRefresh, Goto, Done, Usable, TypeOK, TokensOf, Live, Token
  <2>3. OneLiveToken'
    BY <2>1 DEF OneLiveToken, TokensOf, Live
  <2>4. Rotates(r)'
    BY <2>1, <2>2 DEF OneLiveToken, Rotates, TokensOf, Live
  <2> QED
    BY <1>1, <1>2, <2>3, <2>4
<1>6. CASE Revoke(r)
  <2>1. call[r].token \in TokenIds /\ tokens' = Revoked(call[r].token)
    BY <1>6 DEF Revoke, Control, RefreshCall, RevokeCall, AdminCall
  <2>2. \A s \in TokenIds :
          /\ (tokens'[s] = Null <=> tokens[s] = Null)
          /\ tokens[s] # Null => tokens'[s].grant = tokens[s].grant
    BY <2>1, RevokedKeeps
  <2>3. \A s \in TokenIds : Live(s)' => Live(s) /\ s # call[r].token
    BY <2>1 DEF Live, Revoked, TypeOK, Token
  <2>4. \A c : TokensOf(c)' = TokensOf(c)
    BY <2>2 DEF TokensOf
  <2>5. issuing'[r] # Null => issuing'[r] = issuing[r] /\ issuing[r].grant \in Codes
    BY <1>6 DEF Revoke, Goto, Done, TypeOK, Issue
  <2>6. OneLiveToken'
    BY <2>3, <2>4 DEF OneLiveToken, TokensOf
  <2>7. issuing'[r] # Null => pc[r] = "rotate"
    BY <1>6 DEF Revoke, Goto, Done, TypeOK
  <2>8. Rotates(r)'
    BY <2>3, <2>4, <2>5, <2>7 DEF Replaces, Rotates, TokensOf
  <2> QED
    BY <1>1, <1>2, <2>6, <2>8
<1>7. CASE Create(r)
  <2>1. issuing[r] \in Issue /\ issuing[r] # Null /\ issuing'[r] = Null /\ pc[r] = "create"
    BY <1>7 DEF Create, Done, TypeOK
  <2>2. \A t \in TokensOf(issuing[r].grant) : ~Live(t)
    BY <2>1 DEF Replaces, Rotates
  <2>3. OneLiveToken'
    <3>1. CASE UNCHANGED tokens
      BY <3>1 DEF OneLiveToken, TokensOf, Live
    <3>2. CASE tokens' # tokens
      <4>1. PICK t \in TokenIds \ Made : tokens' = [tokens EXCEPT ![t] =
              [grant |-> issuing[r].grant, client |-> issuing[r].client, user |-> issuing[r].user, revoked |-> FALSE,
               expiresAt |-> now + TokenExpiry, first |-> call[r].op = "exchange"]]
        BY <1>7, <3>2 DEF Create
      <4>2. tokens'[t].grant = issuing[r].grant /\ \A s \in TokenIds \ {t} : tokens'[s] = tokens[s]
        BY <4>1 DEF TypeOK
      <4> QED
        BY <2>1, <2>2, <4>2 DEF OneLiveToken, TokensOf, Live, Issue
    <3> QED
      BY <3>1, <3>2
  <2> QED
    BY <1>1, <1>2, <2>1, <2>3 DEF Rotates
<1> QED
  BY <1>3, <1>4, <1>5, <1>6, <1>7 DEF Handle

LEMMA SerialWorld ==
  ASSUME SerialInv, World \/ UNCHANGED vars
  PROVE  (OneLiveToken /\ AtMostOne /\ Replaces)'
<1> USE DEF SerialInv, Inv, TokensSound
<1>1. CASE Tick \/ Authorize \/ UNCHANGED vars
  BY <1>1 DEF Tick, Authorize, vars, OneLiveToken, AtMostOne, Replaces, Rotates, TokensOf, Live
<1>2. CASE Restart
  BY <1>2 DEF Restart, OneLiveToken, AtMostOne, Replaces, Rotates, TokensOf, Live
<1>3. CASE DeleteUser
  <2>1. \A t \in TokenIds : tokens'[t] = Null \/ tokens'[t] = tokens[t]
    BY <1>3 DEF DeleteUser
  <2>2. \A c : \A t \in TokensOf(c)' : t \in TokensOf(c) /\ (Live(t)' => Live(t))
    BY <2>1 DEF TokensOf, Live
  <2>3. UNCHANGED <<pc, call, issuing>>
    BY <1>3 DEF DeleteUser
  <2> QED
    BY <2>2, <2>3 DEF OneLiveToken, AtMostOne, Replaces, Rotates
<1> QED
  BY <1>1, <1>2, <1>3 DEF World

LEMMA SerialStep == SerialInv /\ [SerialNext]_vars => SerialInv'
<1> SUFFICES ASSUME SerialInv, [SerialNext]_vars PROVE SerialInv'
  OBVIOUS
<1>1. Inv'
  BY StepSound DEF SerialInv, SerialNext, Next
<1>2. (OneLiveToken /\ AtMostOne /\ Replaces)'
  BY SerialHandle, SerialWorld DEF SerialNext
<1> QED
  BY <1>1, <1>2 DEF SerialInv

(* refresh and revoke, calls served one at a time, broken off anywhere and over  *)
(* restarts: the token a refresh brings is the only live one of its grant.    *)
THEOREM OneLiveTokenInTurn == SerialSpec => []OneLiveToken
<1>1. SerialInv => OneLiveToken
  BY DEF SerialInv
<1> QED
  BY SerialInit, SerialStep, <1>1, PTL DEF SerialSpec

-----------------------------------------------------------------------------
(* Accounts: what a handler knows at each of its steps was checked before.    *)

OnAccounts == {"update", "status", "delete"}
Reading    == {"email", "count", "write"}

(* The role a call names, and the account it is about, are its caller's to      *)
(* name and to act on.                                                      *)
CheckedCall(b) ==
  LET c == adminCall[b]
  IN /\ adminPc[b] # "idle" => c \in Table!Call
     /\ adminPc[b] = "guard" => c.op \notin Table!Anonymous
     /\ adminPc[b] = "find" => c.op \in OnAccounts
     /\ adminPc[b] = "email" => c.op \in {"create", "update", "register", "boot"}
     /\ adminPc[b] = "count" => c.op \in OnAccounts \cup {"boot"}
     /\ (adminPc[b] \in Reading /\ c.op = "create") => Table!MaySetRole(c, as[b])
     /\ (adminPc[b] = "write" /\ c.op = "update") => Table!MaySetRole(c, as[b])
     /\ (adminPc[b] \in Reading /\ c.op \in OnAccounts) =>
          adminRow[b] \in Table!Row /\ Table!MayActOn(adminRow[b], c, as[b])

OneEmailEach ==
  \A i, j \in AccountIds :
    accounts[i] # Null /\ accounts[j] # Null /\ accounts[i].email = accounts[j].email => i = j

AccountsKnown == Table!TypeOK /\ OneEmailEach /\ \A b \in Backends : CheckedCall(b)

(* In turn, the row a handler loaded is the row there is, and before it writes *)
(* another administrator is left.                                           *)
StillTrue(b) ==
  LET c == adminCall[b]
  IN adminPc[b] \in Reading /\ c.op \in OnAccounts =>
       /\ accounts[c.on] = adminRow[b]
       /\ adminPc[b] = "write" => Table!AdminLeft(c, adminRow[b])

OneServed == \A a, b \in Backends : Table!Quiet(a) \/ Table!Quiet(b) \/ a = b

AccountsInTurn == OneServed /\ \A b \in Backends : StillTrue(b)

(* While backends start, whoever is an administrator is the default one.       *)
Starting ==
  /\ OnlyStarting
  /\ \A i \in Table!Admins(accounts) : accounts[i].email = AdminEmail
  /\ (\E b \in Backends : adminPc[b] = "ok" /\ adminCall[b].op = "boot") => Table!Admins(accounts) # {}

AccountsInv ==
  /\ part \in {"table", "tableInTurn", "boot"} => AccountsKnown
  /\ part = "tableInTurn" => AccountsInTurn
  /\ part = "boot" => Starting

-----------------------------------------------------------------------------
LEMMA AccountAssumptions ==
  /\ Null \notin Table!Call /\ Null \notin Table!Row /\ Null \notin AccountIds
  /\ Null \notin Emails /\ Null \notin Table!Roles
  /\ AdminEmail \in Emails /\ AccountCalls \subseteq Table!Call
  /\ \A s \in AccountSeeds :
       /\ s \in [AccountIds -> Table!Row \cup {Null}]
       /\ \A i, j \in AccountIds : (i # j /\ s[i] # Null /\ s[j] # Null) => s[i].email # s[j].email
BY IdentityAssumption DEF Table!AccountsAssumption

LEMMA CallKinds ==
  ASSUME NEW c \in Table!Call
  PROVE  /\ c.op \in {"create", "update", "status", "delete", "register", "boot"}
         /\ c.op = "create" => c \in Table!CreateCall
         /\ c.op = "update" => c \in Table!UpdateCall
         /\ c.op = "status" => c \in Table!StatusCall
         /\ c.op = "delete" => c \in Table!DeleteCall
         /\ c.op = "register" => c \in Table!RegisterCall
         /\ c.op \in OnAccounts => c.on \in AccountIds
BY DEF Table!Call, Table!CreateCall, Table!UpdateCall, Table!StatusCall, Table!DeleteCall, Table!RegisterCall,
  Table!BootCall, OnAccounts

LEMMA PatchedRow ==
  ASSUME NEW x \in Table!Row, NEW c \in Table!Call, c.op \in {"update", "status"}
  PROVE  /\ Table!Patched(x, c) \in Table!Row
         /\ c.op = "status" => /\ Table!Patched(x, c).role = x.role
                               /\ Table!Patched(x, c).active <=> c.active
         /\ c.op = "update" => /\ Table!Patched(x, c).role = IF c.role = Null THEN x.role ELSE c.role
                               /\ Table!Patched(x, c).active <=> x.active
<1>1. CASE c.op = "status"
  <2>1. c.active \in BOOLEAN /\ Table!Patched(x, c) = [x EXCEPT !.active = c.active]
    BY <1>1, CallKinds DEF Table!StatusCall, Table!Patched
  <2> QED
    BY <1>1, <2>1 DEF Table!Row
<1>2. CASE c.op = "update"
  <2> DEFINE email == IF c.email = Null THEN x.email ELSE c.email
             named == IF c.role = Null THEN x.role ELSE c.role
  <2>1. email \in Emails /\ named \in Table!Roles
    BY <1>2, CallKinds DEF Table!UpdateCall, Table!Row
  <2>2. Table!Patched(x, c) = [x EXCEPT !.email = email, !.role = named]
    BY <1>2 DEF Table!Patched
  <2>3. named = IF c.role = Null THEN x.role ELSE c.role
    OBVIOUS
  <2> HIDE DEF email, named
  <2> QED
    BY <1>2, <2>1, <2>2, <2>3 DEF Table!Row
<1> QED
  BY <1>1, <1>2

LEMMA NewRowOf ==
  ASSUME NEW c \in Table!Call, c.op \in {"create", "register", "boot"}
  PROVE  /\ Table!NewRow(c) \in Table!Row
         /\ Table!NewRow(c).role = "admin" => c.op = "boot" \/ (c.op = "create" /\ c.role = "admin")
         /\ c.op = "boot" => Table!NewRow(c).role = "admin" /\ Table!NewRow(c).email = AdminEmail
<1>1. CASE c.op = "create"
  BY <1>1, CallKinds, AccountAssumptions DEF Table!CreateCall, Table!NewRow, Table!Row, Table!Roles
<1>2. CASE c.op = "register"
  BY <1>2, CallKinds DEF Table!RegisterCall, Table!NewRow, Table!Row, Table!Roles
<1>3. CASE c.op = "boot"
  BY <1>3, AccountAssumptions DEF Table!NewRow, Table!Row, Table!Roles
<1> QED
  BY <1>1, <1>2, <1>3

LEMMA AccountsBegin ==
  ASSUME Table!Init
  PROVE  AccountsKnown /\ AccountsInTurn
<1>1. PICK s \in AccountSeeds : accounts = s
  BY DEF Table!Init
<1>2. Table!TypeOK
  BY <1>1, AccountAssumptions DEF Table!Init, Table!TypeOK, Table!Steps
<1>3. OneEmailEach
  BY <1>1, AccountAssumptions DEF OneEmailEach
<1>4. \A b \in Backends : adminPc[b] = "idle"
  BY DEF Table!Init
<1> QED
  BY <1>2, <1>3, <1>4 DEF AccountsKnown, CheckedCall, AccountsInTurn, OneServed, StillTrue, Table!Quiet, Reading

(* Beside the handler that goes on, every other one stays where it is.         *)
LEMMA OtherBackends ==
  ASSUME AccountsKnown, NEW b \in Backends, Table!Begin(b) \/ Table!Step(b)
  PROVE  \A a \in Backends \ {b} :
           adminPc'[a] = adminPc[a] /\ adminCall'[a] = adminCall[a] /\ as'[a] = as[a] /\ adminRow'[a] = adminRow[a]
BY DEF AccountsKnown, Table!TypeOK, Table!Begin, Table!Step, Table!Guard, Table!Find, Table!CheckEmail, Table!Count,
  Table!Insert, Table!Write, Table!Fail, Table!Proceed, Table!Goto, Table!Locals

LEMMA CallStays ==
  ASSUME AccountsKnown, NEW b \in Backends, Table!Begin(b) \/ Table!Step(b), CheckedCall(b)'
  PROVE  \A a \in Backends : CheckedCall(a)'
<1> SUFFICES ASSUME NEW a \in Backends \ {b} PROVE CheckedCall(a)'
  OBVIOUS
<1>1. adminPc'[a] = adminPc[a] /\ adminCall'[a] = adminCall[a] /\ as'[a] = as[a] /\ adminRow'[a] = adminRow[a]
  BY OtherBackends
<1>2. CheckedCall(a)
  BY DEF AccountsKnown
<1> QED
  BY <1>1, <1>2 DEF CheckedCall

LEMMA BeginAccounts ==
  ASSUME AccountsKnown, NEW b \in Backends, Table!Begin(b)
  PROVE  AccountsKnown'
<1>1. PICK c \in AccountCalls :
        /\ c.op \notin Table!Anonymous => role[c.actor] # Null
        /\ adminCall' = [adminCall EXCEPT ![b] = c]
        /\ as' = [as EXCEPT ![b] = IF c.op \in Table!Anonymous THEN Null ELSE role[c.actor]]
        /\ adminPc' = [adminPc EXCEPT ![b] = CASE c.op = "boot" -> "count" [] c.op = "register" -> "email"
                                               [] OTHER -> "guard"]
  BY DEF Table!Begin, Table!Goto
<1>2. c \in Table!Call /\ UNCHANGED <<accounts, issued, role, adminRow>>
  BY AccountAssumptions DEF Table!Begin
<1>3. c.op \notin Table!Anonymous => role[c.actor] \in Table!Roles
  BY <1>1, <1>2 DEF AccountsKnown, Table!TypeOK, Table!Call, Table!CreateCall, Table!UpdateCall, Table!StatusCall,
    Table!DeleteCall, Table!RegisterCall, Table!BootCall, Table!Anonymous
<1>4. Table!TypeOK'
  <2>1. accounts' \in [AccountIds -> Table!Row \cup {Null}] /\ adminRow' \in [Backends -> Table!Row \cup {Null}]
        /\ role' \in [AccountIds -> Table!Roles \cup {Null}]
        /\ issued' \subseteq AccountIds /\ \A i \in AccountIds : accounts'[i] # Null => i \in issued'
    BY <1>2 DEF AccountsKnown, Table!TypeOK
  <2>2. adminCall' \in [Backends -> Table!Call \cup {Null}]
    BY <1>1, <1>2 DEF AccountsKnown, Table!TypeOK
  <2>3. as' \in [Backends -> Table!Roles \cup {Null}]
    BY <1>1, <1>3 DEF AccountsKnown, Table!TypeOK
  <2>4. adminPc' \in [Backends -> Table!Steps \cup Table!Answers]
    BY <1>1 DEF AccountsKnown, Table!TypeOK, Table!Steps
  <2> QED
    BY <2>1, <2>2, <2>3, <2>4 DEF Table!TypeOK
<1>5. CheckedCall(b)'
  <2>1. /\ adminCall'[b] = c
        /\ adminPc'[b] = CASE c.op = "boot" -> "count" [] c.op = "register" -> "email" [] OTHER -> "guard"
    BY <1>1 DEF AccountsKnown, Table!TypeOK
  <2> QED
    BY <1>2, <2>1, CallKinds DEF CheckedCall, Table!Anonymous, Reading, OnAccounts
<1> QED
  BY <1>2, <1>4, <1>5, CallStays DEF AccountsKnown, OneEmailEach

LEMMA GoOn ==
  ASSUME AccountsKnown, NEW b \in Backends, NEW step \in Table!Steps \cup Table!Answers,
         Table!Goto(b, step), UNCHANGED <<accounts, issued, role, adminCall, as>>,
         adminRow' \in [Backends -> Table!Row \cup {Null}]
  PROVE  /\ Table!TypeOK' /\ OneEmailEach'
         /\ adminPc'[b] = step /\ adminCall'[b] = adminCall[b] /\ as'[b] = as[b]
BY DEF AccountsKnown, Table!TypeOK, OneEmailEach, Table!Goto

LEMMA GuardAccounts ==
  ASSUME AccountsKnown, NEW b \in Backends, Table!Guard(b)
  PROVE  AccountsKnown'
<1> DEFINE c == adminCall[b]
<1>1. /\ adminPc[b] = "guard" /\ UNCHANGED <<accounts, issued, role, adminCall, as, adminRow>>
      /\ \/ Table!Goto(b, "refused")
         \/ c.op = "create" /\ Table!MaySetRole(c, as[b]) /\ Table!Goto(b, "email")
         \/ c.op # "create" /\ Table!Goto(b, "find")
  BY DEF Table!Guard, Table!Proceed, Table!Locals
<1>2. c \in Table!Call /\ c.op \notin Table!Anonymous
  BY <1>1 DEF AccountsKnown, CheckedCall
<1>3. adminRow' \in [Backends -> Table!Row \cup {Null}]
  BY <1>1 DEF AccountsKnown, Table!TypeOK
<1>4. /\ Table!TypeOK' /\ OneEmailEach' /\ adminCall'[b] = c /\ as'[b] = as[b]
      /\ \/ adminPc'[b] = "refused"
         \/ c.op = "create" /\ Table!MaySetRole(c, as[b]) /\ adminPc'[b] = "email"
         \/ c.op # "create" /\ adminPc'[b] = "find"
  BY <1>1, <1>3, GoOn DEF Table!Steps, Table!Answers
<1>5. CheckedCall(b)'
  BY <1>2, <1>4, CallKinds DEF CheckedCall, Table!Anonymous, Reading, OnAccounts
<1> QED
  BY <1>4, <1>5, CallStays DEF AccountsKnown, Table!Step

LEMMA FindAccounts ==
  ASSUME AccountsKnown, NEW b \in Backends, Table!Find(b)
  PROVE  /\ AccountsKnown' /\ UNCHANGED accounts
         /\ adminPc'[b] # "refused" => adminRow'[b] = accounts[adminCall[b].on]
<1> DEFINE c == adminCall[b]
           x == accounts[c.on]
<1>1. /\ adminPc[b] = "find" /\ UNCHANGED <<accounts, issued, role, adminCall, as>>
      /\ adminRow' = [adminRow EXCEPT ![b] = x]
      /\ \/ Table!Goto(b, "refused")
         \/ /\ x # Null /\ Table!MayActOn(x, c, as[b])
            /\ Table!Goto(b, "count") \/ (c.op = "update" /\ Table!Goto(b, "email"))
  BY DEF Table!Find, Table!Proceed
<1>2. c \in Table!Call /\ c.op \in OnAccounts /\ c.on \in AccountIds /\ x \in Table!Row \cup {Null}
  BY <1>1, CallKinds DEF AccountsKnown, CheckedCall, Table!TypeOK
<1>3. adminRow' \in [Backends -> Table!Row \cup {Null}] /\ adminRow'[b] = x
  BY <1>1, <1>2 DEF AccountsKnown, Table!TypeOK
<1>4. /\ Table!TypeOK' /\ OneEmailEach' /\ adminCall'[b] = c /\ as'[b] = as[b]
      /\ \/ adminPc'[b] = "refused"
         \/ /\ x # Null /\ Table!MayActOn(x, c, as[b])
            /\ adminPc'[b] = "count" \/ (c.op = "update" /\ adminPc'[b] = "email")
  BY <1>1, <1>3, GoOn DEF Table!Steps, Table!Answers
<1>5. CheckedCall(b)'
  BY <1>2, <1>3, <1>4 DEF CheckedCall, Table!Anonymous, Reading, OnAccounts
<1> QED
  BY <1>1, <1>3, <1>4, <1>5, CallStays DEF AccountsKnown, Table!Step

LEMMA CheckEmailAccounts ==
  ASSUME AccountsKnown, NEW b \in Backends, Table!CheckEmail(b)
  PROVE  AccountsKnown'
<1> DEFINE c == adminCall[b]
<1>1. /\ adminPc[b] = "email" /\ UNCHANGED <<accounts, issued, role, adminCall, as, adminRow>>
      /\ \/ Table!Goto(b, "refused")
         \/ c.op = "update" /\ Table!Goto(b, "count")
         \/ c.op # "update" /\ Table!Goto(b, "write")
  BY DEF Table!CheckEmail, Table!Proceed, Table!Locals
<1>2. c \in Table!Call /\ c.op \in {"create", "update", "register", "boot"}
  BY <1>1 DEF AccountsKnown, CheckedCall
<1>3. adminRow' \in [Backends -> Table!Row \cup {Null}]
  BY <1>1 DEF AccountsKnown, Table!TypeOK
<1>4. /\ Table!TypeOK' /\ OneEmailEach' /\ adminCall'[b] = c /\ as'[b] = as[b] /\ adminRow'[b] = adminRow[b]
      /\ \/ adminPc'[b] = "refused"
         \/ c.op = "update" /\ adminPc'[b] = "count"
         \/ c.op # "update" /\ adminPc'[b] = "write"
  BY <1>1, <1>3, GoOn DEF Table!Steps, Table!Answers
<1>5. /\ c.op = "create" => Table!MaySetRole(c, as[b])
      /\ c.op \in OnAccounts => adminRow[b] \in Table!Row /\ Table!MayActOn(adminRow[b], c, as[b])
  BY <1>1 DEF AccountsKnown, CheckedCall, Reading
<1>6. CheckedCall(b)'
  BY <1>2, <1>4, <1>5 DEF CheckedCall, Reading, OnAccounts
<1> QED
  BY <1>4, <1>6, CallStays DEF AccountsKnown, Table!Step

LEMMA CountAccounts ==
  ASSUME AccountsKnown, NEW b \in Backends, Table!Count(b)
  PROVE  /\ AccountsKnown' /\ UNCHANGED <<accounts, adminRow>>
         /\ adminCall[b].op = "boot" /\ adminPc'[b] = "ok" => Table!Admins(accounts) # {}
         /\ adminCall[b].op # "boot" =>
              adminPc'[b] = "refused" \/ (adminPc'[b] = "write" /\ Table!AdminLeft(adminCall[b], adminRow[b]))
<1> DEFINE c == adminCall[b]
<1>1. /\ adminPc[b] = "count" /\ UNCHANGED <<accounts, issued, role, adminCall, as, adminRow>>
      /\ \/ c.op = "boot" /\ Table!Admins(accounts) # {} /\ Table!Goto(b, "ok")
         \/ c.op = "boot" /\ Table!Goto(b, "email")
         \/ c.op # "boot" /\ Table!Goto(b, "refused")
         \/ /\ c.op # "boot" /\ Table!MaySetRole(c, as[b]) /\ Table!AdminLeft(c, adminRow[b])
            /\ Table!Goto(b, "write")
  BY DEF Table!Count, Table!Proceed, Table!Locals
<1>2. c \in Table!Call /\ c.op \in OnAccounts \cup {"boot"}
  BY <1>1 DEF AccountsKnown, CheckedCall
<1>3. adminRow' \in [Backends -> Table!Row \cup {Null}]
  BY <1>1 DEF AccountsKnown, Table!TypeOK
<1>4. /\ Table!TypeOK' /\ OneEmailEach' /\ adminCall'[b] = c /\ as'[b] = as[b] /\ adminRow'[b] = adminRow[b]
      /\ \/ c.op = "boot" /\ Table!Admins(accounts) # {} /\ adminPc'[b] = "ok"
         \/ c.op = "boot" /\ adminPc'[b] = "email"
         \/ c.op # "boot" /\ adminPc'[b] = "refused"
         \/ /\ c.op # "boot" /\ Table!MaySetRole(c, as[b]) /\ Table!AdminLeft(c, adminRow[b])
            /\ adminPc'[b] = "write"
  BY <1>1, <1>3, GoOn DEF Table!Steps, Table!Answers
<1>5. c.op \in OnAccounts => adminRow[b] \in Table!Row /\ Table!MayActOn(adminRow[b], c, as[b])
  BY <1>1 DEF AccountsKnown, CheckedCall, Reading
<1>6. CheckedCall(b)'
  BY <1>2, <1>4, <1>5 DEF CheckedCall, Reading, OnAccounts
<1>7. AccountsKnown'
  BY <1>4, <1>6, CallStays DEF AccountsKnown, Table!Step
<1> QED
  BY <1>1, <1>4, <1>7

LEMMA InsertAccounts ==
  ASSUME AccountsKnown, NEW b \in Backends, Table!Insert(b)
  PROVE  /\ AccountsKnown' /\ adminPc[b] = "write" /\ adminCall'[b] = adminCall[b]
         /\ adminCall[b] \in Table!Call /\ adminCall[b].op \in {"create", "register", "boot"}
         /\ \/ UNCHANGED accounts /\ adminPc'[b] \in {"refused", "failed"}
            \/ /\ adminPc'[b] = "ok"
               /\ \E i \in AccountIds : /\ accounts[i] = Null
                                       /\ accounts' = [accounts EXCEPT ![i] = Table!NewRow(adminCall[b])]
<1> DEFINE c == adminCall[b]
           x == Table!NewRow(c)
<1>1. /\ adminPc[b] = "write" /\ c.op \in {"create", "register", "boot"}
      /\ UNCHANGED <<role, adminCall, as, adminRow>>
      /\ \/ (Table!Goto(b, "refused") \/ Table!Goto(b, "failed")) /\ UNCHANGED <<accounts, issued>>
         \/ /\ ~Table!Taken(x.email, Null) /\ Table!Goto(b, "ok")
            /\ \E i \in AccountIds \ issued : accounts' = [accounts EXCEPT ![i] = x] /\ issued' = issued \cup {i}
  BY DEF Table!Insert
<1>2. c \in Table!Call /\ x \in Table!Row
  BY <1>1, NewRowOf DEF AccountsKnown, CheckedCall
<1>3. adminRow' \in [Backends -> Table!Row \cup {Null}]
  BY <1>1 DEF AccountsKnown, Table!TypeOK
<1>4. ASSUME NEW step \in {"refused", "failed", "ok"}, Table!Goto(b, step)
      PROVE  adminPc' \in [Backends -> Table!Steps \cup Table!Answers] /\ adminPc'[b] = step
  BY <1>4 DEF AccountsKnown, Table!TypeOK, Table!Goto, Table!Answers
<1>5. adminPc'[b] \in {"refused", "failed", "ok"} /\ adminPc' \in [Backends -> Table!Steps \cup Table!Answers]
  BY <1>1, <1>4
<1>6. CheckedCall(b)'
  BY <1>1, <1>2, <1>5 DEF CheckedCall, Reading
<1>7. CASE UNCHANGED <<accounts, issued>>
  <2>1. Table!TypeOK' /\ OneEmailEach'
    BY <1>1, <1>3, <1>5, <1>7 DEF AccountsKnown, Table!TypeOK, OneEmailEach
  <2>2. AccountsKnown'
    BY <1>6, <2>1, CallStays DEF AccountsKnown, Table!Step
  <2>3. adminPc'[b] \in {"refused", "failed"}
    BY <1>1, <1>4, <1>7
  <2> QED
    BY <1>1, <1>2, <1>7, <2>2, <2>3
<1>8. ASSUME NEW i \in AccountIds \ issued, accounts' = [accounts EXCEPT ![i] = x], issued' = issued \cup {i},
             ~Table!Taken(x.email, Null), Table!Goto(b, "ok")
      PROVE  AccountsKnown' /\ adminPc'[b] = "ok" /\ accounts[i] = Null
  <2>1. accounts[i] = Null /\ adminPc'[b] = "ok"
    BY <1>4, <1>8 DEF AccountsKnown, Table!TypeOK
  <2>2. Table!TypeOK'
    BY <1>1, <1>2, <1>3, <1>5, <1>8 DEF AccountsKnown, Table!TypeOK
  <2>3. \A j \in AccountIds : accounts[j] # Null => accounts[j].email # x.email
    BY <1>8, AccountAssumptions DEF Table!Taken
  <2>4. OneEmailEach'
    BY <1>8, <2>3 DEF AccountsKnown, Table!TypeOK, OneEmailEach
  <2> QED
    BY <1>6, <2>1, <2>2, <2>4, CallStays DEF AccountsKnown, Table!Step
<1> QED
  BY <1>1, <1>2, <1>4, <1>7, <1>8

LEMMA WriteAccounts ==
  ASSUME AccountsKnown, NEW b \in Backends, Table!Write(b)
  PROVE  LET c == adminCall[b]
         IN /\ AccountsKnown' /\ adminPc[b] = "write" /\ adminCall' = adminCall
            /\ c \in Table!Call /\ c.op \in OnAccounts /\ c.on \in AccountIds
            /\ adminPc'[b] \in {"ok", "failed"}
            /\ \/ UNCHANGED accounts
               \/ /\ adminPc'[b] = "ok" /\ accounts[c.on] # Null
                  /\ \/ c.op = "delete" /\ accounts' = [accounts EXCEPT ![c.on] = Null]
                     \/ c.op # "delete" /\ accounts' = [accounts EXCEPT ![c.on] = Table!Patched(accounts[c.on], c)]
<1> DEFINE c == adminCall[b]
           x == Table!Patched(accounts[c.on], c)
<1>1. /\ adminPc[b] = "write" /\ c.op \in OnAccounts /\ UNCHANGED <<issued, role, adminCall, as, adminRow>>
      /\ \/ (Table!Goto(b, "ok") \/ Table!Goto(b, "failed")) /\ UNCHANGED accounts
         \/ /\ accounts[c.on] # Null /\ Table!Goto(b, "ok")
            /\ \/ c.op = "delete" /\ accounts' = [accounts EXCEPT ![c.on] = Null]
               \/ /\ c.op # "delete" /\ ~Table!Taken(x.email, c.on)
                  /\ accounts' = [accounts EXCEPT ![c.on] = x]
  BY DEF Table!Write, OnAccounts
<1>2. c \in Table!Call /\ c.on \in AccountIds
  BY <1>1, CallKinds DEF AccountsKnown, CheckedCall
<1>3. ASSUME NEW step \in {"failed", "ok"}, Table!Goto(b, step)
      PROVE  adminPc' \in [Backends -> Table!Steps \cup Table!Answers] /\ adminPc'[b] = step
  BY <1>3 DEF AccountsKnown, Table!TypeOK, Table!Goto, Table!Answers
<1>4. adminPc'[b] \in {"failed", "ok"} /\ adminPc' \in [Backends -> Table!Steps \cup Table!Answers]
  BY <1>1, <1>3
<1>5. CheckedCall(b)'
  BY <1>1, <1>2, <1>4 DEF CheckedCall, Reading
<1>6. CASE UNCHANGED accounts
  <2>1. Table!TypeOK' /\ OneEmailEach'
    BY <1>1, <1>4, <1>6 DEF AccountsKnown, Table!TypeOK, OneEmailEach
  <2> QED
    BY <1>1, <1>2, <1>4, <1>5, <1>6, <2>1, CallStays DEF AccountsKnown, Table!Step
<1>7. CASE accounts[c.on] # Null /\ c.op = "delete" /\ accounts' = [accounts EXCEPT ![c.on] = Null] /\ Table!Goto(b, "ok")
  <2>1. Table!TypeOK' /\ OneEmailEach'
    BY <1>1, <1>4, <1>7 DEF AccountsKnown, Table!TypeOK, OneEmailEach
  <2> QED
    BY <1>1, <1>2, <1>3, <1>5, <1>7, <2>1, CallStays DEF AccountsKnown, Table!Step
<1>8. CASE /\ accounts[c.on] # Null /\ c.op # "delete" /\ ~Table!Taken(x.email, c.on)
           /\ accounts' = [accounts EXCEPT ![c.on] = x] /\ Table!Goto(b, "ok")
  <2>1. x \in Table!Row
    BY <1>1, <1>2, <1>8, PatchedRow DEF AccountsKnown, Table!TypeOK, OnAccounts
  <2>2. Table!TypeOK'
    BY <1>1, <1>2, <1>4, <1>8, <2>1 DEF AccountsKnown, Table!TypeOK
  <2>3. \A j \in AccountIds \ {c.on} : accounts[j] # Null => accounts[j].email # x.email
    BY <1>8 DEF Table!Taken
  <2>4. OneEmailEach'
    BY <1>2, <1>8, <2>3 DEF AccountsKnown, Table!TypeOK, OneEmailEach
  <2> QED
    BY <1>1, <1>2, <1>3, <1>5, <1>8, <2>2, <2>4, CallStays DEF AccountsKnown, Table!Step
<1> QED
  BY <1>1, <1>6, <1>7, <1>8

LEMMA FailAccounts ==
  ASSUME AccountsKnown, NEW b \in Backends, Table!Fail(b)
  PROVE  AccountsKnown' /\ UNCHANGED accounts /\ adminPc'[b] = "failed"
<1>1. UNCHANGED <<accounts, issued, role, adminCall, as, adminRow>> /\ Table!Goto(b, "failed") /\ adminPc[b] # "idle"
  BY DEF Table!Fail, Table!Locals
<1>2. adminRow' \in [Backends -> Table!Row \cup {Null}]
  BY <1>1 DEF AccountsKnown, Table!TypeOK
<1>3. Table!TypeOK' /\ OneEmailEach' /\ adminPc'[b] = "failed" /\ adminCall'[b] = adminCall[b]
  BY <1>1, <1>2, GoOn DEF Table!Steps, Table!Answers
<1>4. CheckedCall(b)'
  BY <1>1, <1>3 DEF AccountsKnown, CheckedCall, Reading
<1> QED
  BY <1>1, <1>3, <1>4, CallStays DEF AccountsKnown, Table!Step

LEMMA RefreshAccounts ==
  ASSUME AccountsKnown, NEW i \in AccountIds, Table!Refresh(i)
  PROVE  AccountsKnown' /\ UNCHANGED <<accounts, adminPc, adminCall, as, adminRow>>
<1>1. UNCHANGED <<accounts, issued, adminPc, adminCall, as, adminRow>>
  BY DEF Table!Refresh
<1>2. role' \in [AccountIds -> Table!Roles \cup {Null}]
  BY DEF Table!Refresh, AccountsKnown, Table!TypeOK, Table!Row
<1>3. Table!TypeOK' /\ OneEmailEach'
  BY <1>1, <1>2 DEF AccountsKnown, Table!TypeOK, OneEmailEach
<1> QED
  BY <1>1, <1>3 DEF AccountsKnown, CheckedCall

LEMMA AccountsStep ==
  ASSUME AccountsKnown, Table!Next
  PROVE  AccountsKnown'
BY RefreshAccounts, BeginAccounts, GuardAccounts, FindAccounts, CheckEmailAccounts, CountAccounts, InsertAccounts,
  WriteAccounts, FailAccounts DEF Table!Next, Table!Step

-----------------------------------------------------------------------------
(* What the calls do to the administrators there are.                        *)

LEMMA WhatAStepWrites ==
  ASSUME AccountsKnown, Table!Next, accounts' # accounts
  PROVE  \E b \in Backends : Table!Insert(b) \/ Table!Write(b)
BY RefreshAccounts, FindAccounts, CountAccounts, FailAccounts DEF Table!Next, Table!Step, Table!Begin, Table!Guard,
  Table!CheckEmail, Table!Locals

LEMMA AdminsAreMadeByAdmins ==
  ASSUME AccountsKnown, Table!Next \/ UNCHANGED accounts
  PROVE  Table!AdminsMadeByAdmins
<1> SUFFICES ASSUME NEW i \in Table!Admins(accounts') \ Table!Admins(accounts)
             PROVE  \E b \in Backends :
                      /\ adminPc[b] = "write" /\ adminPc'[b] = "ok"
                      /\ as[b] = "admin" \/ (adminCall[b].op = "boot" /\ accounts'[i].email = AdminEmail)
  BY DEF Table!AdminsMadeByAdmins
<1>1. i \in AccountIds /\ accounts'[i] # Null /\ accounts'[i].role = "admin" /\ accounts'[i] # accounts[i]
  BY DEF Table!Admins
<1>2. PICK b \in Backends : Table!Insert(b) \/ Table!Write(b)
  BY <1>1, WhatAStepWrites
<1> DEFINE c == adminCall[b]
<1>3. CheckedCall(b) /\ accounts \in [AccountIds -> Table!Row \cup {Null}]
  BY DEF AccountsKnown, Table!TypeOK
<1>4. CASE Table!Insert(b)
  <2>1. /\ adminPc[b] = "write" /\ adminPc'[b] = "ok" /\ c \in Table!Call /\ c.op \in {"create", "register", "boot"}
        /\ accounts'[i] = Table!NewRow(c)
    BY <1>1, <1>3, <1>4, InsertAccounts
  <2>2. \/ c.op = "boot" /\ accounts'[i].email = AdminEmail
        \/ c.op = "create" /\ c.role = "admin"
    BY <1>1, <2>1, NewRowOf
  <2> QED
    BY <1>3, <2>1, <2>2 DEF CheckedCall, Table!MaySetRole, Reading
<1>5. CASE Table!Write(b)
  <2>1. /\ adminPc[b] = "write" /\ c \in Table!Call /\ c.op \in OnAccounts /\ i = c.on
        /\ adminPc'[b] = "ok" /\ accounts[i] \in Table!Row
        /\ c.op # "delete" /\ accounts'[i] = Table!Patched(accounts[i], c)
    BY <1>1, <1>3, <1>5, WriteAccounts
  <2>2. accounts[i].role # "admin"
    BY <1>1, <2>1, AccountAssumptions DEF Table!Admins
  <2>3. c.op = "update" /\ c.role = "admin"
    BY <1>1, <2>1, <2>2, PatchedRow DEF OnAccounts
  <2> QED
    BY <1>3, <2>1, <2>3 DEF CheckedCall, Table!MaySetRole
<1> QED
  BY <1>2, <1>4, <1>5

LEMMA AdminsAreChangedByAdmins ==
  ASSUME AccountsKnown, AccountsInTurn, Table!SerialNext \/ UNCHANGED accounts
  PROVE  Table!AdminsChangedByAdmins
<1> SUFFICES ASSUME NEW i \in Table!Admins(accounts), accounts'[i] # accounts[i]
             PROVE  \E b \in Backends : adminPc[b] = "write" /\ adminPc'[b] = "ok" /\ as[b] = "admin"
  BY DEF Table!AdminsChangedByAdmins
<1>1. i \in AccountIds /\ accounts[i] # Null /\ accounts[i].role = "admin"
  BY DEF Table!Admins
<1>2. PICK b \in Backends : Table!Insert(b) \/ Table!Write(b)
  BY WhatAStepWrites DEF Table!SerialNext, Table!Next
<1> DEFINE c == adminCall[b]
<1>3. CheckedCall(b) /\ StillTrue(b) /\ accounts \in [AccountIds -> Table!Row \cup {Null}]
  BY DEF AccountsKnown, AccountsInTurn, Table!TypeOK
<1>4. CASE Table!Insert(b)
  BY <1>1, <1>3, <1>4, InsertAccounts
<1>5. CASE Table!Write(b)
  <2>1. adminPc[b] = "write" /\ c.op \in OnAccounts /\ i = c.on /\ adminPc'[b] = "ok"
    BY <1>1, <1>3, <1>5, WriteAccounts
  <2>2. accounts[i] = adminRow[b] /\ Table!MayActOn(adminRow[b], c, as[b])
    BY <1>3, <2>1 DEF StillTrue, CheckedCall, Reading
  <2> QED
    BY <1>1, <2>1, <2>2 DEF Table!MayActOn
<1> QED
  BY <1>2, <1>4, <1>5

LEMMA OneOfTwo ==
  ASSUME NEW S, NEW x, Table!Cardinality(S) > 1
  PROVE  \E y \in S : y # x
<1> SUFFICES ASSUME \A y \in S : y = x PROVE FALSE
  OBVIOUS
<1>1. S = {} \/ S = {x}
  OBVIOUS
<1>2. Cardinality({}) = 0 /\ Cardinality({x}) = 1
  BY FS_EmptySet, FS_Singleton
<1>3. Table!Cardinality(S) = Cardinality(S)
  BY DEF Table!Cardinality, Cardinality
<1> QED
  BY <1>1, <1>2, <1>3

LEMMA AnAdminRemains ==
  ASSUME AccountsKnown, AccountsInTurn, Table!SerialNext \/ UNCHANGED accounts
  PROVE  Table!AdminRemains
<1> SUFFICES ASSUME NEW i \in Table!ActiveAdmins(accounts)
             PROVE  \E j : j \in Table!ActiveAdmins(accounts')
  BY DEF Table!AdminRemains
<1>1. i \in AccountIds /\ accounts[i] # Null /\ accounts[i].role = "admin" /\ accounts[i].active
  BY DEF Table!ActiveAdmins, Table!Admins
<1>2. \A j \in Table!ActiveAdmins(accounts) : accounts'[j] = accounts[j] => j \in Table!ActiveAdmins(accounts')
  BY DEF Table!ActiveAdmins, Table!Admins
<1>3. CASE accounts' = accounts
  BY <1>2, <1>3
<1>4. CASE accounts' # accounts
  <2>1. PICK b \in Backends : Table!Insert(b) \/ Table!Write(b)
    BY <1>4, WhatAStepWrites DEF Table!SerialNext, Table!Next
  <2> DEFINE c == adminCall[b]
  <2>2. CheckedCall(b) /\ StillTrue(b) /\ accounts \in [AccountIds -> Table!Row \cup {Null}]
    BY DEF AccountsKnown, AccountsInTurn, Table!TypeOK
  <2>3. CASE Table!Insert(b)
    BY <1>1, <1>2, <1>4, <2>2, <2>3, InsertAccounts
  <2>4. CASE Table!Write(b)
    <3>1. /\ adminPc[b] = "write" /\ c \in Table!Call /\ c.op \in OnAccounts /\ c.on \in AccountIds
          /\ \A j \in AccountIds \ {c.on} : accounts'[j] = accounts[j]
          /\ accounts[c.on] = adminRow[b] /\ Table!AdminLeft(c, adminRow[b])
      BY <1>4, <2>2, <2>4, WriteAccounts DEF StillTrue, Reading
    <3>2. CASE i # c.on
      BY <1>1, <1>2, <3>1, <3>2
    <3>3. CASE i = c.on /\ Table!Removes(c, accounts[i])
      <4>1. Table!Cardinality(Table!ActiveAdmins(accounts)) > 1
        BY <1>1, <3>1, <3>3 DEF Table!AdminLeft
      <4>2. PICK j \in Table!ActiveAdmins(accounts) : j # i
        BY <4>1, OneOfTwo
      <4>3. j \in AccountIds
        BY DEF Table!ActiveAdmins, Table!Admins
      <4> QED
        BY <1>2, <3>1, <3>3, <4>2, <4>3
    <3>4. CASE i = c.on /\ ~Table!Removes(c, accounts[i])
      <4>1. /\ c.op \in {"update", "status"} /\ accounts[i] \in Table!Row
            /\ c.op = "status" => c.active
            /\ c.op = "update" => c.role # "member"
        BY <1>1, <2>2, <3>1, <3>4, CallKinds
          DEF Table!Removes, Table!Deactivates, Table!Demotes, OnAccounts, Table!StatusCall
      <4>2. accounts'[i] = Table!Patched(accounts[i], c)
        BY <1>4, <2>2, <2>4, <3>4, <4>1, WriteAccounts
      <4>3. c.op = "update" => c.role \in {"admin", Null}
        BY <3>1, <4>1, CallKinds DEF Table!UpdateCall, Table!Roles
      <4>4. accounts'[i].role = "admin" /\ accounts'[i].active /\ accounts'[i] \in Table!Row
        BY <1>1, <3>1, <4>1, <4>2, <4>3, PatchedRow
      <4> QED
        BY <1>1, <4>4, AccountAssumptions DEF Table!ActiveAdmins, Table!Admins
    <3> QED
      BY <3>2, <3>3, <3>4
  <2> QED
    BY <2>1, <2>3, <2>4
<1> QED
  BY <1>3, <1>4

(* In turn: the others rest, so that nothing becomes untrue of them.           *)
LEMMA AccountsInTurnStep ==
  ASSUME AccountsKnown, AccountsInTurn, Table!SerialNext
  PROVE  AccountsInTurn'
<1>1. ASSUME NEW i \in AccountIds, Table!Refresh(i) PROVE AccountsInTurn'
  <2>1. UNCHANGED <<accounts, adminPc, adminCall, as, adminRow>>
    BY <1>1, RefreshAccounts
  <2> QED
    BY <2>1 DEF AccountsInTurn, OneServed, StillTrue, Table!Quiet, Table!AdminLeft, Table!ActiveAdmins, Table!Admins
<1>2. ASSUME NEW b \in Backends, \A a \in Backends \ {b} : Table!Quiet(a), Table!Begin(b) \/ Table!Step(b)
      PROVE  AccountsInTurn'
  <2> DEFINE c == adminCall[b]
  <2>1. \A a \in Backends \ {b} : Table!Quiet(a)'
    BY <1>2, OtherBackends DEF Table!Quiet
  <2>2. OneServed'
    BY <2>1 DEF OneServed
  <2>3. \A a \in Backends \ {b} : StillTrue(a)'
    BY <2>1 DEF StillTrue, Table!Quiet, Table!Answers, Reading
  <2>4. CheckedCall(b) /\ StillTrue(b) /\ CheckedCall(b)'
    BY <1>2, BeginAccounts, GuardAccounts, FindAccounts, CheckEmailAccounts, CountAccounts, InsertAccounts,
      WriteAccounts, FailAccounts DEF AccountsKnown, AccountsInTurn, Table!Step
  <2>5. StillTrue(b)'
    <3>1. CASE Table!Begin(b)
      <4>1. PICK d \in AccountCalls :
              /\ adminCall' = [adminCall EXCEPT ![b] = d]
              /\ adminPc' = [adminPc EXCEPT ![b] = CASE d.op = "boot" -> "count" [] d.op = "register" -> "email"
                                                     [] OTHER -> "guard"]
        BY <3>1 DEF Table!Begin, Table!Goto
      <4>2. adminCall'[b] = d /\ (d.op \in OnAccounts => adminPc'[b] = "guard")
        BY <4>1 DEF AccountsKnown, Table!TypeOK, OnAccounts
      <4> QED
        BY <4>2 DEF StillTrue, Reading
    <3>2. CASE Table!Guard(b)
      <4>1. adminPc'[b] \in {"refused", "find", "email"} /\ adminCall'[b] = c
            /\ (c.op \in OnAccounts => adminPc'[b] # "email")
        BY <3>2 DEF Table!Guard, Table!Proceed, Table!Goto, Table!Locals, AccountsKnown, Table!TypeOK, OnAccounts
      <4> QED
        BY <4>1 DEF StillTrue, Reading
    <3>3. CASE Table!Find(b)
      <4>1. /\ accounts' = accounts /\ adminCall' = adminCall
            /\ adminPc'[b] \in {"refused", "email", "count"}
        BY <3>3 DEF Table!Find, Table!Proceed, Table!Goto, AccountsKnown, Table!TypeOK
      <4>2. adminPc'[b] # "refused" => adminRow'[b] = accounts[c.on]
        BY <3>3, FindAccounts
      <4> QED
        BY <4>1, <4>2 DEF StillTrue, Reading
    <3>4. CASE Table!CheckEmail(b)
      <4>1. /\ accounts' = accounts /\ adminCall' = adminCall /\ adminRow' = adminRow /\ adminPc[b] = "email"
            /\ adminPc'[b] \in {"refused", "count", "write"} /\ (c.op = "update" => adminPc'[b] # "write")
        BY <3>4 DEF Table!CheckEmail, Table!Proceed, Table!Goto, Table!Locals, AccountsKnown, Table!TypeOK
      <4> QED
        BY <2>4, <4>1 DEF StillTrue, CheckedCall, Reading, OnAccounts
    <3>5. CASE Table!Count(b)
      <4>1. /\ accounts' = accounts /\ adminCall' = adminCall /\ adminRow' = adminRow /\ adminPc[b] = "count"
        BY <3>5 DEF Table!Count, Table!Locals
      <4>2. c.op \in OnAccounts => adminPc'[b] = "refused" \/ (adminPc'[b] = "write" /\ Table!AdminLeft(c, adminRow[b]))
        BY <3>5, CountAccounts DEF OnAccounts
      <4> QED
        BY <2>4, <4>1, <4>2 DEF StillTrue, Reading, Table!AdminLeft, Table!ActiveAdmins, Table!Admins
    <3>6. CASE Table!Insert(b) \/ Table!Write(b) \/ Table!Fail(b)
      <4>1. adminPc'[b] \in {"refused", "failed", "ok"}
        BY <3>6, InsertAccounts, WriteAccounts, FailAccounts
      <4> QED
        BY <4>1 DEF StillTrue, Reading
    <3> QED
      BY <1>2, <3>1, <3>2, <3>3, <3>4, <3>5, <3>6 DEF Table!Step
  <2> QED
    BY <2>2, <2>3, <2>5 DEF AccountsInTurn
<1> QED
  BY <1>1, <1>2 DEF Table!SerialNext

LEMMA StartingStep ==
  ASSUME AccountsKnown, Starting, Table!Next, OnlyStarting'
  PROVE  Starting'
<1>1. accounts \in [AccountIds -> Table!Row \cup {Null}]
  BY DEF AccountsKnown, Table!TypeOK
<1>2. ASSUME NEW b \in Backends PROVE ~Table!Write(b)
  BY WriteAccounts DEF Starting, OnlyStarting, OnAccounts, Table!Anonymous
<1>3. ASSUME accounts' # accounts
      PROVE  \E i \in AccountIds :
               /\ accounts[i] = Null /\ accounts'[i] \in Table!Row
               /\ accounts'[i].role = "admin" => accounts'[i].email = AdminEmail
               /\ \A j \in AccountIds \ {i} : accounts'[j] = accounts[j]
  <2>1. PICK b \in Backends : Table!Insert(b)
    BY <1>2, <1>3, WhatAStepWrites
  <2> DEFINE x == Table!NewRow(adminCall[b])
  <2>2. adminCall[b] \in Table!Call /\ adminCall[b].op \in {"register", "boot"}
    BY <2>1, InsertAccounts DEF Starting, OnlyStarting, Table!Anonymous
  <2>3. PICK i \in AccountIds : accounts[i] = Null /\ accounts' = [accounts EXCEPT ![i] = x]
    BY <1>3, <2>1, InsertAccounts
  <2>4. x \in Table!Row /\ (x.role = "admin" => x.email = AdminEmail)
    BY <2>2, NewRowOf
  <2> QED
    BY <1>1, <2>3, <2>4
<1>4. /\ Table!Admins(accounts) \subseteq Table!Admins(accounts')
      /\ \A i \in Table!Admins(accounts') : accounts'[i].email = AdminEmail
  BY <1>3 DEF Starting, Table!Admins
<1>5. ASSUME NEW b \in Backends, adminPc'[b] = "ok", adminCall'[b].op = "boot"
      PROVE  Table!Admins(accounts') # {}
  <2>1. CASE adminPc[b] = "ok" /\ adminCall[b].op = "boot"
    BY <1>4, <2>1 DEF Starting
  <2>2. CASE ~(adminPc[b] = "ok" /\ adminCall[b].op = "boot")
    <3>1. Table!Begin(b) \/ Table!Step(b)
      BY <1>5, <2>2, OtherBackends, RefreshAccounts DEF Table!Next
    <3>2. CASE Table!Begin(b) \/ Table!Guard(b) \/ Table!Find(b) \/ Table!CheckEmail(b) \/ Table!Fail(b)
      <4>1. adminPc'[b] # "ok"
        BY <3>2 DEF Table!Begin, Table!Guard, Table!Find, Table!CheckEmail, Table!Fail, Table!Proceed, Table!Goto,
          AccountsKnown, Table!TypeOK
      <4> QED
        BY <1>5, <4>1
    <3>3. CASE Table!Count(b)
      BY <1>5, <3>3, CountAccounts DEF Table!Count, Table!Locals
    <3>4. CASE Table!Insert(b)
      <4>1. PICK i \in AccountIds : /\ accounts' = [accounts EXCEPT ![i] = Table!NewRow(adminCall[b])]
                                     /\ adminCall[b] \in Table!Call /\ adminCall[b].op = "boot"
        BY <1>5, <3>4, InsertAccounts
      <4>2. accounts'[i] = Table!NewRow(adminCall[b]) /\ Table!NewRow(adminCall[b]) \in Table!Row
            /\ Table!NewRow(adminCall[b]).role = "admin"
        BY <1>1, <4>1, NewRowOf
      <4> QED
        BY <4>2, AccountAssumptions DEF Table!Admins
    <3> QED
      BY <1>2, <3>1, <3>2, <3>3, <3>4 DEF Table!Step
  <2> QED
    BY <2>1, <2>2
<1> QED
  BY <1>4, <1>5 DEF Starting

LEMMA OneDefault ==
  ASSUME AccountsKnown, Starting
  PROVE  Table!OneDefaultAdmin
<1>1. \A i, j \in Table!Admins(accounts) : i = j
  BY DEF Starting, AccountsKnown, OneEmailEach, Table!Admins
<1>2. Table!Admins(accounts) = {} \/ \E i : Table!Admins(accounts) = {i}
  BY <1>1
<1>3. Cardinality(Table!Admins(accounts)) \in {0, 1}
  BY <1>2, FS_EmptySet, FS_Singleton
<1>4. Table!Cardinality(Table!Admins(accounts)) = Cardinality(Table!Admins(accounts))
  BY DEF Table!Cardinality, Cardinality
<1> QED
  BY <1>3, <1>4 DEF Starting, Table!OneDefaultAdmin

LEMMA AccountsBegun ==
  ASSUME Begins
  PROVE  AccountsInv
<1> SUFFICES ASSUME part \in {"table", "tableInTurn", "boot"}
             PROVE  AccountsKnown /\ AccountsInTurn /\ (part = "boot" => Starting)
  BY DEF AccountsInv
<1>1. Table!Init /\ (part = "boot" <=> Table!Admins(accounts) = {})
  BY DEF Begins
<1>2. AccountsKnown /\ AccountsInTurn
  BY <1>1, AccountsBegin
<1>3. \A b \in Backends : adminPc[b] = "idle"
  BY <1>1 DEF Table!Init
<1> QED
  BY <1>1, <1>2, <1>3 DEF Starting, OnlyStarting

LEMMA AccountsLeftAlone ==
  ASSUME AccountsInv, UNCHANGED <<part, accountVars>>
  PROVE  AccountsInv'
BY DEF accountVars, AccountsInv, AccountsKnown, Table!TypeOK, OneEmailEach, CheckedCall, AccountsInTurn, OneServed,
  StillTrue, Table!Quiet, Table!AdminLeft, Table!ActiveAdmins, Table!Admins, Starting, OnlyStarting

LEMMA AccountsInvariance ==
  ASSUME AccountsInv, [Goes]_<<part, sessionVars, accountVars, vars>>
  PROVE  AccountsInv'
<1>1. CASE UNCHANGED <<part, accountVars>>
  BY <1>1, AccountsLeftAlone
<1>2. CASE part = "table" /\ Table!Next /\ part' = part
  BY <1>2, AccountsStep DEF AccountsInv
<1>3. CASE part = "tableInTurn" /\ Table!SerialNext /\ part' = part
  <2>1. Table!Next
    BY <1>3 DEF Table!Next, Table!SerialNext
  <2> QED
    BY <1>3, <2>1, AccountsStep, AccountsInTurnStep DEF AccountsInv
<1>4. CASE part = "boot" /\ Table!Next /\ OnlyStarting' /\ part' = part
  BY <1>4, AccountsStep, StartingStep DEF AccountsInv
<1> QED
  BY <1>1, <1>2, <1>3, <1>4 DEF Goes

(* assertActorCanSetRole, assertActorIsAdminToActOnAdmin,                      *)
(* assertNotRemovingLastActiveAdmin and ensureDefaultAdmin: whatever           *)
(* interleaves, administrators are made by administrators or a starting       *)
(* backend; in turn, one is changed only for another and the last active one  *)
(* stays; backends that start together make one between them.                 *)
THEOREM AdministratorsAreKept == Behaviour => AdministratorsKept
<1> DEFINE Kept == /\ part = "table" => Table!TypeOK' /\ Table!AdminsMadeByAdmins
                   /\ part = "tableInTurn" => Table!AdminRemains /\ Table!AdminsChangedByAdmins
                   /\ part = "boot" => Table!OneDefaultAdmin'
<1>1. ASSUME AccountsInv, [Goes]_<<part, sessionVars, accountVars, vars>> PROVE [Kept]_accountVars
  <2> SUFFICES ASSUME accountVars' # accountVars PROVE Kept
    OBVIOUS
  <2>1. AccountsInv' /\ part' = part
    BY <1>1, AccountsInvariance DEF Goes
  <2>2. CASE part = "table"
    BY <1>1, <2>1, <2>2, AdminsAreMadeByAdmins DEF Goes, AccountsInv, AccountsKnown
  <2>3. CASE part = "tableInTurn"
    BY <1>1, <2>3, AdminsAreChangedByAdmins, AnAdminRemains DEF Goes, AccountsInv
  <2>4. CASE part = "boot"
    <3>1. (AccountsKnown /\ Starting => Table!OneDefaultAdmin)'
      BY OneDefault, PTL
    <3> QED
      BY <2>1, <2>4, <3>1 DEF AccountsInv
  <2> QED
    BY <2>2, <2>3, <2>4
<1> QED
  BY <1>1, AccountsBegun, AccountsInvariance, PTL DEF Behaviour, AdministratorsKept

-----------------------------------------------------------------------------
(* Sessions *)

ServedCall(r) ==
  LET c == loginCall[r]
  IN /\ c # Null /\ c.op = "refresh" => c.token \in sessions
     /\ loginPc[r] = "compare" => c.op \in {"login", "change"}
     /\ loginPc[r] \in {"increment", "reread", "lock"} => c.op = "login"
     /\ loginPc[r] = "clear" => c.op \in {"login", "unlock"}
     /\ loginPc[r] = "sign" => c.op \in {"login", "refresh"}
     /\ loginPc[r] = "write" => c.op \in {"change", "reset"}
     /\ loginPc[r] \in {"compare", "clear", "sign"} => loginRow[r] \in Logins!Row

HandlersTyped ==
  /\ loginPc \in [Requests -> Logins!Steps]
  /\ loginCall \in [Requests -> Logins!Call \cup {Null}]
  /\ loginRow \in [Requests -> Logins!Row \cup {Null}]
  /\ lockEnd \in [Requests -> Logins!Seconds \cup {Null}]
  /\ \A r \in Requests : loginCall[r] = Null <=> loginPc[r] = "idle"
  /\ \A r \in Requests : lockEnd[r] # Null <=> loginPc[r] = "lock"

AccountTyped ==
  /\ clock \in 0..LoginTime /\ row \in Logins!Row /\ sessions \subseteq Logins!RefreshToken
  /\ changed \in [Logins!Passwords -> 0..LoginTime \cup {Null}]

SessionsKnown == HandlersTyped /\ AccountTyped /\ \A r \in Requests : ServedCall(r)

Guessing == {r \in Requests : loginPc[r] \in {"compare", "increment"} /\ loginCall[r].op = "login"}
Counted  == {r \in Requests : loginPc[r] \in {"reread", "lock"}}

(* Before the lock, every failure past the limit has a handler that will lock; *)
(* under it, what may still fail began before it.                            *)
FailuresCounted ==
  /\ WithinOneLock
  /\ row.lockedUntil # Null => row.lockedUntil >= Lock
  /\ \A r \in Requests : lockEnd[r] # Null => lockEnd[r] >= Lock
  /\ row.lockedUntil = Null => row.attempts <= MaxAttempts - 1 + Cardinality(Counted)
  /\ row.lockedUntil # Null =>
       row.attempts + Cardinality(Guessing) <= MaxAttempts - 1 + Cardinality(Requests)

(* What the tokens tell of the passwords they were opened with.                *)
TokenTells(token) ==
  /\ token.iat <= Logins!Second(clock)
  /\ token.password <= row.password
  /\ token.password = row.password /\ changed[row.password] # Null =>
       token.iat >= Logins!Second(changed[row.password])
  /\ token.password < row.password =>
       changed[row.password] # Null /\ token.iat <= Logins!Second(changed[row.password])

OneLogin == \A q, r \in Requests : loginPc[q] # "idle" /\ loginPc[r] # "idle" => q = r

LocksEarned ==
  /\ row.lockedUntil # Null => row.attempts >= MaxAttempts
  /\ \A r \in Requests : loginPc[r] = "lock" => row.attempts >= MaxAttempts

PresentRead ==
  \A r \in Requests : loginPc[r] \in {"compare", "clear", "sign"} => loginRow[r].password = row.password

ChangeDated ==
  /\ changed[row.password] # Null => changed[row.password] <= clock
  /\ row.changedAt = IF changed[row.password] = Null THEN Null ELSE Logins!Rounded(changed[row.password])

TokensTell == \A token \in sessions : TokenTells(token)

LoginsInTurn == OneLogin /\ LocksEarned /\ PresentRead /\ ChangeDated /\ TokensTell

SessionsInv ==
  /\ part \in {"logins", "loginsInTurn"} => SessionsKnown
  /\ part = "logins" => FailuresCounted
  /\ part = "loginsInTurn" => LoginsInTurn

-----------------------------------------------------------------------------
LEMMA SessionAssumptions ==
  /\ IsFiniteSet(Requests) /\ MaxAttempts \in Nat \ {0} /\ Lock \in Nat \ {0} /\ RefreshTtl \in Nat \ {0}
  /\ LoginTime \in Nat /\ MaxPasswords \in Nat \ {0} /\ Null \notin Nat \cup Logins!Row \cup Logins!Call
BY IdentityAssumption DEF Logins!SessionsAssumption, Logins!IsFiniteSet, IsFiniteSet

(* Halves of a second and seconds.                                          *)
LEMMA HalvesOfSeconds ==
  ASSUME NEW t \in Nat
  PROVE  /\ Logins!Second(t) \in Nat /\ Logins!Rounded(t) \in Nat
         /\ Logins!Second(t) <= Logins!Rounded(t) /\ Logins!Rounded(t) <= Logins!Second(t) + 1
         /\ Logins!Rounded(t) <= t /\ Logins!Second(t) <= t
BY DEF Logins!Second, Logins!Rounded

LEMMA LaterSecond ==
  ASSUME NEW t \in Nat, NEW u \in Nat, t <= u
  PROVE  Logins!Second(t) <= Logins!Second(u)
BY DEF Logins!Second

LEMMA LoginKinds ==
  ASSUME NEW c \in Logins!Call
  PROVE  /\ c # Null
         /\ c.op \in {"login", "change", "reset", "unlock", "refresh"}
         /\ c.op = "refresh" => c.token \in Logins!RefreshToken
BY SessionAssumptions DEF Logins!Call

LEMMA SessionsAreTyped == SessionsKnown => Logins!TypeOK
BY DEF SessionsKnown, HandlersTyped, AccountTyped, Logins!TypeOK

LEMMA SessionsBegin ==
  ASSUME Logins!Init
  PROVE  SessionsKnown /\ LoginsInTurn /\ FailuresCounted
<1> USE SessionAssumptions
<1>1. /\ clock = 0 /\ sessions = {} /\ row = [password |-> 1, changedAt |-> Null, attempts |-> 0, lockedUntil |-> Null]
      /\ \A r \in Requests : loginPc[r] = "idle" /\ loginCall[r] = Null /\ lockEnd[r] = Null
      /\ \A p \in Logins!Passwords : changed[p] = Null
  BY DEF Logins!Init
<1>2. 1 \in Logins!Passwords /\ row \in Logins!Row
  BY <1>1 DEF Logins!Passwords, Logins!Row
<1>3. HandlersTyped
  BY DEF Logins!Init, HandlersTyped, Logins!Steps
<1>4. AccountTyped
  BY <1>1, <1>2 DEF Logins!Init, AccountTyped
<1>5. \A r \in Requests : ServedCall(r)
  BY <1>1 DEF ServedCall
<1>6. LoginsInTurn
  BY <1>1, <1>2 DEF LoginsInTurn, OneLogin, LocksEarned, PresentRead, ChangeDated, TokensTell
<1>7. Counted = {} /\ Cardinality(Counted) = 0
  BY <1>1, FS_EmptySet DEF Counted
<1>8. FailuresCounted
  BY <1>1, <1>7 DEF FailuresCounted, WithinOneLock
<1> QED
  BY <1>3, <1>4, <1>5, <1>6, <1>8 DEF SessionsKnown

(* How a handler goes on, and how it ends.                                    *)
LEMMA HandlerEnds ==
  ASSUME HandlersTyped, NEW r \in Requests, Logins!Done(r)
  PROVE  HandlersTyped' /\ loginPc'[r] = "idle" /\ loginCall'[r] = Null /\ lockEnd'[r] = Null
BY SessionAssumptions DEF HandlersTyped, Logins!Done, Logins!Goto, Logins!Steps

LEMMA HandlerGoesOn ==
  ASSUME HandlersTyped, NEW r \in Requests, NEW step \in Logins!Steps \ {"idle", "lock"}, Logins!On(r, step),
         loginPc[r] \notin {"idle", "lock"}
  PROVE  /\ HandlersTyped' /\ loginPc'[r] = step
         /\ loginCall' = loginCall /\ loginRow' = loginRow /\ lockEnd' = lockEnd
BY DEF HandlersTyped, Logins!On, Logins!Goto

(* What find and compare decide.                                             *)
LEMMA FindDecides ==
  ASSUME SessionsKnown, NEW r \in Requests, Logins!Find(r)
  PROVE  LET c == loginCall[r]
         IN /\ loginPc[r] = "find" /\ c \in Logins!Call /\ UNCHANGED <<clock, row, sessions, changed>>
            /\ \/ /\ Logins!Done(r)
                  /\ (c.op = "login" /\ Logins!Locked(row)) \/ (c.op = "refresh" /\ Logins!Ended(row, c.token))
               \/ /\ c.op = "login" => ~Logins!Locked(row)
                  /\ c.op = "refresh" => ~Logins!Ended(row, c.token)
                  /\ loginRow' = [loginRow EXCEPT ![r] = row] /\ UNCHANGED <<loginCall, lockEnd>>
                  /\ \E step \in {"compare", "write", "clear", "sign"} :
                       /\ loginPc' = [loginPc EXCEPT ![r] = step]
                       /\ step = "compare" => c.op \in {"login", "change"}
                       /\ step = "write" => c.op = "reset"
                       /\ step = "clear" => c.op = "unlock"
                       /\ step = "sign" => c.op = "refresh"
<1> DEFINE c == loginCall[r]
<1>1. loginPc[r] = "find" /\ UNCHANGED <<clock, row, sessions, changed>>
  BY DEF Logins!Find
<1>2. c \in Logins!Call
  BY <1>1 DEF SessionsKnown, HandlersTyped
<1>3. CASE /\ Logins!Done(r)
           /\ (c.op = "login" /\ Logins!Locked(row)) \/ (c.op = "refresh" /\ Logins!Ended(row, c.token))
  BY <1>1, <1>2, <1>3
<1>4. CASE /\ c.op = "login" => ~Logins!Locked(row)
           /\ c.op = "refresh" => ~Logins!Ended(row, c.token)
           /\ loginRow' = [loginRow EXCEPT ![r] = row] /\ UNCHANGED <<loginCall, lockEnd>>
           /\ Logins!Goto(r, CASE c.op \in {"login", "change"} -> "compare" [] c.op = "reset" -> "write"
                               [] c.op = "unlock" -> "clear" [] c.op = "refresh" -> "sign")
  BY <1>1, <1>2, <1>4, LoginKinds DEF Logins!Goto
<1> QED
  BY <1>3, <1>4 DEF Logins!Find

LEMMA CompareDecides ==
  ASSUME SessionsKnown, NEW r \in Requests, Logins!Compare(r)
  PROVE  LET c == loginCall[r]
         IN /\ loginPc[r] = "compare" /\ c \in Logins!Call /\ c.op \in {"login", "change"}
            /\ loginRow[r] \in Logins!Row /\ UNCHANGED <<clock, row, sessions, changed>>
            /\ \/ c.op = "change" /\ (Logins!On(r, "write") \/ Logins!Done(r))
               \/ c.op = "login" /\ (Logins!On(r, "clear") \/ Logins!On(r, "sign") \/ Logins!On(r, "increment"))
<1>1. loginPc[r] = "compare" /\ UNCHANGED <<clock, row, sessions, changed>>
  BY DEF Logins!Compare
<1>2. /\ loginCall[r] \in Logins!Call /\ loginCall[r].op \in {"login", "change"}
      /\ loginRow[r] \in Logins!Row
  BY <1>1 DEF SessionsKnown, HandlersTyped, ServedCall
<1> QED
  BY <1>1, <1>2 DEF Logins!Compare

LEMMA OtherLogins ==
  ASSUME SessionsKnown, NEW r \in Requests, Logins!Handle(r) \/ Logins!Fail(r)
  PROVE  \A q \in Requests \ {r} :
           /\ loginPc'[q] = loginPc[q] /\ loginCall'[q] = loginCall[q]
           /\ loginRow'[q] = loginRow[q] /\ lockEnd'[q] = lockEnd[q]
<1> SUFFICES ASSUME NEW q \in Requests \ {r}
             PROVE  /\ loginPc'[q] = loginPc[q] /\ loginCall'[q] = loginCall[q]
                    /\ loginRow'[q] = loginRow[q] /\ lockEnd'[q] = lockEnd[q]
  OBVIOUS
<1> USE DEF SessionsKnown, HandlersTyped
<1>1. CASE Logins!Begin(r)
  BY <1>1 DEF Logins!Begin, Logins!Goto
<1>2. CASE Logins!Find(r)
  BY <1>2, FindDecides DEF Logins!Goto, Logins!Done
<1>3. CASE Logins!Compare(r)
  BY <1>3, CompareDecides DEF Logins!Goto, Logins!Done, Logins!On
<1>4. CASE Logins!Increment(r) \/ Logins!Clear(r)
  BY <1>4 DEF Logins!Increment, Logins!Clear, Logins!Goto, Logins!Done, Logins!On
<1>5. CASE Logins!Reread(r)
  BY <1>5 DEF Logins!Reread, Logins!Goto, Logins!Done
<1>6. CASE Logins!LockAccount(r) \/ Logins!Sign(r) \/ Logins!Write(r) \/ Logins!Fail(r)
  BY <1>6 DEF Logins!LockAccount, Logins!Sign, Logins!Write, Logins!Fail, Logins!Goto, Logins!Done
<1> QED
  BY <1>1, <1>2, <1>3, <1>4, <1>5, <1>6 DEF Logins!Handle

(* The token a handler was asked to refresh stays among those handed out.      *)
LEMMA ServedStays ==
  ASSUME SessionsKnown, NEW r \in Requests, Logins!Handle(r) \/ Logins!Fail(r), ServedCall(r)',
         sessions \subseteq sessions'
  PROVE  \A q \in Requests : ServedCall(q)'
<1> SUFFICES ASSUME NEW q \in Requests \ {r} PROVE ServedCall(q)'
  OBVIOUS
<1>1. loginPc'[q] = loginPc[q] /\ loginCall'[q] = loginCall[q] /\ loginRow'[q] = loginRow[q]
  BY OtherLogins
<1>2. ServedCall(q)
  BY DEF SessionsKnown
<1> QED
  BY <1>1, <1>2 DEF ServedCall

LEMMA ServedEnds ==
  ASSUME NEW r \in Requests, loginPc'[r] = "idle", loginCall'[r] = Null
  PROVE  ServedCall(r)'
BY DEF ServedCall

LEMMA AccountStays ==
  ASSUME SessionsKnown, UNCHANGED <<clock, row, sessions, changed>>
  PROVE  AccountTyped' /\ sessions \subseteq sessions'
BY DEF SessionsKnown, AccountTyped

LEMMA BeginSession ==
  ASSUME SessionsKnown, NEW r \in Requests, Logins!Begin(r)
  PROVE  /\ SessionsKnown' /\ UNCHANGED <<clock, row, sessions, changed, loginRow, lockEnd>>
         /\ loginPc[r] = "idle" /\ loginPc'[r] = "find"
<1>1. PICK c : /\ loginCall' = [loginCall EXCEPT ![r] = c]
               /\ c \in [op : {"login", "change"}, guess : 0..MaxPasswords] \cup [op : {"reset", "unlock"}]
                        \cup [op : {"refresh"}, token : {t \in sessions : Logins!Live(t)}]
  BY DEF Logins!Begin
<1>2. /\ loginPc[r] = "idle" /\ loginPc' = [loginPc EXCEPT ![r] = "find"]
      /\ UNCHANGED <<clock, row, sessions, changed, loginRow, lockEnd>>
  BY DEF Logins!Begin, Logins!Goto
<1>3. c \in Logins!Call /\ c # Null /\ (c.op = "refresh" => c.token \in sessions)
  <2>1. sessions \subseteq Logins!RefreshToken
    BY DEF SessionsKnown, AccountTyped
  <2>2. c \in Logins!Call /\ (c.op = "refresh" => c.token \in sessions)
    BY <1>1, <2>1 DEF Logins!Call
  <2> QED
    BY <2>2, LoginKinds
<1>4. HandlersTyped' /\ loginPc'[r] = "find" /\ loginCall'[r] = c
  BY <1>1, <1>2, <1>3 DEF SessionsKnown, HandlersTyped, Logins!Steps
<1>5. ServedCall(r)'
  BY <1>2, <1>3, <1>4 DEF ServedCall
<1> QED
  BY <1>2, <1>4, <1>5, AccountStays, ServedStays DEF SessionsKnown, Logins!Handle

LEMMA FindSession ==
  ASSUME SessionsKnown, NEW r \in Requests, Logins!Find(r)
  PROVE  SessionsKnown'
<1> DEFINE c == loginCall[r]
<1>1. loginPc[r] = "find" /\ c \in Logins!Call /\ UNCHANGED <<clock, row, sessions, changed>>
  BY FindDecides
<1>2. HandlersTyped' /\ ServedCall(r)'
  <2>1. CASE Logins!Done(r)
    BY <2>1, HandlerEnds, ServedEnds DEF SessionsKnown
  <2>2. CASE ~Logins!Done(r)
    <3>1. PICK step \in {"compare", "write", "clear", "sign"} :
            /\ loginPc' = [loginPc EXCEPT ![r] = step]
            /\ step = "compare" => c.op \in {"login", "change"}
            /\ step = "write" => c.op = "reset"
            /\ step = "clear" => c.op = "unlock"
            /\ step = "sign" => c.op = "refresh"
      BY <2>2, FindDecides
    <3>2. loginRow' = [loginRow EXCEPT ![r] = row] /\ UNCHANGED <<loginCall, lockEnd>> /\ row \in Logins!Row
      BY <2>2, FindDecides DEF SessionsKnown, AccountTyped
    <3>3. HandlersTyped' /\ loginPc'[r] = step /\ loginRow'[r] \in Logins!Row
      BY <1>1, <3>1, <3>2 DEF SessionsKnown, HandlersTyped, Logins!Steps
    <3>4. c # Null /\ c.op = "refresh" => c.token \in sessions
      BY DEF SessionsKnown, ServedCall
    <3> QED
      BY <1>1, <3>1, <3>2, <3>3, <3>4 DEF ServedCall
  <2> QED
    BY <2>1, <2>2
<1> QED
  BY <1>1, <1>2, AccountStays, ServedStays DEF SessionsKnown, Logins!Handle

LEMMA CompareSession ==
  ASSUME SessionsKnown, NEW r \in Requests, Logins!Compare(r)
  PROVE  SessionsKnown'
<1> DEFINE c == loginCall[r]
<1>1. /\ loginPc[r] = "compare" /\ c.op \in {"login", "change"} /\ loginRow[r] \in Logins!Row
      /\ UNCHANGED <<clock, row, sessions, changed>>
  BY CompareDecides
<1>2. HandlersTyped' /\ ServedCall(r)'
  <2>1. CASE Logins!Done(r)
    BY <2>1, HandlerEnds, ServedEnds DEF SessionsKnown
  <2>2. ASSUME NEW step \in {"write", "clear", "sign", "increment"}, Logins!On(r, step),
               step = "write" <=> c.op = "change"
        PROVE  HandlersTyped' /\ ServedCall(r)'
    <3>1. HandlersTyped' /\ loginPc'[r] = step /\ loginCall' = loginCall /\ loginRow' = loginRow
      BY <1>1, <2>2, HandlerGoesOn DEF SessionsKnown, Logins!Steps
    <3> QED
      BY <1>1, <2>2, <3>1 DEF ServedCall
  <2> QED
    BY <2>1, <2>2, CompareDecides
<1> QED
  BY <1>1, <1>2, AccountStays, ServedStays DEF SessionsKnown, Logins!Handle

LEMMA IncrementSession ==
  ASSUME SessionsKnown, NEW r \in Requests, Logins!Increment(r)
  PROVE  /\ SessionsKnown' /\ UNCHANGED <<clock, sessions, changed>>
         /\ loginPc[r] = "increment" /\ loginPc'[r] = "reread" /\ loginCall' = loginCall /\ lockEnd' = lockEnd
         /\ row' = [row EXCEPT !.attempts = row.attempts + 1]
<1>1. /\ loginPc[r] = "increment" /\ UNCHANGED <<clock, sessions, changed>>
      /\ row' = [row EXCEPT !.attempts = row.attempts + 1] /\ Logins!On(r, "reread")
  BY DEF Logins!Increment
<1>2. HandlersTyped' /\ loginPc'[r] = "reread" /\ loginCall' = loginCall /\ lockEnd' = lockEnd
  BY <1>1, HandlerGoesOn DEF SessionsKnown, Logins!Steps
<1>3. row \in Logins!Row /\ row' \in Logins!Row
  BY <1>1 DEF SessionsKnown, AccountTyped, Logins!Row
<1>4. AccountTyped'
  BY <1>1, <1>3 DEF SessionsKnown, AccountTyped
<1>5. ServedCall(r)'
  BY <1>1, <1>2 DEF SessionsKnown, ServedCall
<1> QED
  BY <1>1, <1>2, <1>4, <1>5, ServedStays DEF SessionsKnown, Logins!Handle

LEMMA RereadSession ==
  ASSUME SessionsKnown, NEW r \in Requests, Logins!Reread(r)
  PROVE  /\ SessionsKnown' /\ UNCHANGED <<clock, row, sessions, changed>> /\ loginPc[r] = "reread"
         /\ \/ Logins!LockDue(row) /\ loginPc'[r] = "lock" /\ lockEnd'[r] = Logins!Rounded(clock) + Lock
            \/ ~Logins!LockDue(row) /\ loginPc'[r] = "idle" /\ lockEnd'[r] = Null
<1>1. loginPc[r] = "reread" /\ UNCHANGED <<clock, row, sessions, changed>>
  BY DEF Logins!Reread
<1>2. CASE ~Logins!LockDue(row)
  <2>1. Logins!Done(r)
    BY <1>2 DEF Logins!Reread
  <2> QED
    BY <1>1, <1>2, <2>1, HandlerEnds, ServedEnds, ServedStays, AccountStays DEF SessionsKnown, Logins!Handle
<1>3. CASE Logins!LockDue(row)
  <2> DEFINE end == Logins!Rounded(clock) + Lock
  <2>1. /\ lockEnd' = [lockEnd EXCEPT ![r] = end] /\ loginPc' = [loginPc EXCEPT ![r] = "lock"]
        /\ UNCHANGED <<loginCall, loginRow>>
    BY <1>3 DEF Logins!Reread, Logins!Goto
  <2>2. clock \in Nat /\ clock <= LoginTime /\ Lock \in Nat /\ LoginTime \in Nat
    BY SessionAssumptions DEF SessionsKnown, AccountTyped
  <2>3. Logins!Rounded(clock) \in Nat /\ Logins!Rounded(clock) <= clock
    BY <2>2, HalvesOfSeconds
  <2>4. end \in Logins!Seconds /\ end # Null
    BY <2>2, <2>3, SessionAssumptions DEF Logins!Seconds
  <2> HIDE DEF end
  <2>5. HandlersTyped' /\ loginPc'[r] = "lock" /\ lockEnd'[r] = end
    BY <1>1, <2>1, <2>4 DEF SessionsKnown, HandlersTyped, Logins!Steps
  <2>6. ServedCall(r)'
    BY <1>1, <2>1, <2>5 DEF SessionsKnown, ServedCall
  <2> QED
    BY <1>1, <1>3, <2>5, <2>6, ServedStays, AccountStays DEF SessionsKnown, Logins!Handle, end
<1> QED
  BY <1>2, <1>3

LEMMA LockSession ==
  ASSUME SessionsKnown, NEW r \in Requests, Logins!LockAccount(r)
  PROVE  /\ SessionsKnown' /\ UNCHANGED <<clock, sessions, changed>>
         /\ loginPc[r] = "lock" /\ loginPc'[r] = "idle" /\ lockEnd'[r] = Null /\ lockEnd[r] # Null
         /\ row' = [row EXCEPT !.lockedUntil = lockEnd[r]]
<1>1. /\ loginPc[r] = "lock" /\ UNCHANGED <<clock, sessions, changed>>
      /\ row' = [row EXCEPT !.lockedUntil = lockEnd[r]] /\ Logins!Done(r)
  BY DEF Logins!LockAccount
<1>2. lockEnd[r] \in Logins!Seconds /\ lockEnd[r] # Null
  BY <1>1 DEF SessionsKnown, HandlersTyped
<1>3. row \in Logins!Row /\ row' \in Logins!Row
  BY <1>1, <1>2 DEF SessionsKnown, AccountTyped, Logins!Row
<1>4. AccountTyped'
  BY <1>1, <1>3 DEF SessionsKnown, AccountTyped
<1> QED
  BY <1>1, <1>2, <1>4, HandlerEnds, ServedEnds, ServedStays DEF SessionsKnown, Logins!Handle

LEMMA ClearSession ==
  ASSUME SessionsKnown, NEW r \in Requests, Logins!Clear(r)
  PROVE  /\ SessionsKnown' /\ UNCHANGED <<clock, sessions, changed>>
         /\ loginPc[r] = "clear" /\ row' = [row EXCEPT !.attempts = 0, !.lockedUntil = Null]
         /\ \/ loginPc'[r] = "idle" /\ lockEnd'[r] = Null
            \/ loginPc'[r] = "sign" /\ UNCHANGED <<loginCall, loginRow, lockEnd>>
<1>1. /\ loginPc[r] = "clear" /\ UNCHANGED <<clock, sessions, changed>>
      /\ row' = [row EXCEPT !.attempts = 0, !.lockedUntil = Null]
      /\ (loginCall[r].op = "login" /\ Logins!On(r, "sign")) \/ Logins!Done(r)
  BY DEF Logins!Clear, Logins!Cleared
<1>2. row \in Logins!Row /\ row' \in Logins!Row
  BY <1>1 DEF SessionsKnown, AccountTyped, Logins!Row
<1>3. AccountTyped'
  BY <1>1, <1>2 DEF SessionsKnown, AccountTyped
<1>4. CASE Logins!Done(r)
  BY <1>1, <1>3, <1>4, HandlerEnds, ServedEnds, ServedStays DEF SessionsKnown, Logins!Handle
<1>5. CASE loginCall[r].op = "login" /\ Logins!On(r, "sign")
  <2>1. HandlersTyped' /\ loginPc'[r] = "sign" /\ UNCHANGED <<loginCall, loginRow, lockEnd>>
    BY <1>1, <1>5, HandlerGoesOn DEF SessionsKnown, Logins!Steps
  <2>2. ServedCall(r)'
    BY <1>1, <1>5, <2>1 DEF SessionsKnown, ServedCall
  <2> QED
    BY <1>1, <1>3, <2>1, <2>2, ServedStays DEF SessionsKnown, Logins!Handle
<1> QED
  BY <1>1, <1>4, <1>5

LEMMA SignSession ==
  ASSUME SessionsKnown, NEW r \in Requests, Logins!Sign(r)
  PROVE  /\ SessionsKnown' /\ UNCHANGED <<clock, row, changed>>
         /\ loginPc[r] = "sign" /\ loginPc'[r] = "idle" /\ lockEnd'[r] = Null
         /\ sessions' \subseteq sessions \cup {[iat |-> Logins!Second(clock), password |-> loginRow[r].password]}
<1> DEFINE token == [iat |-> Logins!Second(clock), password |-> loginRow[r].password]
<1>1. /\ loginPc[r] = "sign" /\ UNCHANGED <<clock, row, changed>> /\ Logins!Done(r)
      /\ sessions' = sessions \/ sessions' = sessions \cup {token}
  BY DEF Logins!Sign
<1>2. token \in Logins!RefreshToken
  <2>1. clock \in Nat /\ clock <= LoginTime /\ Lock \in Nat /\ LoginTime \in Nat
    BY SessionAssumptions DEF SessionsKnown, AccountTyped
  <2>2. Logins!Second(clock) \in Nat /\ Logins!Second(clock) <= clock
    BY <2>1, HalvesOfSeconds
  <2>3. Logins!Second(clock) \in Logins!Seconds
    BY <2>1, <2>2 DEF Logins!Seconds
  <2>4. loginRow[r].password \in Logins!Passwords
    BY <1>1 DEF SessionsKnown, ServedCall, Logins!Row
  <2> QED
    BY <2>3, <2>4 DEF Logins!RefreshToken
<1> HIDE DEF token
<1>3. AccountTyped' /\ sessions \subseteq sessions'
  BY <1>1, <1>2 DEF SessionsKnown, AccountTyped
<1>4. SessionsKnown' /\ loginPc'[r] = "idle" /\ lockEnd'[r] = Null
  BY <1>1, <1>3, HandlerEnds, ServedEnds, ServedStays DEF SessionsKnown, Logins!Handle
<1> QED
  BY <1>1, <1>4 DEF token

LEMMA WriteSession ==
  ASSUME SessionsKnown, NEW r \in Requests, Logins!Write(r)
  PROVE  /\ SessionsKnown' /\ UNCHANGED <<clock, sessions>>
         /\ loginPc[r] = "write" /\ loginPc'[r] = "idle" /\ lockEnd'[r] = Null
         /\ row.password \in Logins!Passwords /\ row.password + 1 \in Logins!Passwords
         /\ row' = [row EXCEPT !.password = row.password + 1, !.changedAt = Logins!Rounded(clock)]
         /\ changed' = [changed EXCEPT ![row.password + 1] = clock]
<1>1. /\ loginPc[r] = "write" /\ UNCHANGED <<clock, sessions>> /\ row.password < MaxPasswords
      /\ row' = [row EXCEPT !.password = row.password + 1, !.changedAt = Logins!Rounded(clock)]
      /\ changed' = [changed EXCEPT ![row.password + 1] = clock] /\ Logins!Done(r)
  BY DEF Logins!Write
<1>2. clock \in Nat /\ clock <= LoginTime /\ Lock \in Nat /\ LoginTime \in Nat /\ MaxPasswords \in Nat
  BY SessionAssumptions DEF SessionsKnown, AccountTyped
<1>3. Logins!Rounded(clock) \in Nat /\ Logins!Rounded(clock) <= clock
  BY <1>2, HalvesOfSeconds
<1>4. Logins!Rounded(clock) \in Logins!Seconds
  BY <1>2, <1>3 DEF Logins!Seconds
<1>5. row.password \in Logins!Passwords /\ row.password + 1 \in Logins!Passwords
  BY <1>1, <1>2 DEF SessionsKnown, AccountTyped, Logins!Row, Logins!Passwords
<1>6. row' \in Logins!Row
  BY <1>1, <1>4, <1>5 DEF SessionsKnown, AccountTyped, Logins!Row
<1>7. AccountTyped'
  BY <1>1, <1>2, <1>5, <1>6 DEF SessionsKnown, AccountTyped
<1> QED
  BY <1>1, <1>5, <1>7, HandlerEnds, ServedEnds, ServedStays DEF SessionsKnown, Logins!Handle

LEMMA FailSession ==
  ASSUME SessionsKnown, NEW r \in Requests, Logins!Fail(r)
  PROVE  /\ SessionsKnown' /\ UNCHANGED <<clock, row, sessions, changed>>
         /\ loginPc'[r] = "idle" /\ lockEnd'[r] = Null
<1>1. UNCHANGED <<clock, row, sessions, changed>> /\ Logins!Done(r)
  BY DEF Logins!Fail
<1> QED
  BY <1>1, HandlerEnds, ServedEnds, ServedStays, AccountStays DEF SessionsKnown

LEMMA TickSession ==
  ASSUME SessionsKnown, Logins!Tick
  PROVE  /\ SessionsKnown' /\ clock' = clock + 1 /\ clock \in Nat
         /\ UNCHANGED <<row, sessions, loginPc, loginCall, loginRow, lockEnd, changed>>
<1>1. /\ clock < LoginTime /\ clock' = clock + 1
      /\ UNCHANGED <<row, sessions, loginPc, loginCall, loginRow, lockEnd, changed>>
  BY DEF Logins!Tick
<1>2. AccountTyped' /\ clock \in Nat
  BY <1>1, SessionAssumptions DEF SessionsKnown, AccountTyped
<1> QED
  BY <1>1, <1>2 DEF SessionsKnown, HandlersTyped, ServedCall

LEMMA SessionsStep ==
  ASSUME SessionsKnown, Logins!Next \/ Logins!SerialNext
  PROVE  SessionsKnown'
BY BeginSession, FindSession, CompareSession, IncrementSession, RereadSession, LockSession, ClearSession,
  SignSession, WriteSession, FailSession, TickSession DEF Logins!Next, Logins!SerialNext, Logins!Handle

-----------------------------------------------------------------------------
(* Logins at once: the failures, and the handlers that stand for them.        *)

LEMMA OneMoreOrLess ==
  ASSUME NEW S \in SUBSET Requests, NEW T \in SUBSET Requests, NEW r \in Requests, T \ {r} = S \ {r}
  PROVE  /\ Cardinality(S) \in Nat /\ Cardinality(T) \in Nat
         /\ r \in S /\ r \in T => Cardinality(T) = Cardinality(S)
         /\ r \notin S /\ r \notin T => Cardinality(T) = Cardinality(S)
         /\ r \notin S /\ r \in T => Cardinality(T) = Cardinality(S) + 1
         /\ r \in S /\ r \notin T => Cardinality(T) = Cardinality(S) - 1
<1>1. IsFiniteSet(S) /\ IsFiniteSet(T)
  BY FS_Subset, SessionAssumptions
<1>2. Cardinality(S) \in Nat /\ Cardinality(T) \in Nat
  BY <1>1, FS_CardinalityType
<1>3. /\ Cardinality(S \ {r}) = IF r \in S THEN Cardinality(S) - 1 ELSE Cardinality(S)
      /\ Cardinality(T \ {r}) = IF r \in T THEN Cardinality(T) - 1 ELSE Cardinality(T)
  BY <1>1, FS_RemoveElement
<1>4. Cardinality(T \ {r}) = Cardinality(S \ {r})
  OBVIOUS
<1> DEFINE s == Cardinality(S)
           t == Cardinality(T)
<1>5. (IF r \in T THEN t - 1 ELSE t) = (IF r \in S THEN s - 1 ELSE s) /\ s \in Nat /\ t \in Nat
  BY <1>2, <1>3, <1>4
<1> HIDE DEF s, t
<1>6. /\ s \in Nat /\ t \in Nat
      /\ r \in S /\ r \in T => t = s
      /\ r \notin S /\ r \notin T => t = s
      /\ r \notin S /\ r \in T => t = s + 1
      /\ r \in S /\ r \notin T => t = s - 1
  BY <1>5
<1> QED
  BY <1>6 DEF s, t

LEMMA TwoKinds ==
  /\ Guessing \in SUBSET Requests /\ Counted \in SUBSET Requests
  /\ Cardinality(Guessing) \in Nat /\ Cardinality(Counted) \in Nat /\ Cardinality(Requests) \in Nat
  /\ Cardinality(Guessing) + Cardinality(Counted) <= Cardinality(Requests)
<1>1. Guessing \in SUBSET Requests /\ Counted \in SUBSET Requests /\ Guessing \cap Counted = {}
  BY DEF Guessing, Counted
<1>2. IsFiniteSet(Guessing) /\ IsFiniteSet(Counted) /\ IsFiniteSet(Requests)
  BY <1>1, FS_Subset, SessionAssumptions
<1>3. Cardinality(Guessing) \in Nat /\ Cardinality(Counted) \in Nat /\ Cardinality(Requests) \in Nat
  BY <1>2, FS_CardinalityType
<1>4. Cardinality(Guessing \cup Counted) = Cardinality(Guessing) + Cardinality(Counted) - Cardinality({})
  BY <1>1, <1>2, FS_Union
<1>5. Guessing \cup Counted \in SUBSET Requests
  BY <1>1
<1>6. Cardinality(Guessing \cup Counted) <= Cardinality(Requests)
  BY <1>2, <1>5, FS_Subset
<1> QED
  BY <1>1, <1>3, <1>4, <1>6, FS_EmptySet

LEMMA KindsMove ==
  ASSUME SessionsKnown, NEW r \in Requests, Logins!Handle(r)
  PROVE  /\ Cardinality(Guessing) \in Nat /\ Cardinality(Guessing') \in Nat
         /\ Cardinality(Counted) \in Nat /\ Cardinality(Counted') \in Nat
         /\ (r \in Guessing <=> r \in Guessing') => Cardinality(Guessing') = Cardinality(Guessing)
         /\ r \in Guessing /\ r \notin Guessing' => Cardinality(Guessing') = Cardinality(Guessing) - 1
         /\ (r \in Counted <=> r \in Counted') => Cardinality(Counted') = Cardinality(Counted)
         /\ r \notin Counted /\ r \in Counted' => Cardinality(Counted') = Cardinality(Counted) + 1
<1>1. Guessing' \ {r} = Guessing \ {r} /\ Counted' \ {r} = Counted \ {r}
  BY OtherLogins DEF Guessing, Counted
<1>2. /\ Guessing \in SUBSET Requests /\ Guessing' \in SUBSET Requests
      /\ Counted \in SUBSET Requests /\ Counted' \in SUBSET Requests
  BY DEF Guessing, Counted
<1> QED
  BY <1>1, <1>2, OneMoreOrLess

LEMMA LocksLast ==
  ASSUME SessionsKnown, FailuresCounted, row.lockedUntil # Null
  PROVE  Logins!Locked(row)
<1>1. clock \in Nat /\ row.lockedUntil \in Nat /\ Lock \in Nat
  BY SessionAssumptions DEF SessionsKnown, AccountTyped, Logins!Row, Logins!Seconds
<1> QED
  BY <1>1 DEF FailuresCounted, WithinOneLock, Logins!Locked

LEMMA FailuresStay ==
  ASSUME SessionsKnown, FailuresCounted, WithinOneLock', NEW r \in Requests, Logins!Handle(r),
         row'.attempts = row.attempts, row'.lockedUntil = row.lockedUntil,
         lockEnd'[r] # Null => lockEnd'[r] >= Lock,
         r \in Counted <=> r \in Counted',
         row.lockedUntil # Null => (r \in Guessing' => r \in Guessing)
  PROVE  FailuresCounted'
<1>1. row.attempts \in Nat /\ MaxAttempts \in Nat /\ Cardinality(Requests) \in Nat
  BY SessionAssumptions, TwoKinds DEF SessionsKnown, AccountTyped, Logins!Row
<1>2. \A q \in Requests : lockEnd'[q] # Null => lockEnd'[q] >= Lock
  BY OtherLogins DEF FailuresCounted
<1>3. Cardinality(Counted') = Cardinality(Counted)
  BY KindsMove
<1>4. row.lockedUntil # Null => Cardinality(Guessing') <= Cardinality(Guessing)
  BY KindsMove
<1>5. Cardinality(Guessing) \in Nat /\ Cardinality(Guessing') \in Nat /\ Cardinality(Counted) \in Nat
  BY KindsMove
<1> QED
  BY <1>1, <1>2, <1>3, <1>4, <1>5 DEF FailuresCounted

LEMMA FailuresStep ==
  ASSUME SessionsKnown, FailuresCounted, WithinOneLock', NEW r \in Requests, Logins!Handle(r)
  PROVE  FailuresCounted'
<1> DEFINE c == loginCall[r]
<1>1. /\ row.attempts \in Nat /\ MaxAttempts \in Nat \ {0} /\ Cardinality(Requests) \in Nat /\ Lock \in Nat
      /\ row \in Logins!Row /\ clock \in Nat
      /\ Cardinality(Guessing) + Cardinality(Counted) <= Cardinality(Requests)
  BY SessionAssumptions, TwoKinds DEF SessionsKnown, AccountTyped, Logins!Row
<1>2. /\ Cardinality(Guessing) \in Nat /\ Cardinality(Guessing') \in Nat
      /\ Cardinality(Counted) \in Nat /\ Cardinality(Counted') \in Nat
  BY KindsMove
<1>3. CASE Logins!Begin(r)
  <2>1. r \notin Guessing' /\ r \notin Counted /\ r \notin Counted' /\ UNCHANGED <<row, lockEnd>>
    BY <1>3, BeginSession DEF Guessing, Counted
  <2> QED
    BY <2>1, FailuresStay DEF FailuresCounted
<1>4. CASE Logins!Find(r)
  <2>1. r \notin Counted /\ UNCHANGED row /\ c \in Logins!Call
    BY <1>4, FindDecides DEF Counted
  <2>2. CASE Logins!Done(r)
    <3>1. loginPc'[r] = "idle" /\ lockEnd'[r] = Null
      BY <2>2, HandlerEnds DEF SessionsKnown
    <3> QED
      BY <2>1, <3>1, FailuresStay DEF Guessing, Counted
  <2>3. CASE ~Logins!Done(r)
    <3>1. /\ loginPc'[r] \in {"compare", "write", "clear", "sign"} /\ loginCall'[r] = c /\ lockEnd' = lockEnd
          /\ c.op = "login" => ~Logins!Locked(row)
      BY <1>4, <2>3, FindDecides DEF SessionsKnown, HandlersTyped
    <3>2. row.lockedUntil # Null => r \notin Guessing'
      BY <3>1, LocksLast DEF Guessing
    <3>3. r \notin Counted'
      BY <3>1 DEF Counted
    <3> QED
      BY <2>1, <3>1, <3>2, <3>3, FailuresStay DEF FailuresCounted
  <2> QED
    BY <2>2, <2>3
<1>5. CASE Logins!Compare(r)
  <2>1. loginPc[r] = "compare" /\ r \notin Counted /\ UNCHANGED row /\ c.op \in {"login", "change"}
    BY <1>5, CompareDecides DEF Counted
  <2>2. CASE Logins!Done(r)
    <3>1. loginPc'[r] = "idle" /\ lockEnd'[r] = Null
      BY <2>2, HandlerEnds DEF SessionsKnown
    <3> QED
      BY <2>1, <3>1, FailuresStay DEF Guessing, Counted
  <2>3. ASSUME NEW step \in {"write", "clear", "sign", "increment"}, Logins!On(r, step), step = "increment" => c.op = "login"
        PROVE  FailuresCounted'
    <3>1. loginPc'[r] = step /\ loginCall' = loginCall /\ lockEnd' = lockEnd
      BY <2>1, <2>3, HandlerGoesOn DEF SessionsKnown, Logins!Steps
    <3>2. (r \in Guessing' => r \in Guessing) /\ r \notin Counted'
      BY <2>1, <2>3, <3>1 DEF Guessing, Counted
    <3> QED
      BY <2>1, <3>1, <3>2, FailuresStay DEF FailuresCounted
  <2> QED
    BY <1>5, <2>2, <2>3, CompareDecides
<1>6. CASE Logins!Increment(r)
  <2>1. /\ loginPc[r] = "increment" /\ loginPc'[r] = "reread" /\ lockEnd' = lockEnd
        /\ row' = [row EXCEPT !.attempts = row.attempts + 1]
    BY <1>6, IncrementSession
  <2>2. c.op = "login"
    BY <2>1 DEF SessionsKnown, ServedCall
  <2>3. r \in Guessing /\ r \notin Guessing' /\ r \notin Counted /\ r \in Counted'
    BY <2>1, <2>2 DEF Guessing, Counted
  <2>4. Cardinality(Guessing') = Cardinality(Guessing) - 1 /\ Cardinality(Counted') = Cardinality(Counted) + 1
    BY <2>3, KindsMove
  <2>5. row'.attempts = row.attempts + 1 /\ row'.lockedUntil = row.lockedUntil
    BY <1>1, <2>1 DEF Logins!Row
  <2> QED
    BY <1>1, <1>2, <2>1, <2>4, <2>5 DEF FailuresCounted
<1>7. CASE Logins!Reread(r)
  <2>1. loginPc[r] = "reread" /\ UNCHANGED row /\ r \in Counted
    BY <1>7, RereadSession DEF Counted
  <2>2. CASE Logins!LockDue(row)
    <3>1. loginPc'[r] = "lock" /\ lockEnd'[r] = Logins!Rounded(clock) + Lock
      BY <1>7, <2>2, RereadSession
    <3>2. lockEnd'[r] >= Lock
      BY <1>1, <3>1, HalvesOfSeconds
    <3>3. r \in Counted' /\ r \notin Guessing'
      BY <3>1 DEF Counted, Guessing
    <3> QED
      BY <2>1, <3>2, <3>3, FailuresStay
  <2>3. CASE ~Logins!LockDue(row)
    <3>1. loginPc'[r] = "idle" /\ lockEnd'[r] = Null /\ r \notin Guessing' /\ r \notin Guessing
      BY <1>7, <2>1, <2>3, RereadSession DEF Guessing
    <3>2. Cardinality(Guessing') = Cardinality(Guessing)
      BY <3>1, KindsMove
    <3>3. row.attempts <= MaxAttempts - 1
      BY <1>1, <2>3 DEF Logins!LockDue
    <3>4. \A q \in Requests : lockEnd'[q] # Null => lockEnd'[q] >= Lock
      BY <3>1, OtherLogins DEF FailuresCounted
    <3> QED
      BY <1>1, <1>2, <2>1, <3>2, <3>3, <3>4 DEF FailuresCounted
  <2> QED
    BY <2>2, <2>3
<1>8. CASE Logins!LockAccount(r)
  <2>1. /\ loginPc[r] = "lock" /\ loginPc'[r] = "idle" /\ lockEnd'[r] = Null /\ lockEnd[r] # Null
        /\ row' = [row EXCEPT !.lockedUntil = lockEnd[r]]
    BY <1>8, LockSession
  <2>2. row'.attempts = row.attempts /\ row'.lockedUntil = lockEnd[r] /\ lockEnd[r] >= Lock
    BY <1>1, <2>1 DEF Logins!Row, FailuresCounted
  <2>3. Cardinality(Guessing') = Cardinality(Guessing)
    <3>1. r \notin Guessing /\ r \notin Guessing'
      BY <2>1 DEF Guessing
    <3> QED
      BY <3>1, KindsMove
  <2>4. row.attempts + Cardinality(Guessing) <= MaxAttempts - 1 + Cardinality(Requests)
    BY <1>1, <1>2 DEF FailuresCounted
  <2>5. \A q \in Requests : lockEnd'[q] # Null => lockEnd'[q] >= Lock
    BY <2>1, OtherLogins DEF FailuresCounted
  <2> QED
    BY <2>1, <2>2, <2>3, <2>4, <2>5 DEF FailuresCounted
<1>9. CASE Logins!Clear(r)
  <2>1. row'.attempts = 0 /\ row'.lockedUntil = Null
    BY <1>1, <1>9, ClearSession DEF Logins!Row
  <2>2. \A q \in Requests : lockEnd'[q] # Null => lockEnd'[q] >= Lock
    BY <1>9, ClearSession, OtherLogins DEF FailuresCounted
  <2> QED
    BY <1>1, <1>2, <2>1, <2>2 DEF FailuresCounted
<1>10. CASE Logins!Sign(r)
  BY <1>10, SignSession, FailuresStay DEF Guessing, Counted
<1>11. CASE Logins!Write(r)
  <2>1. /\ loginPc[r] = "write" /\ loginPc'[r] = "idle" /\ lockEnd'[r] = Null
        /\ row' = [row EXCEPT !.password = row.password + 1, !.changedAt = Logins!Rounded(clock)]
    BY <1>11, WriteSession
  <2>2. row'.attempts = row.attempts /\ row'.lockedUntil = row.lockedUntil
    BY <1>1, <2>1 DEF Logins!Row
  <2> QED
    BY <2>1, <2>2, FailuresStay DEF Guessing, Counted
<1> QED
  BY <1>3, <1>4, <1>5, <1>6, <1>7, <1>8, <1>9, <1>10, <1>11 DEF Logins!Handle

LEMMA FailuresLimited ==
  ASSUME SessionsKnown, FailuresCounted
  PROVE  Logins!GuessesPerLock
<1>1. /\ row.attempts \in Nat /\ MaxAttempts \in Nat
      /\ Cardinality(Guessing) \in Nat /\ Cardinality(Counted) \in Nat /\ Cardinality(Requests) \in Nat
      /\ Cardinality(Guessing) + Cardinality(Counted) <= Cardinality(Requests)
  BY SessionAssumptions, TwoKinds DEF SessionsKnown, AccountTyped, Logins!Row
<1>2. row.attempts <= MaxAttempts - 1 + Cardinality(Requests)
  BY <1>1 DEF FailuresCounted
<1>3. Logins!Cardinality(Requests) = Cardinality(Requests)
  BY DEF Logins!Cardinality, Cardinality
<1> QED
  BY <1>2, <1>3 DEF Logins!GuessesPerLock

-----------------------------------------------------------------------------
(* Logins in turn *)

LEMMA AccountTypes ==
  ASSUME SessionsKnown
  PROVE  /\ clock \in Nat /\ row.password \in Logins!Passwords /\ row.password \in Nat
         /\ row.attempts \in Nat /\ MaxAttempts \in Nat
         /\ changed[row.password] \in Nat \cup {Null}
         /\ Null \notin Nat
         /\ \A token \in sessions : token.iat \in Nat /\ token.password \in Nat
BY SessionAssumptions DEF SessionsKnown, AccountTyped, Logins!Row, Logins!Passwords, Logins!RefreshToken, Logins!Seconds

LEMMA OneStays ==
  ASSUME SessionsKnown, LoginsInTurn, NEW r \in Requests, \A q \in Requests \ {r} : loginPc[q] = "idle",
         Logins!Handle(r) \/ Logins!Fail(r)
  PROVE  OneLogin' /\ \A q \in Requests \ {r} : loginPc'[q] = "idle"
<1>1. \A q \in Requests \ {r} : loginPc'[q] = "idle"
  BY OtherLogins
<1> QED
  BY <1>1 DEF OneLogin

(* A step that leaves the account and the tokens as they are.                 *)
LEMMA AccountUntouched ==
  ASSUME SessionsKnown, LoginsInTurn, NEW r \in Requests, \A q \in Requests \ {r} : loginPc[q] = "idle",
         Logins!Handle(r) \/ Logins!Fail(r), UNCHANGED <<clock, row, sessions, changed>>,
         loginPc'[r] = "lock" => row.attempts >= MaxAttempts,
         loginPc'[r] \in {"compare", "clear", "sign"} => loginRow'[r].password = row.password
  PROVE  LoginsInTurn'
<1>1. OneLogin' /\ \A q \in Requests \ {r} : loginPc'[q] = "idle"
  BY OneStays
<1>2. LocksEarned' /\ PresentRead'
  BY <1>1 DEF LoginsInTurn, LocksEarned, PresentRead
<1>3. ChangeDated' /\ TokensTell'
  BY DEF LoginsInTurn, ChangeDated, TokensTell, TokenTells
<1> QED
  BY <1>1, <1>2, <1>3 DEF LoginsInTurn

(* A step that writes of the account only the failures and the lock.           *)
LEMMA FailuresWritten ==
  ASSUME SessionsKnown, LoginsInTurn, NEW r \in Requests, \A q \in Requests \ {r} : loginPc[q] = "idle",
         Logins!Handle(r), UNCHANGED <<clock, sessions, changed>>,
         row'.password = row.password, row'.changedAt = row.changedAt,
         row'.lockedUntil # Null => row'.attempts >= MaxAttempts, loginPc'[r] # "lock",
         loginPc'[r] \in {"compare", "clear", "sign"} => loginRow'[r].password = row.password
  PROVE  LoginsInTurn'
<1>1. OneLogin' /\ \A q \in Requests \ {r} : loginPc'[q] = "idle"
  BY OneStays
<1>2. LocksEarned' /\ PresentRead'
  BY <1>1 DEF LocksEarned, PresentRead
<1>3. ChangeDated' /\ TokensTell'
  BY DEF LoginsInTurn, ChangeDated, TokensTell, TokenTells
<1> QED
  BY <1>1, <1>2, <1>3 DEF LoginsInTurn

LEMMA SignInTurn ==
  ASSUME SessionsKnown, LoginsInTurn, NEW r \in Requests, \A q \in Requests \ {r} : loginPc[q] = "idle", Logins!Sign(r)
  PROVE  LoginsInTurn'
<1> DEFINE new == [iat |-> Logins!Second(clock), password |-> loginRow[r].password]
<1>1. /\ UNCHANGED <<clock, row, changed>> /\ loginPc[r] = "sign" /\ loginPc'[r] = "idle"
      /\ sessions' \subseteq sessions \cup {new}
  BY SignSession
<1>2. OneLogin' /\ \A q \in Requests \ {r} : loginPc'[q] = "idle"
  BY OneStays DEF Logins!Handle
<1>3. LocksEarned' /\ PresentRead' /\ ChangeDated'
  BY <1>1, <1>2 DEF LoginsInTurn, LocksEarned, PresentRead, ChangeDated
<1>4. new.iat = Logins!Second(clock) /\ new.password = row.password
  BY <1>1 DEF LoginsInTurn, PresentRead
<1> HIDE DEF new
<1>5. TokenTells(new)
  <2>1. changed[row.password] # Null => Logins!Second(changed[row.password]) <= Logins!Second(clock)
    BY AccountTypes, LaterSecond DEF LoginsInTurn, ChangeDated
  <2>2. Logins!Second(clock) \in Nat /\ row.password \in Nat
    BY AccountTypes, HalvesOfSeconds
  <2>3. changed[row.password] # Null => Logins!Second(changed[row.password]) \in Nat
    BY AccountTypes, HalvesOfSeconds
  <2> QED
    BY <1>4, <2>1, <2>2, <2>3 DEF TokenTells
<1>6. TokensTell'
  BY <1>1, <1>5 DEF LoginsInTurn, TokensTell, TokenTells
<1> QED
  BY <1>2, <1>3, <1>6 DEF LoginsInTurn

LEMMA WriteInTurn ==
  ASSUME SessionsKnown, LoginsInTurn, NEW r \in Requests, \A q \in Requests \ {r} : loginPc[q] = "idle", Logins!Write(r)
  PROVE  LoginsInTurn'
<1>1. /\ UNCHANGED <<clock, sessions>> /\ loginPc[r] = "write" /\ loginPc'[r] = "idle"
      /\ row.password + 1 \in Logins!Passwords
      /\ row' = [row EXCEPT !.password = row.password + 1, !.changedAt = Logins!Rounded(clock)]
      /\ changed' = [changed EXCEPT ![row.password + 1] = clock]
  BY WriteSession
<1>2. OneLogin' /\ \A q \in Requests \ {r} : loginPc'[q] = "idle"
  BY OneStays DEF Logins!Handle
<1>3. /\ row'.password = row.password + 1 /\ row'.changedAt = Logins!Rounded(clock)
      /\ row'.attempts = row.attempts /\ row'.lockedUntil = row.lockedUntil
  BY <1>1 DEF SessionsKnown, AccountTyped, Logins!Row
<1>4. changed'[row'.password] = clock
  BY <1>1, <1>3 DEF SessionsKnown, AccountTyped
<1>5. LocksEarned' /\ PresentRead'
  BY <1>1, <1>2, <1>3 DEF LoginsInTurn, LocksEarned, PresentRead
<1>6. ChangeDated'
  BY <1>1, <1>3, <1>4, AccountTypes DEF ChangeDated
<1>7. TokensTell'
  <2> SUFFICES ASSUME NEW token \in sessions PROVE TokenTells(token)'
    BY <1>1 DEF TokensTell
  <2>1. token.iat <= Logins!Second(clock) /\ token.password <= row.password
    BY DEF LoginsInTurn, TokensTell, TokenTells
  <2>2. token.password \in Nat /\ row.password \in Nat /\ clock # Null
    BY AccountTypes
  <2>3. token.password < row.password + 1
    BY <2>1, <2>2
  <2> QED
    BY <1>1, <1>3, <1>4, <2>1, <2>2, <2>3 DEF TokenTells
<1> QED
  BY <1>2, <1>5, <1>6, <1>7 DEF LoginsInTurn

LEMMA TickInTurn ==
  ASSUME SessionsKnown, LoginsInTurn, Logins!Tick
  PROVE  LoginsInTurn'
<1>1. /\ clock' = clock + 1 /\ clock \in Nat
      /\ UNCHANGED <<row, sessions, loginPc, loginCall, loginRow, lockEnd, changed>>
  BY TickSession
<1>2. Logins!Second(clock) <= Logins!Second(clock') /\ Logins!Second(clock) \in Nat /\ Logins!Second(clock') \in Nat
  BY <1>1, LaterSecond, HalvesOfSeconds
<1>3. OneLogin' /\ LocksEarned' /\ PresentRead'
  BY <1>1 DEF LoginsInTurn, OneLogin, LocksEarned, PresentRead
<1>4. ChangeDated'
  BY <1>1, AccountTypes DEF LoginsInTurn, ChangeDated
<1>5. TokensTell'
  <2> SUFFICES ASSUME NEW token \in sessions PROVE TokenTells(token)'
    BY <1>1 DEF TokensTell
  <2>1. TokenTells(token) /\ token.iat \in Nat
    BY AccountTypes DEF LoginsInTurn, TokensTell
  <2> QED
    BY <1>1, <1>2, <2>1 DEF TokenTells
<1> QED
  BY <1>3, <1>4, <1>5 DEF LoginsInTurn

LEMMA InTurnStep ==
  ASSUME SessionsKnown, LoginsInTurn, NEW r \in Requests, \A q \in Requests \ {r} : loginPc[q] = "idle",
         Logins!Handle(r) \/ Logins!Fail(r)
  PROVE  LoginsInTurn'
<1>1. row \in Logins!Row /\ row.attempts \in Nat /\ MaxAttempts \in Nat
  BY SessionAssumptions DEF SessionsKnown, AccountTyped, Logins!Row
<1>2. CASE Logins!Begin(r)
  BY <1>2, BeginSession, AccountUntouched
<1>3. CASE Logins!Find(r)
  <2>1. CASE Logins!Done(r)
    <3>1. loginPc'[r] = "idle"
      BY <2>1, HandlerEnds DEF SessionsKnown
    <3> QED
      BY <1>3, <3>1, FindDecides, AccountUntouched
  <2>2. CASE ~Logins!Done(r)
    <3>1. /\ loginPc'[r] \in {"compare", "write", "clear", "sign"} /\ loginRow'[r] = row
          /\ UNCHANGED <<clock, row, sessions, changed>>
      BY <1>3, <2>2, FindDecides DEF SessionsKnown, HandlersTyped
    <3> QED
      BY <3>1, AccountUntouched
  <2> QED
    BY <2>1, <2>2
<1>4. CASE Logins!Compare(r)
  <2>1. loginPc[r] = "compare" /\ UNCHANGED <<clock, row, sessions, changed>>
    BY <1>4, CompareDecides
  <2>2. CASE Logins!Done(r)
    <3>1. loginPc'[r] = "idle"
      BY <2>2, HandlerEnds DEF SessionsKnown
    <3> QED
      BY <2>1, <3>1, AccountUntouched
  <2>3. ASSUME NEW step \in {"write", "clear", "sign", "increment"}, Logins!On(r, step) PROVE LoginsInTurn'
    <3>1. loginPc'[r] = step /\ loginRow' = loginRow
      BY <2>1, <2>3, HandlerGoesOn DEF SessionsKnown, Logins!Steps
    <3>2. loginRow[r].password = row.password
      BY <2>1 DEF LoginsInTurn, PresentRead
    <3> QED
      BY <2>1, <3>1, <3>2, AccountUntouched
  <2> QED
    BY <1>4, <2>2, <2>3, CompareDecides
<1>5. CASE Logins!Increment(r)
  <2>1. loginPc'[r] = "reread" /\ row' = [row EXCEPT !.attempts = row.attempts + 1] /\ UNCHANGED <<clock, sessions, changed>>
    BY <1>5, IncrementSession
  <2>2. /\ row'.attempts = row.attempts + 1 /\ row'.password = row.password
        /\ row'.changedAt = row.changedAt /\ row'.lockedUntil = row.lockedUntil
    BY <1>1, <2>1 DEF Logins!Row
  <2>3. row'.lockedUntil # Null => row'.attempts >= MaxAttempts
    BY <1>1, <2>2 DEF LoginsInTurn, LocksEarned
  <2> QED
    BY <1>5, <2>1, <2>2, <2>3, FailuresWritten DEF Logins!Handle
<1>6. CASE Logins!Reread(r)
  BY <1>6, RereadSession, AccountUntouched DEF Logins!LockDue
<1>7. CASE Logins!LockAccount(r)
  <2>1. /\ loginPc[r] = "lock" /\ loginPc'[r] = "idle" /\ row' = [row EXCEPT !.lockedUntil = lockEnd[r]]
        /\ UNCHANGED <<clock, sessions, changed>>
    BY <1>7, LockSession
  <2>2. row'.attempts = row.attempts /\ row'.password = row.password /\ row'.changedAt = row.changedAt
    BY <1>1, <2>1 DEF Logins!Row
  <2>3. row.attempts >= MaxAttempts
    BY <2>1 DEF LoginsInTurn, LocksEarned
  <2> QED
    BY <1>7, <2>1, <2>2, <2>3, FailuresWritten DEF Logins!Handle
<1>8. CASE Logins!Clear(r)
  <2>1. /\ loginPc[r] = "clear" /\ row' = [row EXCEPT !.attempts = 0, !.lockedUntil = Null]
        /\ UNCHANGED <<clock, sessions, changed>>
        /\ loginPc'[r] = "idle" \/ (loginPc'[r] = "sign" /\ loginRow' = loginRow)
    BY <1>8, ClearSession
  <2>2. row'.lockedUntil = Null /\ row'.password = row.password /\ row'.changedAt = row.changedAt
    BY <1>1, <2>1 DEF Logins!Row
  <2>3. loginRow[r].password = row.password
    BY <2>1 DEF LoginsInTurn, PresentRead
  <2> QED
    BY <1>8, <2>1, <2>2, <2>3, FailuresWritten DEF Logins!Handle
<1>9. CASE Logins!Fail(r)
  BY <1>9, FailSession, AccountUntouched
<1> QED
  BY <1>2, <1>3, <1>4, <1>5, <1>6, <1>7, <1>8, <1>9, SignInTurn, WriteInTurn DEF Logins!Handle

(* A token has the second of the change, or tells by its time what was before.  *)
LEMMA TimesTell ==
  ASSUME SessionsKnown, LoginsInTurn, NEW token \in sessions,
         ~(changed[row.password] # Null /\ token.iat = Logins!Second(changed[row.password]))
  PROVE  Logins!Ended(row, token) <=> token.password # row.password
<1>1. token.iat \in Nat /\ token.password \in Nat /\ row.password \in Nat /\ Null \notin Nat
      /\ changed[row.password] \in Nat \cup {Null}
  BY AccountTypes
<1>2. /\ row.changedAt = IF changed[row.password] = Null THEN Null ELSE Logins!Rounded(changed[row.password])
      /\ TokenTells(token)
  BY DEF LoginsInTurn, ChangeDated, TokensTell
<1>3. CASE changed[row.password] = Null
  BY <1>1, <1>2, <1>3 DEF TokenTells, Logins!Ended
<1>4. CASE changed[row.password] # Null
  <2> DEFINE s == Logins!Second(changed[row.password])
             t == Logins!Rounded(changed[row.password])
  <2>1. s \in Nat /\ t \in Nat /\ s <= t /\ t <= s + 1 /\ row.changedAt = t /\ row.changedAt # Null
    BY <1>1, <1>2, <1>4, HalvesOfSeconds
  <2>2. /\ token.password = row.password => token.iat >= s
        /\ token.password < row.password => token.iat <= s
        /\ token.password <= row.password /\ token.iat # s
    BY <1>2, <1>4 DEF TokenTells
  <2>3. Logins!Ended(row, token) <=> t > token.iat
    BY <2>1 DEF Logins!Ended
  <2> HIDE DEF s, t
  <2> QED
    BY <1>1, <2>1, <2>2, <2>3
<1> QED
  BY <1>3, <1>4

LEMMA SessionsEnd ==
  ASSUME SessionsKnown, LoginsInTurn, Logins!SerialNext
  PROVE  Logins!PasswordEndsSessions
<1> SUFFICES ASSUME NEW r \in Requests, Logins!Passes(r) \/ Logins!Refused(r),
                    ~(changed[row.password] # Null /\ loginCall[r].token.iat = Logins!Second(changed[row.password]))
             PROVE  /\ Logins!Passes(r) => loginCall[r].token.password = row.password
                    /\ Logins!Refused(r) => loginCall[r].token.password # row.password
  BY DEF Logins!PasswordEndsSessions
<1>1. /\ loginPc[r] = "find" /\ loginCall[r].op = "refresh" /\ loginPc'[r] # "find"
      /\ Logins!Passes(r) => loginPc'[r] = "sign"
      /\ Logins!Refused(r) => Logins!Ended(row, loginCall[r].token)
  BY DEF Logins!Passes, Logins!Refused
<1>2. loginCall[r].token \in sessions
  BY <1>1 DEF SessionsKnown, HandlersTyped, ServedCall
<1>3. Logins!Ended(row, loginCall[r].token) <=> loginCall[r].token.password # row.password
  BY <1>2, TimesTell
<1>4. Logins!Passes(r) => ~Logins!Ended(row, loginCall[r].token)
  <2> SUFFICES ASSUME Logins!Passes(r) PROVE ~Logins!Ended(row, loginCall[r].token)
    OBVIOUS
  <2>1. PICK q \in Requests : Logins!Handle(q) \/ Logins!Fail(q)
    BY <1>1, TickSession DEF Logins!SerialNext
  <2>2. q = r
    BY <1>1, <2>1, OtherLogins
  <2>3. Logins!Find(r)
    BY <1>1, <2>1, <2>2, FailSession DEF Logins!Handle, Logins!Begin, Logins!Compare, Logins!Increment, Logins!Reread,
      Logins!LockAccount, Logins!Clear, Logins!Sign, Logins!Write
  <2>4. ~Logins!Done(r)
    BY <1>1, HandlerEnds DEF SessionsKnown
  <2> QED
    BY <1>1, <2>3, <2>4, FindDecides
<1> QED
  BY <1>1, <1>3, <1>4

LEMMA LocksMatch == LoginsInTurn => Logins!LockMatchesCounter
BY DEF LoginsInTurn, LocksEarned, Logins!LockMatchesCounter

LEMMA SessionsBegun == Begins => SessionsInv
BY SessionsBegin DEF Begins, SessionsInv

LEMMA SessionsLeftAlone ==
  ASSUME SessionsInv, UNCHANGED <<part, sessionVars>>
  PROVE  SessionsInv'
<1>1. UNCHANGED <<part, clock, row, sessions, loginPc, loginCall, loginRow, lockEnd, changed>>
  BY DEF sessionVars
<1>2. SessionsKnown => SessionsKnown'
  BY <1>1 DEF SessionsKnown, HandlersTyped, AccountTyped, ServedCall
<1>3. FailuresCounted => FailuresCounted'
  <2>1. Guessing' = Guessing /\ Counted' = Counted
    BY <1>1 DEF Guessing, Counted
  <2> QED
    BY <1>1, <2>1 DEF FailuresCounted, WithinOneLock
<1>4. LoginsInTurn => LoginsInTurn'
  BY <1>1 DEF LoginsInTurn, OneLogin, LocksEarned, PresentRead, ChangeDated, TokensTell, TokenTells
<1> QED
  BY <1>1, <1>2, <1>3, <1>4 DEF SessionsInv

LEMMA SessionsInvariance ==
  ASSUME SessionsInv, [Goes]_<<part, sessionVars, accountVars, vars>>
  PROVE  SessionsInv'
<1>1. CASE UNCHANGED <<part, sessionVars>>
  BY <1>1, SessionsLeftAlone
<1>2. CASE part = "logins" /\ Logins!Next /\ WithinOneLock' /\ part' = part
  <2>1. SessionsKnown /\ FailuresCounted /\ SessionsKnown'
    BY <1>2, SessionsStep DEF SessionsInv
  <2>2. CASE Logins!Tick
    <3>1. UNCHANGED <<row, sessions, loginPc, loginCall, loginRow, lockEnd, changed>>
      BY <2>1, <2>2, TickSession
    <3>2. Guessing' = Guessing /\ Counted' = Counted
      BY <3>1 DEF Guessing, Counted
    <3>3. FailuresCounted'
      BY <1>2, <2>1, <3>1, <3>2 DEF FailuresCounted
    <3> QED
      BY <1>2, <2>1, <3>3 DEF SessionsInv
  <2>3. ASSUME NEW r \in Requests, Logins!Handle(r) PROVE SessionsInv'
    BY <1>2, <2>1, <2>3, FailuresStep DEF SessionsInv
  <2> QED
    BY <1>2, <2>2, <2>3 DEF Logins!Next
<1>3. CASE part = "loginsInTurn" /\ Logins!SerialNext /\ part' = part
  <2>1. SessionsKnown /\ LoginsInTurn /\ SessionsKnown'
    BY <1>3, SessionsStep DEF SessionsInv
  <2>2. LoginsInTurn'
    BY <1>3, <2>1, TickInTurn, InTurnStep DEF Logins!SerialNext
  <2> QED
    BY <1>3, <2>1, <2>2 DEF SessionsInv
<1> QED
  BY <1>1, <1>2, <1>3 DEF Goes

(* validateUser, registerFailedLogin, changePassword and refresh: however       *)
(* logins interleave, the guesses during a lock are those the limit and the   *)
(* handlers allow; in turn, a lock has its failures, and a refresh passes      *)
(* exactly for the present password, but for the second of the change.        *)
THEOREM PasswordsAreGuarded == Behaviour => PasswordsGuarded
<1> DEFINE Guarded == /\ part = "logins" => (Logins!TypeOK /\ Logins!GuessesPerLock)'
                      /\ part = "loginsInTurn" => /\ (Logins!TypeOK /\ Logins!LockMatchesCounter)'
                                                  /\ Logins!PasswordEndsSessions
<1>1. ASSUME SessionsInv, [Goes]_<<part, sessionVars, accountVars, vars>> PROVE [Guarded]_sessionVars
  <2> SUFFICES ASSUME sessionVars' # sessionVars PROVE Guarded
    OBVIOUS
  <2>1. SessionsInv' /\ part' = part
    BY <1>1, SessionsInvariance DEF Goes
  <2>2. CASE part = "logins"
    <3>1. (SessionsKnown /\ FailuresCounted => Logins!TypeOK /\ Logins!GuessesPerLock)'
      BY SessionsAreTyped, FailuresLimited, PTL
    <3> QED
      BY <2>1, <2>2, <3>1 DEF SessionsInv
  <2>3. CASE part = "loginsInTurn"
    <3>1. (SessionsKnown /\ LoginsInTurn => Logins!TypeOK /\ Logins!LockMatchesCounter)'
      BY SessionsAreTyped, LocksMatch, PTL
    <3>2. Logins!PasswordEndsSessions
      BY <1>1, <2>3, SessionsEnd DEF Goes, SessionsInv
    <3> QED
      BY <2>1, <2>3, <3>1, <3>2 DEF SessionsInv
  <2> QED
    BY <2>2, <2>3
<1> QED
  BY <1>1, SessionsBegun, SessionsInvariance, PTL DEF Behaviour, PasswordsGuarded

-----------------------------------------------------------------------------
(* Grants *)

GrantsInv ==
  /\ part \in {"grants", "grantsInTurn"} => Inv
  /\ part = "grantsInTurn" => SerialInv

LEMMA GrantsInvariance ==
  ASSUME GrantsInv, [Goes]_<<part, sessionVars, accountVars, vars>>
  PROVE  GrantsInv'
<1>1. CASE UNCHANGED <<part, vars>>
  <2>1. (Inv => Inv') /\ (SerialInv => SerialInv')
    BY <1>1, StepSound, SerialStep
  <2> QED
    BY <1>1, <2>1 DEF GrantsInv
<1>2. CASE part = "grants" /\ Next /\ part' = part
  BY <1>2, StepSound DEF GrantsInv
<1>3. CASE part = "grantsInTurn" /\ SerialNext /\ part' = part
  BY <1>3, SerialStep DEF GrantsInv, SerialInv
<1> QED
  BY <1>1, <1>2, <1>3 DEF Goes

(* refresh, revoke and revokeToken, calls served one at a time and any of them  *)
(* possibly broken off: one live token per grant, none after the last was     *)
(* revoked.                                                                 *)
THEOREM GrantsDoEnd == Behaviour => GrantsEnd
<1> DEFINE Ended == part = "grantsInTurn" => OneLiveToken' /\ RevokedForGood
<1>1. Begins => GrantsInv
  BY InitSound, SerialInit DEF Begins, GrantsInv
<1>2. ASSUME GrantsInv, [Goes]_<<part, sessionVars, accountVars, vars>> PROVE [Ended]_vars
  <2> SUFFICES ASSUME vars' # vars, part = "grantsInTurn" PROVE OneLiveToken' /\ RevokedForGood
    OBVIOUS
  <2>1. SerialNext /\ SerialInv /\ Inv
    BY <1>2 DEF Goes, GrantsInv
  <2>2. SerialInv'
    BY <2>1, SerialStep
  <2>3. Next
    BY <2>1 DEF SerialNext, Next
  <2> QED
    BY <2>1, <2>2, <2>3, RevocationsHold DEF SerialInv
<1> QED
  BY <1>1, <1>2, GrantsInvariance, PTL DEF Behaviour, GrantsEnd

=============================================================================
