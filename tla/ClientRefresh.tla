------------------------------ MODULE ClientRefresh ------------------------------
(***************************************************************************)
(* The frontend's API client: requests that are answered 401 wait for one    *)
(* refresh of the session and are sent again; with the guards that answer    *)
(* 401, the provider that knows whether somebody is signed in, and the        *)
(* realtime socket, which is whom its cookies say when it connects.          *)
(* One account in one tab.                                                  *)
(***************************************************************************)
EXTENDS Naturals, FiniteSets

CONSTANTS
  Requests,
  MaxExpiries,  \* bound on the expiries of access tokens
  MaxFaults,    \* bound on lost or throttled refreshes, ended sessions, sign-ins and sign-outs
  Null

(* private: JwtAuthGuard.  optional: OptionalJwtAuthGuard.  wrong: a login or a *)
(* change of password with a wrong password, which is a 401 of its own.      *)
Kinds == {"private", "optional", "wrong"}

(* A settled request was served to the user or to a visitor, or rejected with *)
(* its own error or with the refresh's.                                     *)
Settled == {"served", "visitor", "ownError", "refreshError"}
Cookies == [access : BOOLEAN, refresh : BOOLEAN]
Request == [kind : Kinds, at : {"idle", "sent", "waiting"} \cup Settled, retry : BOOLEAN, with : Cookies]

RefreshAssumption ==
  /\ IsFiniteSet(Requests) /\ MaxExpiries \in Nat /\ MaxFaults \in Nat
  /\ Null \notin Cookies

VARIABLES
  cookies,   \* the session cookies of the browser
  alive,     \* the refresh token is one the server accepts
  requests,
  refresh,   \* refreshPromise: the cookies its request was sent with, or Null
  logouts,   \* POST /auth/logout under way
  signedIn,  \* AuthProvider's status
  socket,    \* the realtime socket is connected as the user
  expiries, faults

vars == <<cookies, alive, requests, refresh, logouts, signedIn, socket, expiries, faults>>

NoCookies == [access |-> FALSE, refresh |-> FALSE]
SentNow(r) == [r EXCEPT !.at = "sent", !.with = cookies]
In(state)  == {q \in Requests : requests[q].at = state}

Init ==
  /\ alive \in BOOLEAN
  /\ cookies \in {c \in Cookies : c.refresh = alive /\ (c.access => c.refresh)}
  /\ requests \in [Requests -> {r \in Request : r.at = "idle" /\ ~r.retry /\ r.with = NoCookies}]
  /\ refresh = Null /\ logouts = 0
  /\ signedIn = cookies.refresh /\ socket = cookies.access
  /\ expiries = 0 /\ faults = 0

-----------------------------------------------------------------------------
Send(q) ==
  /\ requests[q].at = "idle"
  /\ requests' = [requests EXCEPT ![q] = SentNow(@)]
  /\ UNCHANGED <<cookies, alive, refresh, logouts, signedIn, socket, expiries, faults>>

(* Mutant: the optional guard as it was, a visitor without an access token.  *)
AccessOnly(with) == with.access

(* OptionalJwtAuthGuard.hasSessionCookie *)
HasSessionCookie(with) == with.access \/ with.refresh

Unauthorized(r) ==
  \/ r.kind = "wrong"
  \/ r.kind = "private" /\ ~r.with.access
  \/ r.kind = "optional" /\ ~r.with.access /\ HasSessionCookie(r.with)

Answer(q) ==
  LET r == requests[q]
  IN /\ r.at = "sent" /\ ~Unauthorized(r)
     /\ requests' = [requests EXCEPT ![q].at = IF r.with.access THEN "served" ELSE "visitor"]
     /\ UNCHANGED <<cookies, alive, refresh, logouts, signedIn, socket, expiries, faults>>

(* Mutant: a request that was sent again may be sent again.                 *)
Always(r) == TRUE

MayRetry(r) == ~r.retry

(* The interceptor: a first 401 waits for the refresh under way, or starts it. *)
AnswerUnauthorized(q) ==
  LET r == requests[q]
  IN /\ r.at = "sent" /\ Unauthorized(r)
     /\ IF MayRetry(r)
          THEN /\ requests' = [requests EXCEPT ![q].at = "waiting", ![q].retry = TRUE]
               /\ refresh' = IF refresh = Null THEN cookies ELSE refresh
          ELSE /\ requests' = [requests EXCEPT ![q].at = "ownError"]
               /\ UNCHANGED refresh
     /\ UNCHANGED <<cookies, alive, logouts, signedIn, socket, expiries, faults>>

(* Mutant: only who started the refresh is woken.                           *)
WokenOne(q) == q = CHOOSE p \in In("waiting") : TRUE

Woken(q) == requests[q].at = "waiting"

(* POST /auth/refresh answers with a new access token: the socket connects    *)
(* again, and every request that waits is sent again.                       *)
Refreshed ==
  /\ refresh # Null /\ refresh.refresh /\ alive
  /\ cookies' = [cookies EXCEPT !.access = TRUE]
  /\ refresh' = Null
  /\ requests' = [q \in Requests |->
       IF Woken(q) THEN [requests[q] EXCEPT !.at = "sent", !.with = cookies'] ELSE requests[q]]
  /\ socket' = TRUE
  /\ UNCHANGED <<alive, logouts, signedIn, expiries, faults>>

(* Each request that waited logs out: the event, which also connects the      *)
(* socket again, and POST /auth/logout.                                     *)
RefreshRejected ==
  /\ refresh' = Null
  /\ requests' = [q \in Requests |->
       IF Woken(q) THEN [requests[q] EXCEPT !.at = "refreshError"] ELSE requests[q]]
  /\ logouts' = logouts + Cardinality(In("waiting"))
  /\ signedIn' = FALSE /\ socket' = cookies.access
  /\ UNCHANGED <<cookies, alive, expiries>>

RefreshRefused ==
  /\ refresh # Null /\ ~(refresh.refresh /\ alive)
  /\ RefreshRejected
  /\ UNCHANGED faults

(* The answer to a logout clears the cookies there are when it arrives.      *)
LoggedOut ==
  /\ logouts > 0
  /\ logouts' = logouts - 1 /\ cookies' = NoCookies
  /\ UNCHANGED <<alive, requests, refresh, signedIn, socket, expiries, faults>>

-----------------------------------------------------------------------------
(* The access cookie ends with its token.  Fifteen minutes are longer than a  *)
(* refresh and the request after it.                                        *)
Expire ==
  /\ cookies.access /\ expiries < MaxExpiries
  /\ \A q \in Requests : requests[q].at \in {"sent", "waiting"} => ~requests[q].retry
  /\ cookies' = [cookies EXCEPT !.access = FALSE] /\ expiries' = expiries + 1
  /\ UNCHANGED <<alive, requests, refresh, logouts, signedIn, socket, faults>>

Fault == faults < MaxFaults /\ faults' = faults + 1

(* A throttled refresh, a server error, a lost answer.                      *)
RefreshFails == refresh # Null /\ Fault /\ RefreshRejected

(* Another password, or the account deactivated: the server's refusals.      *)
SessionEnds ==
  /\ alive /\ Fault /\ alive' = FALSE
  /\ UNCHANGED <<cookies, requests, refresh, logouts, signedIn, socket, expiries>>

(* The button: AuthProvider.logout *)
SignOut ==
  /\ signedIn /\ Fault
  /\ signedIn' = FALSE /\ logouts' = logouts + 1
  /\ UNCHANGED <<cookies, alive, requests, refresh, socket, expiries>>

(* AuthProvider.login, with the right password.                             *)
SignIn ==
  /\ ~signedIn /\ Fault
  /\ cookies' = [access |-> TRUE, refresh |-> TRUE] /\ alive' = TRUE
  /\ signedIn' = TRUE /\ socket' = TRUE
  /\ UNCHANGED <<requests, refresh, logouts, expiries>>

Client == \E q \in Requests : Send(q)
Server == Refreshed \/ RefreshRefused \/ LoggedOut \/ \E q \in Requests : Answer(q) \/ AnswerUnauthorized(q)
Trouble == RefreshFails \/ SessionEnds \/ SignOut \/ SignIn

Next == Client \/ Server \/ Expire \/ Trouble

(* Somebody is signed in, and nothing fails.                                *)
CalmNext == Client \/ Server \/ Expire

-----------------------------------------------------------------------------
(* Properties *)

(* The client's state; who waits, waits for a refresh.                      *)
TypeOK ==
  /\ cookies \in Cookies /\ alive \in BOOLEAN
  /\ requests \in [Requests -> Request]
  /\ refresh \in Cookies \cup {Null} /\ (refresh = Null <=> In("waiting") = {})
  /\ logouts \in Nat /\ signedIn \in BOOLEAN /\ socket \in BOOLEAN
  /\ expiries \in 0..MaxExpiries /\ faults \in 0..MaxFaults

(* CHANGELOG 116: whenever the access token expires, and however the answers   *)
(* of several requests and refreshes interleave, a living session has every   *)
(* request served with its rights, is not ended, and has a socket of its own  *)
(* for as long as its access token lives.                                   *)
ServedBySession ==
  /\ signedIn /\ logouts = 0 /\ (cookies.access => socket)
  /\ \A q \in Requests : requests[q].at \in Settled =>
       requests[q].at = IF requests[q].kind = "wrong" THEN "ownError" ELSE "served"

=============================================================================
