------------------------------ MODULE ServiceProofs ------------------------------
(***************************************************************************)
(* Theorems about what MCService checks, for every value of its constants.     *)
(*                                                                           *)
(* Releases: what the release server answered was its last release at some     *)
(* moment of the request, so the invariant relates the cache to the request it  *)
(* came from and to the moment of the last publication.                        *)
(* The tab: who waits waits for a refresh that is under way.                    *)
(* The gate: what a request recalls was so at some moment of it, and what its   *)
(* operation needs is recalled or still to be looked up.                        *)
(* The content seed: the pages a start has visited stand where the release has  *)
(* them, and show its text but for the one it is at.                            *)
(***************************************************************************)
EXTENDS MCService, FiniteSetTheorems, SequenceTheorems, TLAPS

(* How long the last answer is kept.                                        *)
KeptFor == IF previous.ok THEN OkTTL ELSE FailTTL

CacheIsPrevious ==
  /\ cache = None <=> previous = None
  /\ previous # None => previous.ended <= now /\ cache.expires = previous.ended + KeptFor
  /\ (previous # None /\ previous.ok) <=> (cache # None /\ cache.release # None)

RequestsWait ==
  pending # None => now <= pending + Patience /\ (cache # None => cache.expires <= pending)

(* A release offered was replaced, if at all, during the request.              *)
OfferedIsRecent ==
  /\ pending = None => offered = {}
  /\ \A r \in offered : r # tag => pending <= tagged

KeptIsRecent ==
  (cache # None /\ cache.release # None /\ cache.release # tag) =>
    cache.expires <= tagged + Patience + OkTTL

ToastsAreNewer == \A t \in Tabs : toast[t] # None => IsNewer(toast[t], Current)

WatchInv ==
  /\ TypeOK
  /\ CacheIsPrevious /\ RequestsWait /\ OfferedIsRecent /\ KeptIsRecent /\ ToastsAreNewer

-----------------------------------------------------------------------------
(* Lexicographic order and numbers *)

(* A greater digit outweighs every digit below it.                           *)
LEMMA GreaterDigit ==
  ASSUME NEW a \in Nat, NEW b \in Nat, a > b,
         NEW x \in 0..(Radix - 1), NEW y \in 0..(Radix - 1)
  PROVE  a * Radix + x > b * Radix + y
<1>1. Radix \in Nat
  BY VersionAssumption
<1>2. PICK d \in Nat : a = b + 1 + d
  <2>1. a - b - 1 \in Nat /\ a = b + 1 + (a - b - 1)
    OBVIOUS
  <2> QED
    BY <2>1
<1>3. a * Radix = b * Radix + Radix + d * Radix
  BY <1>1, <1>2
<1>4. d * Radix \in Nat /\ b * Radix \in Nat
  BY <1>1
<1> QED
  BY <1>1, <1>3, <1>4

LEMMA NewerIsGreater ==
  ASSUME NEW v \in Versions, NEW w \in Versions, IsNewer(v, w)
  PROVE  Value(v) > Value(w)
<1> DEFINE Digits == 0..(Radix - 1)
<1>1. Radix \in Nat
  BY VersionAssumption
<1>2. v \in Digits \X Digits \X Digits /\ w \in Digits \X Digits \X Digits
  BY VersionAssumption
<1>3. v[1] \in Digits /\ v[2] \in Digits /\ v[3] \in Digits /\ w[1] \in Digits /\ w[2] \in Digits /\ w[3] \in Digits
  BY <1>2
<1>4. /\ v[1] * Radix \in Nat /\ w[1] * Radix \in Nat
      /\ v[1] * Radix + v[2] \in Nat /\ w[1] * Radix + w[2] \in Nat
  BY <1>1, <1>3
<1>5. \/ v[1] > w[1]
      \/ v[1] = w[1] /\ v[2] > w[2]
      \/ v[1] = w[1] /\ v[2] = w[2] /\ v[3] > w[3]
  BY DEF IsNewer
<1>6. CASE v[1] > w[1]
  <2>1. v[1] * Radix + v[2] > w[1] * Radix + w[2]
    BY <1>3, <1>6, GreaterDigit
  <2> QED
    BY <1>3, <1>4, <2>1, GreaterDigit DEF Value
<1>7. CASE v[1] = w[1] /\ v[2] > w[2]
  <2>1. v[1] * Radix + v[2] > w[1] * Radix + w[2]
    BY <1>3, <1>4, <1>7
  <2> QED
    BY <1>3, <1>4, <2>1, GreaterDigit DEF Value
<1>8. CASE v[1] = w[1] /\ v[2] = w[2] /\ v[3] > w[3]
  <2>1. (v[1] * Radix + v[2]) * Radix \in Nat
    BY <1>1, <1>4
  <2> QED
    BY <1>3, <1>8, <2>1 DEF Value
<1> QED
  BY <1>5, <1>6, <1>7, <1>8

-----------------------------------------------------------------------------
LEMMA WatchBegins == Init => WatchInv
BY VersionAssumption DEF Init, WatchInv, TypeOK, Releasable, CacheIsPrevious, RequestsWait, OfferedIsRecent, KeptIsRecent,
  ToastsAreNewer

(* What a tab is told is newer, whatever the release.                        *)
LEMMA ToldIsNewer ==
  ASSUME TypeOK, ToastsAreNewer, NEW answer \in Releasable, NEW tabs \in SUBSET Tabs, Told(answer, tabs)
  PROVE  toast' \in [Tabs -> Releasable] /\ ToastsAreNewer'
BY VersionAssumption DEF TypeOK, ToastsAreNewer, Told, Releasable

LEMMA CheckSound ==
  ASSUME WatchInv, NEW t \in Tabs, Check(t)
  PROVE  WatchInv'
<1> USE VersionAssumption DEF WatchInv
<1>1. toast' \in [Tabs -> Releasable] /\ ToastsAreNewer'
  <2>1. CASE Cached
    <3>1. cache.release \in Releasable
      BY <2>1 DEF Cached, TypeOK, CachedValue
    <3> QED
      BY <2>1, <3>1, ToldIsNewer DEF Check
  <2>2. CASE ~Cached
    BY <2>2 DEF Check, TypeOK, ToastsAreNewer
  <2> QED
    BY <2>1, <2>2
<1>2. TypeOK'
  <2>1. checked' \in [Tabs -> Admins \cup {None}]
    BY DEF Check, TypeOK
  <2>2. /\ pending' \in (0..now) \cup {None} /\ offered' \subseteq Releasable /\ waiting' \subseteq Tabs
        /\ (waiting' # {}) <=> (pending' # None)
    BY DEF Check, TypeOK
  <2> QED
    BY <1>1, <2>1, <2>2 DEF Check, TypeOK
<1>3. RequestsWait'
  BY DEF Check, Cached, TypeOK, CachedValue, RequestsWait
<1>4. (CacheIsPrevious /\ KeptIsRecent)'
  BY DEF Check, CacheIsPrevious, KeptIsRecent, KeptFor
<1>5. OfferedIsRecent'
  BY DEF Check, TypeOK, OfferedIsRecent
<1> QED
  BY <1>1, <1>2, <1>3, <1>4, <1>5

LEMMA FetchedSound ==
  ASSUME WatchInv, NEW answer \in offered \cup {None}, Fetched(answer)
  PROVE  WatchInv'
<1> USE VersionAssumption DEF WatchInv
<1>1. answer \in Releasable /\ pending \in 0..now /\ now <= pending + Patience
  BY DEF Fetched, TypeOK, Releasable, RequestsWait
<1>2. toast' \in [Tabs -> Releasable] /\ ToastsAreNewer'
  BY <1>1, ToldIsNewer DEF Fetched, TypeOK
<1>3. /\ cache' \in CachedValue /\ cache'.release = answer
      /\ cache'.expires = now + (IF answer = None THEN FailTTL ELSE OkTTL)
      /\ previous' \in Ended /\ previous'.ended = now /\ (previous'.ok <=> answer # None)
  <2>1. cache' = Kept(answer) /\ previous' = [ended |-> now, ok |-> answer # None] /\ now \in Nat
    BY DEF Fetched, TypeOK
  <2>2. previous' \in Ended
    BY <2>1, Zenon DEF Ended
  <2>3. previous'.ended = now /\ (previous'.ok <=> answer # None)
    BY <2>1, Zenon
  <2>4. OkTTL \in Nat /\ FailTTL \in Nat
    OBVIOUS
  <2>5. /\ cache' \in CachedValue /\ cache'.release = answer
        /\ cache'.expires = now + (IF answer = None THEN FailTTL ELSE OkTTL)
    BY <1>1, <2>1, <2>4 DEF Kept, CachedValue
  <2> QED
    BY <2>2, <2>3, <2>5
<1>4. TypeOK'
  BY <1>2, <1>3 DEF Fetched, TypeOK
<1>5. CacheIsPrevious'
  <2>1. cache' # None /\ previous' # None /\ UNCHANGED now
    BY <1>3 DEF Fetched
  <2> QED
    BY <1>3, <2>1 DEF CacheIsPrevious, KeptFor, TypeOK
<1>6. (RequestsWait /\ OfferedIsRecent)'
  BY DEF Fetched, RequestsWait, OfferedIsRecent
<1>7. KeptIsRecent'
  BY <1>1, <1>3 DEF Fetched, KeptIsRecent, OfferedIsRecent, TypeOK
<1> QED
  BY <1>2, <1>4, <1>5, <1>6, <1>7

LEMMA PublishSound ==
  ASSUME WatchInv, NEW v \in Releasable, Publish(v)
  PROVE  WatchInv'
<1> USE VersionAssumption DEF WatchInv
<1>1. TypeOK'
  BY DEF Publish, browser, TypeOK
<1>2. (CacheIsPrevious /\ RequestsWait /\ ToastsAreNewer)'
  BY DEF Publish, browser, CacheIsPrevious, KeptFor, RequestsWait, ToastsAreNewer
<1>3. OfferedIsRecent'
  BY DEF Publish, OfferedIsRecent, TypeOK
<1>4. KeptIsRecent'
  BY DEF Publish, KeptIsRecent, CacheIsPrevious, KeptFor, TypeOK, CachedValue, Ended
<1> QED
  BY <1>1, <1>2, <1>3, <1>4

LEMMA TickSound ==
  ASSUME WatchInv, Tick
  PROVE  WatchInv'
<1> USE VersionAssumption DEF WatchInv
<1>1. TypeOK'
  BY DEF Tick, backend, browser, TypeOK
<1>2. (CacheIsPrevious /\ OfferedIsRecent /\ KeptIsRecent /\ ToastsAreNewer)'
  BY DEF Tick, backend, browser, CacheIsPrevious, KeptFor, OfferedIsRecent, KeptIsRecent, ToastsAreNewer, TypeOK, Ended
<1>3. RequestsWait'
  BY DEF Tick, backend, RequestsWait, TypeOK
<1> QED
  BY <1>1, <1>2, <1>3

LEMMA BrowserSound ==
  ASSUME WatchInv, NEW t \in Tabs, Dismiss(t) \/ \E u \in Users \cup {None} : SignIn(t, u)
  PROVE  WatchInv'
<1> USE VersionAssumption DEF WatchInv
<1>1. UNCHANGED <<now, tag, tagged, backend, waiting>>
  BY DEF Dismiss, SignIn
<1>2. TypeOK'
  BY DEF Dismiss, SignIn, backend, TypeOK, Releasable
<1>3. (CacheIsPrevious /\ RequestsWait /\ OfferedIsRecent /\ KeptIsRecent)'
  BY <1>1 DEF backend, CacheIsPrevious, KeptFor, RequestsWait, OfferedIsRecent, KeptIsRecent
<1>4. ToastsAreNewer'
  BY DEF Dismiss, SignIn, TypeOK, ToastsAreNewer
<1> QED
  BY <1>2, <1>3, <1>4

LEMMA RestartSound ==
  ASSUME WatchInv, Restart
  PROVE  WatchInv'
BY VersionAssumption DEF WatchInv, Restart, browser, TypeOK, CacheIsPrevious, RequestsWait, OfferedIsRecent, KeptIsRecent,
  ToastsAreNewer

LEMMA WatchLeftAlone ==
  ASSUME WatchInv, UNCHANGED vars
  PROVE  WatchInv'
BY DEF vars, backend, browser, WatchInv, TypeOK, CacheIsPrevious, KeptFor, RequestsWait, OfferedIsRecent, KeptIsRecent,
  ToastsAreNewer

LEMMA WatchStep == WatchInv /\ [Next]_vars => WatchInv'
BY CheckSound, FetchedSound, PublishSound, TickSound, BrowserSound, RestartSound, WatchLeftAlone DEF Next, Releasable

LEMMA WatchTells == WatchInv => ReleasesAreWatched
<1> SUFFICES ASSUME WatchInv PROVE ReleasesAreWatched
  OBVIOUS
<1> USE VersionAssumption DEF WatchInv
<1>1. AsksSeldom
  BY DEF AsksSeldom, CacheIsPrevious, RequestsWait, KeptFor
<1>2. CachedIsRecent
  BY DEF CachedIsRecent, Cached, KeptIsRecent, TypeOK, CachedValue
<1>3. ToastTellsLater
  BY NewerIsGreater DEF ToastTellsLater, ToastsAreNewer, TypeOK, Releasable
<1> QED
  BY <1>1, <1>2, <1>3 DEF ReleasesAreWatched

(* VersionCheckService and useUpdateNotification: however administrators sign in  *)
(* and releases appear while one is asked for, the release server is left in      *)
(* peace for as long as an answer is kept, no cached release is older than that   *)
(* and one request, and a notice tells of a later version.                    *)
THEOREM ReleasesWatched == Spec => []ReleasesAreWatched
BY WatchBegins, WatchStep, WatchTells, PTL DEF Spec

-----------------------------------------------------------------------------
(* The session of a tab: who waits, waits for a refresh; and in calm, a        *)
(* request that was sent again was sent with a new access token.              *)

LEMMA TabAssumptions ==
  /\ IsFiniteSet(CalmRequests) /\ IsFiniteSet(TabRequests) /\ MaxExpiries \in Nat /\ MaxMishaps \in Nat
  /\ None \notin Tab!Cookies /\ None \notin Calm!Cookies
<1>1. Tab!RefreshAssumption /\ Calm!RefreshAssumption
  BY ServiceAssumption DEF ServiceAssumption
<1> QED
  BY <1>1 DEF Calm!RefreshAssumption, Tab!RefreshAssumption, IsFiniteSet, Calm!IsFiniteSet, Tab!IsFiniteSet

LEMMA TabBegins == Tab!Init => Tab!TypeOK
<1> HAVE Tab!Init
<1>1. requests \in [TabRequests -> Tab!Request] /\ \A q \in TabRequests : requests[q].at = "idle"
  BY DEF Tab!Init
<1>2. Tab!In("waiting") = {}
  BY <1>1 DEF Tab!In
<1>3. cookies \in Tab!Cookies /\ cookies.refresh \in BOOLEAN /\ cookies.access \in BOOLEAN
  BY DEF Tab!Init, Tab!Cookies
<1> QED
  BY <1>1, <1>2, <1>3, TabAssumptions DEF Tab!Init, Tab!TypeOK

LEMMA WaitingCounted ==
  ASSUME Tab!TypeOK
  PROVE  logouts + Cardinality(Tab!In("waiting")) \in Nat
<1>1. IsFiniteSet(Tab!In("waiting"))
  BY TabAssumptions, FS_Subset DEF Tab!In
<1> QED
  BY <1>1, FS_CardinalityType DEF Tab!TypeOK

LEMMA RequestMoved ==
  ASSUME NEW r \in Tab!Request, NEW state \in {"idle", "sent", "waiting"} \cup Tab!Settled
  PROVE  /\ [r EXCEPT !.at = state] \in Tab!Request
         /\ [r EXCEPT !.at = state, !.retry = TRUE] \in Tab!Request
         /\ [r EXCEPT !.at = state].at = state
         /\ [r EXCEPT !.at = state, !.retry = TRUE].at = state
BY DEF Tab!Request

LEMMA CookiesSet ==
  /\ Tab!NoCookies \in Tab!Cookies
  /\ [access |-> TRUE, refresh |-> TRUE] \in Tab!Cookies
  /\ \A c \in Tab!Cookies, b \in BOOLEAN : [c EXCEPT !.access = b] \in Tab!Cookies
BY DEF Tab!Cookies, Tab!NoCookies

LEMMA TabStep ==
  ASSUME Tab!TypeOK, Tab!Next
  PROVE  Tab!TypeOK'
<1>0. /\ cookies \in Tab!Cookies /\ requests \in [TabRequests -> Tab!Request]
      /\ refresh \in Tab!Cookies \cup {None} /\ (refresh = None <=> Tab!In("waiting") = {})
  BY DEF Tab!TypeOK
<1>1. ASSUME NEW q \in TabRequests, Tab!Send(q) PROVE Tab!TypeOK'
  <2>1. requests' = [requests EXCEPT ![q] = [requests[q] EXCEPT !.at = "sent", !.with = cookies]]
    BY <1>1 DEF Tab!Send, Tab!SentNow
  <2>2. /\ [requests[q] EXCEPT !.at = "sent", !.with = cookies] \in Tab!Request
        /\ [requests[q] EXCEPT !.at = "sent", !.with = cookies].at = "sent"
    <3>1. requests[q] \in Tab!Request
      BY <1>0
    <3> QED
      BY <1>0, <3>1 DEF Tab!Request
  <2>3. requests' \in [TabRequests -> Tab!Request]
    BY <1>0, <2>1, <2>2
  <2>4. Tab!In("waiting")' = Tab!In("waiting")
    BY <1>0, <1>1, <2>1, <2>2 DEF Tab!In, Tab!Send
  <2> QED
    BY <1>1, <2>3, <2>4 DEF Tab!TypeOK, Tab!Send
<1>2. ASSUME NEW q \in TabRequests, Tab!Answer(q) PROVE Tab!TypeOK'
  <2>1. PICK state \in Tab!Settled : requests' = [requests EXCEPT ![q] = [requests[q] EXCEPT !.at = state]]
    BY <1>2 DEF Tab!Answer, Tab!Settled
  <2>2. /\ [requests[q] EXCEPT !.at = state] \in Tab!Request
        /\ [requests[q] EXCEPT !.at = state].at = state /\ state # "waiting"
    BY <1>0, RequestMoved, Zenon DEF Tab!Settled
  <2>3. requests' \in [TabRequests -> Tab!Request]
    BY <1>0, <2>1, <2>2
  <2>4. Tab!In("waiting")' = Tab!In("waiting")
    BY <1>0, <1>2, <2>1, <2>2 DEF Tab!In, Tab!Answer
  <2> QED
    BY <1>2, <2>3, <2>4 DEF Tab!TypeOK, Tab!Answer
<1>3. ASSUME NEW q \in TabRequests, Tab!AnswerUnauthorized(q) PROVE Tab!TypeOK'
  <2>1. CASE Tab!MayRetry(requests[q])
    <3>1. /\ requests' = [requests EXCEPT ![q] = [requests[q] EXCEPT !.at = "waiting", !.retry = TRUE]]
          /\ refresh' = IF refresh = None THEN cookies ELSE refresh
      BY <1>3, <2>1 DEF Tab!AnswerUnauthorized
    <3>2. /\ [requests[q] EXCEPT !.at = "waiting", !.retry = TRUE] \in Tab!Request
          /\ [requests[q] EXCEPT !.at = "waiting", !.retry = TRUE].at = "waiting"
      BY <1>0, RequestMoved, Zenon DEF Tab!Settled
    <3>3. requests' \in [TabRequests -> Tab!Request]
      BY <1>0, <3>1, <3>2
    <3>4. q \in Tab!In("waiting")'
      BY <1>0, <3>1, <3>2 DEF Tab!In
    <3>5. refresh' \in Tab!Cookies
      BY <1>0, <3>1
    <3> QED
      BY <1>3, <3>3, <3>4, <3>5, TabAssumptions DEF Tab!TypeOK, Tab!AnswerUnauthorized
  <2>2. CASE ~Tab!MayRetry(requests[q])
    <3>1. requests' = [requests EXCEPT ![q] = [requests[q] EXCEPT !.at = "ownError"]] /\ refresh' = refresh
      BY <1>3, <2>2 DEF Tab!AnswerUnauthorized
    <3>2. /\ [requests[q] EXCEPT !.at = "ownError"] \in Tab!Request
          /\ [requests[q] EXCEPT !.at = "ownError"].at = "ownError"
      BY <1>0, RequestMoved, Zenon DEF Tab!Settled
    <3>3. requests' \in [TabRequests -> Tab!Request]
      BY <1>0, <3>1, <3>2
    <3>4. Tab!In("waiting")' = Tab!In("waiting")
      BY <1>0, <1>3, <3>1, <3>2 DEF Tab!In, Tab!AnswerUnauthorized
    <3> QED
      BY <1>3, <3>1, <3>3, <3>4 DEF Tab!TypeOK, Tab!AnswerUnauthorized
  <2> QED
    BY <2>1, <2>2
<1>4. CASE Tab!Refreshed
  <2>1. cookies' \in Tab!Cookies
    BY <1>0, <1>4, CookiesSet DEF Tab!Refreshed
  <2>2. ASSUME NEW q \in TabRequests
        PROVE  LET r == [requests[q] EXCEPT !.at = "sent", !.with = cookies'] IN r \in Tab!Request /\ r.at = "sent"
    <3>1. requests[q] \in Tab!Request
      BY <1>0
    <3> QED
      BY <2>1, <3>1 DEF Tab!Request
  <2>3. requests' \in [TabRequests -> Tab!Request] /\ Tab!In("waiting")' = {}
    BY <1>0, <1>4, <2>2 DEF Tab!Refreshed, Tab!Woken, Tab!In
  <2> QED
    BY <1>4, <2>1, <2>3 DEF Tab!TypeOK, Tab!Refreshed
<1>5. CASE Tab!RefreshRefused \/ Tab!RefreshFails
  <2>1. logouts' = logouts + Cardinality(Tab!In("waiting"))
    BY <1>5 DEF Tab!RefreshRefused, Tab!RefreshFails, Tab!RefreshRejected, Cardinality, Tab!Cardinality
  <2>2. \A q \in TabRequests :
          LET r == [requests[q] EXCEPT !.at = "refreshError"] IN r \in Tab!Request /\ r.at = "refreshError"
    BY <1>0, RequestMoved, Zenon DEF Tab!Settled
  <2>3. requests' \in [TabRequests -> Tab!Request] /\ Tab!In("waiting")' = {}
    BY <1>0, <1>5, <2>2 DEF Tab!RefreshRefused, Tab!RefreshFails, Tab!RefreshRejected, Tab!Woken, Tab!In
  <2>4. cookies.access \in BOOLEAN
    BY <1>0 DEF Tab!Cookies
  <2>5. /\ refresh' = None /\ signedIn' = FALSE /\ socket' = cookies.access /\ UNCHANGED <<cookies, alive, expiries>>
        /\ logouts' \in Nat
    BY <1>5, <2>1, WaitingCounted DEF Tab!RefreshRefused, Tab!RefreshFails, Tab!RefreshRejected
  <2>6. mishaps' \in 0..MaxMishaps
    BY <1>5, TabAssumptions DEF Tab!TypeOK, Tab!RefreshRefused, Tab!RefreshFails, Tab!Fault
  <2> QED
    BY <2>3, <2>4, <2>5, <2>6 DEF Tab!TypeOK
<1>6. CASE Tab!LoggedOut \/ Tab!Expire \/ Tab!SessionEnds \/ Tab!SignOut \/ Tab!SignIn
  <2>1. cookies' \in Tab!Cookies
    BY <1>0, <1>6, CookiesSet DEF Tab!LoggedOut, Tab!Expire, Tab!SessionEnds, Tab!SignOut, Tab!SignIn
  <2>2. UNCHANGED <<requests, refresh>> /\ Tab!In("waiting")' = Tab!In("waiting")
    BY <1>6 DEF Tab!LoggedOut, Tab!Expire, Tab!SessionEnds, Tab!SignOut, Tab!SignIn, Tab!In
  <2>3. logouts' \in Nat /\ expiries' \in 0..MaxExpiries /\ mishaps' \in 0..MaxMishaps
    BY <1>6, TabAssumptions
    DEF Tab!TypeOK, Tab!LoggedOut, Tab!Expire, Tab!SessionEnds, Tab!SignOut, Tab!SignIn, Tab!Fault
  <2>4. alive' \in BOOLEAN /\ signedIn' \in BOOLEAN /\ socket' \in BOOLEAN
    BY <1>6 DEF Tab!TypeOK, Tab!LoggedOut, Tab!Expire, Tab!SessionEnds, Tab!SignOut, Tab!SignIn
  <2> QED
    BY <2>1, <2>2, <2>3, <2>4 DEF Tab!TypeOK
<1> QED
  BY <1>1, <1>2, <1>3, <1>4, <1>5, <1>6 DEF Tab!Next, Tab!Client, Tab!Server, Tab!Trouble

(* What is sent has the cookies of a living session, with an access token when *)
(* it is sent again.                                                        *)
SentInCalm(r) ==
  /\ r \in Calm!Request
  /\ r.at = "idle" => ~r.retry
  /\ r.at = "sent" => r.with.refresh /\ (r.retry /\ r.kind # "wrong" => r.with.access)
  /\ r.at = "waiting" => r.retry
  /\ r.at \in Calm!Settled => r.at = IF r.kind = "wrong" THEN "ownError" ELSE "served"

CalmSession ==
  /\ cookies \in Calm!Cookies /\ cookies.refresh /\ alive
  /\ requests \in [CalmRequests -> Calm!Request]
  /\ refresh \in Calm!Cookies \cup {None} /\ (refresh # None => refresh.refresh)
  /\ \A q \in CalmRequests : SentInCalm(requests[q])
  /\ signedIn /\ logouts = 0 /\ (cookies.access => socket)

LEMMA CalmBegins == Calm!Init /\ alive => CalmSession
<1> HAVE Calm!Init /\ alive
<1>1. ASSUME NEW q \in CalmRequests PROVE SentInCalm(requests[q])
  BY DEF Calm!Init, SentInCalm, Calm!Settled
<1>2. cookies \in Calm!Cookies /\ cookies.refresh /\ signedIn /\ socket = cookies.access
  BY DEF Calm!Init
<1> QED
  BY <1>1, <1>2 DEF Calm!Init, CalmSession

LEMMA CalmMoves ==
  ASSUME NEW r \in Calm!Request, NEW c \in Calm!Cookies, c.refresh, SentInCalm(r)
  PROVE  /\ r.at = "idle" => SentInCalm([r EXCEPT !.at = "sent", !.with = c])
         /\ r.at = "waiting" /\ c.access => SentInCalm([r EXCEPT !.at = "sent", !.with = c])
         /\ r.at = "sent" /\ ~Calm!Unauthorized(r) =>
              SentInCalm([r EXCEPT !.at = IF r.with.access THEN "served" ELSE "visitor"])
         /\ r.at = "sent" /\ Calm!Unauthorized(r) /\ r.retry => SentInCalm([r EXCEPT !.at = "ownError"])
         /\ r.at = "sent" => SentInCalm([r EXCEPT !.at = "waiting", !.retry = TRUE])
BY DEF SentInCalm, Calm!Request, Calm!Cookies, Calm!Kinds, Calm!Settled, Calm!Unauthorized, Calm!HasSessionCookie

LEMMA CalmStep ==
  ASSUME CalmSession, Calm!CalmNext
  PROVE  CalmSession'
<1>0. /\ cookies \in Calm!Cookies /\ cookies.refresh
      /\ requests \in [CalmRequests -> Calm!Request]
      /\ \A q \in CalmRequests : SentInCalm(requests[q])
  BY DEF CalmSession
<1>1. ASSUME NEW q \in CalmRequests, Calm!Send(q) PROVE CalmSession'
  <2>1. requests[q] \in Calm!Request /\ requests[q].at = "idle" /\ SentInCalm(requests[q])
    BY <1>0, <1>1 DEF Calm!Send
  <2>2. requests' = [requests EXCEPT ![q] = [requests[q] EXCEPT !.at = "sent", !.with = cookies]]
    BY <1>1 DEF Calm!Send, Calm!SentNow
  <2>3. SentInCalm([requests[q] EXCEPT !.at = "sent", !.with = cookies])
    BY <1>0, <2>1, CalmMoves, Zenon
  <2>4. \A p \in CalmRequests : SentInCalm(requests'[p])
    BY <1>0, <2>2, <2>3
  <2>5. requests' \in [CalmRequests -> Calm!Request]
    BY <1>0, <2>2, <2>3 DEF SentInCalm
  <2> QED
    BY <1>1, <2>4, <2>5 DEF CalmSession, Calm!Send
<1>2. ASSUME NEW q \in CalmRequests, Calm!Answer(q) PROVE CalmSession'
  <2>1. requests[q] \in Calm!Request /\ requests[q].at = "sent" /\ ~Calm!Unauthorized(requests[q])
    BY <1>0, <1>2 DEF Calm!Answer
  <2>2. requests' = [requests EXCEPT ![q] = [requests[q] EXCEPT !.at = IF requests[q].with.access THEN "served" ELSE "visitor"]]
    BY <1>2 DEF Calm!Answer
  <2>3. SentInCalm([requests[q] EXCEPT !.at = IF requests[q].with.access THEN "served" ELSE "visitor"])
    BY <1>0, <2>1, CalmMoves, Zenon
  <2>4. \A p \in CalmRequests : SentInCalm(requests'[p])
    BY <1>0, <2>2, <2>3
  <2>5. requests' \in [CalmRequests -> Calm!Request]
    BY <1>0, <2>2, <2>3 DEF SentInCalm
  <2> QED
    BY <1>2, <2>4, <2>5 DEF CalmSession, Calm!Answer
<1>3. ASSUME NEW q \in CalmRequests, Calm!AnswerUnauthorized(q) PROVE CalmSession'
  <2>1. requests[q] \in Calm!Request /\ requests[q].at = "sent" /\ Calm!Unauthorized(requests[q])
    BY <1>0, <1>3 DEF Calm!AnswerUnauthorized
  <2>2. PICK r : requests' = [requests EXCEPT ![q] = r] /\ SentInCalm(r)
    <3>1. requests[q].retry \in BOOLEAN
      BY <2>1 DEF Calm!Request
    <3>2. CASE requests[q].retry
      <4>1. requests' = [requests EXCEPT ![q] = [requests[q] EXCEPT !.at = "ownError"]]
        BY <1>3, <3>2 DEF Calm!AnswerUnauthorized, Calm!MayRetry
      <4> QED
        BY <1>0, <2>1, <3>2, <4>1, CalmMoves, Zenon
    <3>3. CASE ~requests[q].retry
      <4>1. requests' = [requests EXCEPT ![q] = [requests[q] EXCEPT !.at = "waiting", !.retry = TRUE]]
        BY <1>3, <3>3 DEF Calm!AnswerUnauthorized, Calm!MayRetry
      <4> QED
        BY <1>0, <2>1, <4>1, CalmMoves, Zenon
    <3> QED
      BY <3>1, <3>2, <3>3
  <2>4. \A p \in CalmRequests : SentInCalm(requests'[p])
    BY <1>0, <2>2
  <2>5. requests' \in [CalmRequests -> Calm!Request]
    BY <1>0, <2>2 DEF SentInCalm
  <2>6. refresh' \in {refresh, cookies} /\ refresh' \in Calm!Cookies \cup {None} /\ (refresh' # None => refresh'.refresh)
    BY <1>3 DEF CalmSession, Calm!AnswerUnauthorized
  <2> QED
    BY <1>3, <2>4, <2>5, <2>6 DEF CalmSession, Calm!AnswerUnauthorized
<1>4. CASE Calm!Refreshed
  <2>1. cookies' = [cookies EXCEPT !.access = TRUE]
    BY <1>4 DEF Calm!Refreshed
  <2>2. cookies' \in Calm!Cookies /\ cookies'.refresh /\ cookies'.access
    BY <1>0, <2>1 DEF Calm!Cookies
  <2>3. ASSUME NEW q \in CalmRequests PROVE SentInCalm(requests'[q])
    <3>1. CASE requests[q].at = "waiting"
      <4>1. SentInCalm([requests[q] EXCEPT !.at = "sent", !.with = cookies'])
        BY <1>0, <2>2, <3>1, CalmMoves, Zenon
      <4> QED
        BY <1>4, <3>1, <4>1 DEF Calm!Refreshed, Calm!Woken
    <3>2. CASE requests[q].at # "waiting"
      BY <1>0, <1>4, <3>2 DEF Calm!Refreshed, Calm!Woken
    <3> QED
      BY <3>1, <3>2
  <2>4. requests' \in [CalmRequests -> Calm!Request]
    <3>1. requests' = [q \in CalmRequests |-> requests'[q]]
      BY <1>4 DEF Calm!Refreshed
    <3> QED
      BY <2>3, <3>1 DEF SentInCalm
  <2> QED
    BY <1>4, <2>2, <2>3, <2>4 DEF CalmSession, Calm!Refreshed
<1>5. CASE Calm!Expire
  <2>1. cookies' \in Calm!Cookies /\ cookies'.refresh /\ ~cookies'.access
    BY <1>0, <1>5 DEF Calm!Cookies, Calm!Expire
  <2> QED
    BY <1>5, <2>1 DEF CalmSession, Calm!Expire
<1>6. ~Calm!RefreshRefused /\ ~Calm!LoggedOut
  BY DEF CalmSession, Calm!RefreshRefused, Calm!LoggedOut
<1> QED
  BY <1>1, <1>2, <1>3, <1>4, <1>5, <1>6 DEF Calm!CalmNext, Calm!Client, Calm!Server

TabInv ==
  /\ part = "calm" => CalmSession
  /\ part = "tab" => Tab!TypeOK

LEMMA TabLeftAlone ==
  ASSUME UNCHANGED tabVars
  PROVE  (CalmSession => CalmSession') /\ (Tab!TypeOK => Tab!TypeOK')
BY DEF tabVars, CalmSession, Tab!TypeOK, Tab!In

LEMMA TabInvariance == TabInv /\ [Goes]_all => TabInv'
BY TabStep, CalmStep, TabLeftAlone DEF TabInv, Goes, all

(* apiClient's interceptor, JwtAuthGuard, OptionalJwtAuthGuard and AuthProvider: *)
(* in calm, a living session has every request served with its rights and is   *)
(* not ended; whatever fails, who waits waits for a refresh.                 *)
THEOREM SessionIsRenewed == Behaviour => []SessionRenewed
<1>1. Begins => TabInv
  BY TabBegins, CalmBegins DEF Begins, TabInv
<1>2. TabInv => SessionRenewed
  BY DEF TabInv, SessionRenewed, CalmSession, SentInCalm, Calm!ServedBySession
<1> QED
  BY <1>1, <1>2, TabInvariance, PTL DEF Behaviour

-----------------------------------------------------------------------------
(* What is looked up on the way in covers what the operation is documented to   *)
(* need.                                                                    *)

Elements(s) == {s[i] : i \in DOMAIN s}

(* A way in asks for the rights of its name, or for an administrator; keys are  *)
(* created by administrators.                                                *)
Asks(r) == Gate!Needs(r.name) \subseteq Elements(r.checks)
ForAdmins(r) == r.guard = "admin" /\ Gate!Needs(r.name) \subseteq {"admin"}
Covered(r) == (Asks(r) /\ r.name # "key/create") \/ ForAdmins(r)

LEMMA RoutesCovered == \A r \in Gate!Routes : Covered(r)
<1> USE DEF Covered, Asks, ForAdmins, Elements, Gate!Needs, Gate!NeedsRight, Gate!Route, Gate!Tool, Gate!PageAccessRules, Gate!UserAdministration, Gate!UserUpkeep, Gate!UserGrants,
  Gate!GroupRoutes, Gate!UsersTools
<1>1. \A r \in Gate!PageWriting : Covered(r)
  BY DEF Gate!PageWriting
<1>2. \A r \in Gate!PageMoving : Covered(r)
  BY DEF Gate!PageMoving
<1>3. \A r \in Gate!PageReading : Covered(r)
  BY DEF Gate!PageReading
<1>4. \A r \in Gate!PageRestoring : Covered(r)
  BY DEF Gate!PageRestoring
<1>5. \A r \in Gate!PageComments : Covered(r)
  BY DEF Gate!PageComments
<1>6. \A r \in Gate!PageFollowing : Covered(r)
  BY DEF Gate!PageFollowing
<1>7. \A r \in Gate!PageTagging : Covered(r)
  BY DEF Gate!PageTagging
<1>8. \A r \in Gate!PageAccessRules : Covered(r)
  BY DEF Gate!PageAccessRules
<1>9. \A r \in Gate!PageDetail : Covered(r)
  BY DEF Gate!PageDetail
<1>10. \A r \in Gate!CommentRoutes : Covered(r)
  BY DEF Gate!CommentRoutes
<1>11. \A r \in Gate!MediaRoutes : Covered(r)
  BY DEF Gate!MediaRoutes
<1>12. \A r \in Gate!TagRoutes : Covered(r)
  BY DEF Gate!TagRoutes
<1>13. \A r \in Gate!SearchRoutes : Covered(r)
  BY DEF Gate!SearchRoutes
<1>14. \A r \in Gate!OwnAccount : Covered(r)
  BY DEF Gate!OwnAccount
<1>15. \A r \in Gate!UserAdministration : Covered(r)
  BY DEF Gate!UserAdministration
<1>16. \A r \in Gate!UserUpkeep : Covered(r)
  BY DEF Gate!UserUpkeep
<1>17. \A r \in Gate!UserGrants : Covered(r)
  BY DEF Gate!UserGrants
<1>18. \A r \in Gate!GroupRoutes : Covered(r)
  BY DEF Gate!GroupRoutes
<1>19. \A r \in Gate!StatRoutes : Covered(r)
  BY DEF Gate!StatRoutes
<1>20. \A r \in Gate!AuditRoutes : Covered(r)
  BY DEF Gate!AuditRoutes
<1>21. \A r \in Gate!SettingRoutes : Covered(r)
  BY DEF Gate!SettingRoutes
<1>22. \A r \in Gate!VersionRoutes : Covered(r)
  BY DEF Gate!VersionRoutes
<1>23. \A r \in Gate!KeyRoutes : Covered(r)
  BY DEF Gate!KeyRoutes
<1>24. \A r \in Gate!McpLogRoutes : Covered(r)
  BY DEF Gate!McpLogRoutes
<1>25. \A r \in Gate!OAuthClientRoutes : Covered(r)
  BY DEF Gate!OAuthClientRoutes
<1> HIDE DEF Covered, Asks, ForAdmins
<1> QED
  BY <1>1, <1>2, <1>3, <1>4, <1>5, <1>6, <1>7, <1>8, <1>9, <1>10, <1>11, <1>12, <1>13,
     <1>14, <1>15, <1>16, <1>17, <1>18, <1>19, <1>20, <1>21, <1>22, <1>23, <1>24, <1>25 DEF Gate!Routes

Typed(r) ==
  LET c == r.checks
  IN \/ c = <<>>
     \/ c = <<c[1]>> /\ c[1] \in Gate!Rights
     \/ c = <<c[1], c[2]>> /\ c[1] \in Gate!Rights /\ c[2] \in Gate!Rights

LEMMA RightsAre ==
  /\ "page.create_root" \in Gate!Rights /\ "tag.create" \in Gate!Rights /\ "tag.delete" \in Gate!Rights
  /\ "media.upload" \in Gate!Rights /\ "media.delete" \in Gate!Rights /\ "comment.moderate" \in Gate!Rights
  /\ "user.manage" \in Gate!Rights /\ "page.read" \in Gate!Rights /\ "page.edit" \in Gate!Rights
  /\ "page.create_child" \in Gate!Rights /\ "page.delete" \in Gate!Rights /\ "page.move" \in Gate!Rights
  /\ "page.manage_visibility" \in Gate!Rights /\ "page.manage_tags" \in Gate!Rights
  /\ "page.restore_version" \in Gate!Rights /\ "page.manage_permissions" \in Gate!Rights
BY DEF Gate!Rights, Gate!GlobalPermissions, Gate!PageActions

LEMMA RoutesTyped == \A r \in Gate!Routes : Typed(r)
<1> USE RightsAre DEF Typed, Gate!Route
<1>1. \A r \in Gate!PageWriting : Typed(r)
  BY DEF Gate!PageWriting
<1>2. \A r \in Gate!PageMoving : Typed(r)
  BY DEF Gate!PageMoving
<1>3. \A r \in Gate!PageReading : Typed(r)
  BY DEF Gate!PageReading
<1>4. \A r \in Gate!PageRestoring : Typed(r)
  BY DEF Gate!PageRestoring
<1>5. \A r \in Gate!PageComments : Typed(r)
  BY DEF Gate!PageComments
<1>6. \A r \in Gate!PageFollowing : Typed(r)
  BY DEF Gate!PageFollowing
<1>7. \A r \in Gate!PageTagging : Typed(r)
  BY DEF Gate!PageTagging
<1>8. \A r \in Gate!PageAccessRules : Typed(r)
  BY DEF Gate!PageAccessRules
<1>9. \A r \in Gate!PageDetail : Typed(r)
  BY DEF Gate!PageDetail
<1>10. \A r \in Gate!CommentRoutes : Typed(r)
  BY DEF Gate!CommentRoutes
<1>11. \A r \in Gate!MediaRoutes : Typed(r)
  BY DEF Gate!MediaRoutes
<1>12. \A r \in Gate!TagRoutes : Typed(r)
  BY DEF Gate!TagRoutes
<1>13. \A r \in Gate!SearchRoutes : Typed(r)
  BY DEF Gate!SearchRoutes
<1>14. \A r \in Gate!OwnAccount : Typed(r)
  BY DEF Gate!OwnAccount
<1>15. \A r \in Gate!UserAdministration : Typed(r)
  BY DEF Gate!UserAdministration
<1>16. \A r \in Gate!UserUpkeep : Typed(r)
  BY DEF Gate!UserUpkeep
<1>17. \A r \in Gate!UserGrants : Typed(r)
  BY DEF Gate!UserGrants
<1>18. \A r \in Gate!GroupRoutes : Typed(r)
  BY DEF Gate!GroupRoutes
<1>19. \A r \in Gate!StatRoutes : Typed(r)
  BY DEF Gate!StatRoutes
<1>20. \A r \in Gate!AuditRoutes : Typed(r)
  BY DEF Gate!AuditRoutes
<1>21. \A r \in Gate!SettingRoutes : Typed(r)
  BY DEF Gate!SettingRoutes
<1>22. \A r \in Gate!VersionRoutes : Typed(r)
  BY DEF Gate!VersionRoutes
<1>23. \A r \in Gate!KeyRoutes : Typed(r)
  BY DEF Gate!KeyRoutes
<1>24. \A r \in Gate!McpLogRoutes : Typed(r)
  BY DEF Gate!McpLogRoutes
<1>25. \A r \in Gate!OAuthClientRoutes : Typed(r)
  BY DEF Gate!OAuthClientRoutes
<1> QED
  BY <1>1, <1>2, <1>3, <1>4, <1>5, <1>6, <1>7, <1>8, <1>9, <1>10, <1>11, <1>12, <1>13,
     <1>14, <1>15, <1>16, <1>17, <1>18, <1>19, <1>20, <1>21, <1>22, <1>23, <1>24, <1>25 DEF Gate!Routes

LEMMA ToolsCovered == \A t \in Gate!Tools : Asks(t)
<1> USE DEF Asks, Elements, Gate!Needs, Gate!NeedsRight, Gate!Route, Gate!Tool, Gate!PageAccessRules, Gate!UserAdministration, Gate!UserUpkeep, Gate!UserGrants,
  Gate!GroupRoutes, Gate!UsersTools
<1>1. \A t \in Gate!PagesTools : Asks(t)
  BY DEF Gate!PagesTools
<1>2. \A t \in Gate!TagsTools : Asks(t)
  BY DEF Gate!TagsTools
<1>3. \A t \in Gate!UsersTools : Asks(t)
  BY DEF Gate!UsersTools
<1>4. \A t \in Gate!MediaTools : Asks(t)
  BY DEF Gate!MediaTools
<1>5. \A t \in Gate!SearchTools : Asks(t)
  BY DEF Gate!SearchTools
<1> HIDE DEF Asks
<1> QED
  BY <1>1, <1>2, <1>3, <1>4, <1>5 DEF Gate!Tools

LEMMA ToolsTyped == \A t \in Gate!Tools : Typed(t)
<1> USE RightsAre DEF Typed, Gate!Tool
<1>1. \A t \in Gate!PagesTools : Typed(t)
  BY DEF Gate!PagesTools
<1>2. \A t \in Gate!TagsTools : Typed(t)
  BY DEF Gate!TagsTools
<1>3. \A t \in Gate!UsersTools : Typed(t)
  BY DEF Gate!UsersTools
<1>4. \A t \in Gate!MediaTools : Typed(t)
  BY DEF Gate!MediaTools
<1>5. \A t \in Gate!SearchTools : Typed(t)
  BY DEF Gate!SearchTools
<1> QED
  BY <1>1, <1>2, <1>3, <1>4, <1>5 DEF Gate!Tools

LEMMA TypedSequence ==
  ASSUME NEW r, Typed(r)
  PROVE  r.checks \in Seq(Gate!Rights)
<1>1. CASE r.checks = <<>>
  BY <1>1
<1>2. CASE r.checks = <<r.checks[1]>> /\ r.checks[1] \in Gate!Rights
  <2>1. \A a \in Gate!Rights : <<a>> \in Seq(Gate!Rights)
    OBVIOUS
  <2> QED
    BY <1>2, <2>1
<1>3. CASE r.checks = <<r.checks[1], r.checks[2]>> /\ r.checks[1] \in Gate!Rights /\ r.checks[2] \in Gate!Rights
  <2>1. \A a, b \in Gate!Rights : <<a, b>> \in Seq(Gate!Rights)
    OBVIOUS
  <2> QED
    BY <1>3, <2>1
<1> QED
  BY <1>1, <1>2, <1>3 DEF Typed

LEMMA ElementsFall ==
  ASSUME NEW s \in Seq(Gate!Rights), s # <<>>
  PROVE  /\ Head(s) \in Gate!Rights /\ Tail(s) \in Seq(Gate!Rights)
         /\ Elements(s) = {Head(s)} \cup Elements(Tail(s))
<1>1. Head(s) = s[1] /\ Len(s) \in Nat /\ Len(s) # 0 /\ DOMAIN s = 1..Len(s)
  OBVIOUS
<1>2. Tail(s) \in Seq(Gate!Rights) /\ Len(Tail(s)) = Len(s) - 1 /\ \A i \in 1..(Len(s) - 1) : Tail(s)[i] = s[i + 1]
  OBVIOUS
<1>3. DOMAIN Tail(s) = 1..(Len(s) - 1)
  BY <1>2
<1>4. ASSUME NEW i \in 1..Len(s) PROVE s[i] \in {Head(s)} \cup Elements(Tail(s))
  <2>1. CASE i = 1
    BY <1>1, <2>1
  <2>2. CASE i # 1
    <3>1. i - 1 \in 1..(Len(s) - 1) /\ s[i] = Tail(s)[i - 1]
      BY <1>1, <1>2, <2>2
    <3> QED
      BY <1>3, <3>1 DEF Elements
  <2> QED
    BY <2>1, <2>2
<1>5. ASSUME NEW i \in 1..(Len(s) - 1) PROVE Tail(s)[i] \in Elements(s)
  <2>1. i + 1 \in 1..Len(s) /\ Tail(s)[i] = s[i + 1]
    BY <1>1, <1>2
  <2> QED
    BY <1>1, <2>1 DEF Elements
<1>6. Head(s) \in Elements(s)
  BY <1>1 DEF Elements
<1> QED
  BY <1>1, <1>2, <1>3, <1>4, <1>5, <1>6 DEF Elements

-----------------------------------------------------------------------------
(* A request, from the moment it comes: what was so meanwhile takes in all that  *)
(* is so now; what is not left to look up was held; and how far it came tells    *)
(* what it passed.                                                           *)

GateStates == {"idle", "key", "owner", "tool", "user", "rights", "act", "log", "failed", "done"}
Moments == [admin : BOOLEAN, active : BOOLEAN, rights : SUBSET Gate!Rights, public : BOOLEAN, live : BOOLEAN,
            token : BOOLEAN]
AnyRequest ==
  [at : GateStates, entry : OpenRoutes \cup OpenTools \cup {Gate!Idle.entry}, tool : BOOLEAN,
   who : Accounts \cup {None}, cred : Keys \cup {"none"}, sess : McpSessions \cup {"none"},
   left : Seq(Gate!Rights), was : Moments, did : BOOLEAN, answer : {"none", "ok", "error", "refused"},
   good : {0, 1}, bad : {0, 1}]

Held(w, n) == w.admin \/ (w.active /\ n \in w.rights) \/ (n = "page.read" /\ w.public)

Recalls(w, who, us, pub) ==
  /\ pub => w.public
  /\ who \in Accounts =>
       /\ us[who].role = "admin" => w.admin
       /\ us[who].active => w.active
       /\ us[who].rights \subseteq w.rights

Checking(r) == r.at \in {"user", "rights", "act"}
Entering(r) == r.at \in {"key", "owner", "tool"}

Passed(r) ==
  /\ r.entry \in IF r.tool THEN OpenTools ELSE OpenRoutes
  /\ Checking(r) \/ r.did =>
       \A n \in Elements(r.entry.checks) : n \in Elements(r.left) \/ Held(r.was, n)
  /\ r.at \in {"user", "rights"} => r.left # <<>>
  /\ r.at = "act" \/ r.did => r.left = <<>>
  /\ r.at = "rights" => r.who \in Accounts /\ r.was.active

ByCookie(r) ==
  /\ Checking(r) \/ r.at = "done"
  /\ r.entry.guard = "admin" /\ (Checking(r) \/ r.did) => r.was.token /\ r.who \in Accounts

ByKey(r, keys) ==
  /\ r.who \in Accounts /\ r.cred \in Keys /\ keys[r.cred].state # "none"
  /\ r.at = "key" => r.was.live \/ keys[r.cred].state = "ended"
  /\ Checking(r) \/ r.at \in {"owner", "tool"} \/ r.did => r.was.live
  /\ Checking(r) \/ r.at = "tool" \/ r.did => r.was.active

Logged(r, f) ==
  /\ Checking(r) \/ Entering(r) => ~r.did
  /\ Checking(r) \/ Entering(r) \/ r.at = "log" => r.good = 0 /\ r.bad = 0
  /\ r.at = "log" => r.did
  /\ r.at = "failed" => r.bad = 0 /\ (r.good = 1 => r.did) /\ (r.did => f > 0)
  /\ r.tool /\ r.at = "done" =>
       /\ f = 0 /\ r.answer # "refused" =>
            r.good + r.bad = 1 /\ (r.good = 1 <=> r.did) /\ (r.answer = "ok" <=> r.did)
       /\ r.did /\ r.good + r.bad = 0 => f >= 2

Admits(r, us, pub, keys, f) ==
  /\ r \in AnyRequest
  /\ r.at = "idle" => r = Gate!Idle
  /\ r.at # "idle" =>
       /\ Recalls(r.was, r.who, us, pub) /\ Passed(r) /\ Logged(r, f)
       /\ IF r.tool THEN ByKey(r, keys) ELSE ByCookie(r)

GateStore ==
  /\ account \in [Accounts -> [role : {"member", "admin"}, active : BOOLEAN, rights : Gate!Granted]]
  /\ shown \in BOOLEAN
  /\ cookie \in [Accounts -> {"member", "admin", "none", "expired"}]
  /\ cred \in [Keys -> [state : {"none", "live", "ended"}, owner : Accounts, scopes : SUBSET Gate!Scopes]]
  /\ DOMAIN session = McpSessions /\ \A s \in McpSessions : session[s] = Gate!NoSession \/ session[s].cred \in Keys
  /\ changes \in 0..MaxChanges /\ faults \in 0..MaxFaults

GateKnown ==
  /\ GateStore /\ DOMAIN req = Entrants
  /\ \A q \in Entrants : Admits(req[q], account, shown, cred, faults)

LEMMA GateAssumptions ==
  /\ None \notin Accounts /\ q1 \in Entrants /\ OAuthTokens \subseteq Keys
  /\ OpenRoutes \subseteq Gate!Routes /\ OpenTools \subseteq Gate!Tools
  /\ Grants \subseteq Gate!Granted
  /\ InitAccounts \subseteq [role : {"member", "admin"}, active : BOOLEAN, rights : Gate!Granted]
  /\ InitKeys \subseteq [Keys -> [state : {"none", "live", "ended"}, owner : Accounts, scopes : SUBSET Gate!Scopes]]
  /\ ScopeSets \subseteq SUBSET Gate!Scopes
  /\ MaxChanges \in Nat /\ MaxFaults \in Nat
<1>1. Gate!GateAssumption /\ q1 \in Entrants
  BY ServiceAssumption DEF ServiceAssumption
<1> QED
  BY <1>1 DEF Gate!GateAssumption

LEMMA IdleIs ==
  /\ Gate!Idle \in AnyRequest /\ Gate!Idle.at = "idle"
  /\ Gate!Idle =
       [at |-> "idle", entry |-> Gate!Idle.entry, tool |-> FALSE, who |-> None, cred |-> "none", sess |-> "none",
        left |-> <<>>, was |-> Gate!Idle.was, did |-> FALSE, answer |-> "none", good |-> 0, bad |-> 0]
  /\ Gate!Idle.was \in Moments
BY DEF Gate!Idle, AnyRequest, Moments, GateStates

LEMMA EntriesTyped ==
  /\ \A r \in OpenRoutes : r.checks \in Seq(Gate!Rights)
  /\ \A t \in OpenTools : t.checks \in Seq(Gate!Rights)
BY GateAssumptions, RoutesTyped, ToolsTyped, TypedSequence

(* The keys go one way, and the faults only grow.                             *)
LEMMA StaysAdmitted ==
  ASSUME NEW r, NEW us, NEW pub, NEW keys, NEW f \in Nat, NEW keys2, NEW f2 \in Nat,
         Admits(r, us, pub, keys, f), f2 >= f,
         \A c \in Keys : /\ keys[c].state # "none" => keys2[c].state # "none"
                         /\ keys[c].state = "ended" => keys2[c].state = "ended"
  PROVE  Admits(r, us, pub, keys2, f2)
<1>1. r.at # "idle" => Logged(r, f2)
  BY DEF Admits, Logged
<1>2. r.at # "idle" /\ r.tool => ByKey(r, keys2)
  BY DEF Admits, ByKey
<1> QED
  BY <1>1, <1>2 DEF Admits

-----------------------------------------------------------------------------
(* The steps of one request *)

LEMMA RefusedStays ==
  ASSUME NEW r, NEW us, NEW pub, NEW keys, NEW f, Admits(r, us, pub, keys, f), Checking(r) \/ Entering(r)
  PROVE  Admits(Gate!Refuse(r), us, pub, keys, f) /\ Admits(Gate!Fail(r), us, pub, keys, f)
<1>1. r \in AnyRequest /\ r.at # "idle" /\ ~r.did /\ r.good = 0 /\ r.bad = 0
  BY DEF Admits, Logged, Checking, Entering
<1>2. ASSUME NEW n, n = [r EXCEPT !.at = "done", !.answer = "refused"]
      PROVE  Admits(n, us, pub, keys, f)
  <2>1. n \in AnyRequest /\ n.at = "done" /\ n.answer = "refused" /\ n.did = r.did
    BY <1>1, <1>2 DEF AnyRequest, GateStates
  <2>2. n.was = r.was /\ n.who = r.who /\ n.entry = r.entry /\ n.tool = r.tool /\ n.cred = r.cred /\ n.left = r.left
    BY <1>1, <1>2 DEF AnyRequest
  <2> QED
    BY <1>1, <2>1, <2>2 DEF Admits, Passed, Logged, ByKey, ByCookie, Checking, Entering
<1>3. ASSUME NEW n, n = [r EXCEPT !.at = "failed"], r.tool
      PROVE  Admits(n, us, pub, keys, f)
  <2>1. n \in AnyRequest /\ n.at = "failed" /\ n.did = r.did /\ n.good = r.good /\ n.bad = r.bad
    BY <1>1, <1>3 DEF AnyRequest, GateStates
  <2>2. n.was = r.was /\ n.who = r.who /\ n.entry = r.entry /\ n.tool = r.tool /\ n.cred = r.cred /\ n.left = r.left
    BY <1>1, <1>3 DEF AnyRequest
  <2> QED
    BY <1>1, <1>3, <2>1, <2>2 DEF Admits, Passed, Logged, ByKey, ByCookie, Checking, Entering
<1> QED
  BY <1>2, <1>3 DEF Gate!Refuse, Gate!Fail

LEMMA PassStays ==
  ASSUME NEW r, NEW us, NEW pub, NEW keys, NEW f, Admits(r, us, pub, keys, f),
         r.at \in {"user", "rights"}, Held(r.was, Head(r.left))
  PROVE  Admits(Gate!Pass(r), us, pub, keys, f)
<1> DEFINE n == Gate!Pass(r)
<1>1. r \in AnyRequest /\ r.left \in Seq(Gate!Rights) /\ r.left # <<>> /\ Checking(r)
  BY DEF Admits, AnyRequest, Passed, Checking
<1>2. Tail(r.left) \in Seq(Gate!Rights) /\ Elements(r.left) = {Head(r.left)} \cup Elements(Tail(r.left))
  BY <1>1, ElementsFall
<1>3. n = [r EXCEPT !.left = Tail(r.left), !.at = Gate!Ready(Tail(r.left))] /\ Gate!Ready(Tail(r.left)) \in {"act", "user"}
  BY DEF Gate!Pass, Gate!Ready
<1>4. /\ n \in AnyRequest /\ n.at = Gate!Ready(Tail(r.left)) /\ n.left = Tail(r.left)
      /\ n.was = r.was /\ n.who = r.who /\ n.entry = r.entry /\ n.tool = r.tool /\ n.cred = r.cred
      /\ n.did = r.did /\ n.good = r.good /\ n.bad = r.bad
  BY <1>1, <1>2, <1>3 DEF AnyRequest, GateStates
<1> HIDE DEF n
<1>5. Passed(r) /\ ~r.did /\ n.at \in {"act", "user"} /\ (n.at = "act" <=> n.left = <<>>)
  BY <1>1, <1>3, <1>4 DEF Admits, Logged, Gate!Ready, Checking
<1>6. Passed(n)
  BY <1>1, <1>2, <1>4, <1>5 DEF Passed, Checking
<1> QED
  BY <1>1, <1>4, <1>5, <1>6 DEF Admits, Logged, ByKey, ByCookie, Checking, Entering, n

LEMMA MovesOn ==
  ASSUME NEW r, NEW us, NEW pub, NEW keys, NEW f, NEW stage \in {"owner", "tool", "rights"},
         Admits(r, us, pub, keys, f),
         \/ r.at = "key" /\ keys[r.cred].state = "live" /\ stage = "owner"
         \/ r.at = "owner" /\ us[r.who].active /\ stage = "tool"
         \/ r.at = "user" /\ r.who # None /\ us[r.who].active /\ stage = "rights"
  PROVE  Admits([r EXCEPT !.at = stage], us, pub, keys, f)
<1> DEFINE n == [r EXCEPT !.at = stage]
<1>1. r \in AnyRequest /\ r.who \in Accounts \cup {None}
  BY DEF Admits, AnyRequest
<1>2. /\ n \in AnyRequest /\ n.at = stage /\ n.left = r.left
      /\ n.was = r.was /\ n.who = r.who /\ n.entry = r.entry /\ n.tool = r.tool /\ n.cred = r.cred
      /\ n.did = r.did /\ n.good = r.good /\ n.bad = r.bad
  BY <1>1 DEF AnyRequest, GateStates
<1> HIDE DEF n
<1>3. r.at \in {"key", "owner"} => r.tool
  BY DEF Admits, ByCookie, Checking
<1> QED
  BY <1>1, <1>2, <1>3 DEF Admits, Recalls, Passed, Logged, ByKey, ByCookie, Checking, Entering, n

LEMMA ToolBegins ==
  ASSUME NEW r, NEW us, NEW pub, NEW keys, NEW f, Admits(r, us, pub, keys, f), r.at = "tool"
  PROVE  Admits([r EXCEPT !.at = Gate!Ready(r.entry.checks), !.left = r.entry.checks], us, pub, keys, f)
<1> DEFINE n == [r EXCEPT !.at = Gate!Ready(r.entry.checks), !.left = r.entry.checks]
<1>1. r \in AnyRequest /\ r.tool /\ r.entry \in OpenTools
  BY DEF Admits, Passed, ByCookie, Checking
<1>2. r.entry.checks \in Seq(Gate!Rights)
  BY <1>1, EntriesTyped
<1>3. /\ Gate!Ready(r.entry.checks) \in {"act", "user"}
      /\ Gate!Ready(r.entry.checks) = "act" <=> r.entry.checks = <<>>
  BY DEF Gate!Ready
<1>4. /\ n \in AnyRequest /\ n.at = Gate!Ready(r.entry.checks) /\ n.left = r.entry.checks
      /\ n.was = r.was /\ n.who = r.who /\ n.entry = r.entry /\ n.tool = r.tool /\ n.cred = r.cred
      /\ n.did = r.did /\ n.good = r.good /\ n.bad = r.bad
  BY <1>1, <1>2, <1>3 DEF AnyRequest, GateStates
<1> HIDE DEF n
<1>5. ~n.did
  BY <1>4 DEF Admits, Logged, Entering
<1>6. Passed(n)
  BY <1>1, <1>3, <1>4, <1>5 DEF Admits, Passed
<1> QED
  BY <1>1, <1>3, <1>4, <1>5, <1>6 DEF Admits, Logged, ByKey, Checking, Entering, n

LEMMA ActedStays ==
  ASSUME NEW r, NEW us, NEW pub, NEW keys, NEW f, Admits(r, us, pub, keys, f), r.at = "act"
  PROVE  Admits(Gate!Acted(r), us, pub, keys, f)
<1>1. r \in AnyRequest /\ r.tool \in BOOLEAN /\ ~r.did /\ r.good = 0 /\ r.bad = 0
  BY DEF Admits, AnyRequest, Logged, Checking
<1>2. CASE r.tool
  <2> DEFINE n == [r EXCEPT !.did = TRUE, !.at = "log"]
  <2>1. /\ n \in AnyRequest /\ n.at = "log" /\ n.left = r.left
        /\ n.was = r.was /\ n.who = r.who /\ n.entry = r.entry /\ n.tool = r.tool /\ n.cred = r.cred
        /\ n.did /\ n.good = r.good /\ n.bad = r.bad
    BY <1>1 DEF AnyRequest, GateStates
  <2>2. Gate!Acted(r) = n
    BY <1>2 DEF Gate!Acted
  <2> HIDE DEF n
  <2> QED
    BY <1>1, <1>2, <2>1, <2>2 DEF Admits, Passed, Logged, ByKey, Checking, Entering
<1>3. CASE ~r.tool
  <2> DEFINE n == [r EXCEPT !.did = TRUE, !.at = "done", !.answer = "ok"]
  <2>1. /\ n \in AnyRequest /\ n.at = "done" /\ n.left = r.left
        /\ n.was = r.was /\ n.who = r.who /\ n.entry = r.entry /\ n.tool = r.tool /\ n.cred = r.cred
        /\ n.did /\ n.good = r.good /\ n.bad = r.bad
    BY <1>1 DEF AnyRequest, GateStates
  <2>2. Gate!Acted(r) = n
    BY <1>3 DEF Gate!Acted
  <2> HIDE DEF n
  <2> QED
    BY <1>1, <1>3, <2>1, <2>2 DEF Admits, Passed, Logged, ByCookie, Checking, Entering
<1> QED
  BY <1>1, <1>2, <1>3

LEMMA LoggedStays ==
  ASSUME NEW r, NEW us, NEW pub, NEW keys, NEW f \in Nat, NEW f2 \in Nat, Admits(r, us, pub, keys, f),
         NEW n \in AnyRequest, n.at \in {"failed", "done"}, r.at \in {"log", "failed"},
         n.was = r.was, n.who = r.who, n.entry = r.entry, n.tool = r.tool, n.cred = r.cred, n.left = r.left,
         n.did = r.did, Logged(n, f2)
  PROVE  Admits(n, us, pub, keys, f2)
BY DEF Admits, Passed, ByKey, ByCookie, Checking, Entering

LEMMA SuccessLogged ==
  ASSUME NEW r, NEW us, NEW pub, NEW keys, NEW f \in Nat, Admits(r, us, pub, keys, f), r.at = "log",
         NEW logged \in BOOLEAN, NEW touched \in BOOLEAN,
         NEW f2, f2 = f + Gate!Lost(logged) + Gate!Lost(touched)
  PROVE  /\ logged /\ touched => Admits([r EXCEPT !.good = 1, !.at = "done", !.answer = "ok"], us, pub, keys, f2)
         /\ ~(logged /\ touched) =>
              Admits([r EXCEPT !.good = 1 - Gate!Lost(logged), !.at = "failed"], us, pub, keys, f2)
<1>1. /\ r \in AnyRequest /\ r.did /\ r.good = 0 /\ r.bad = 0 /\ f2 \in Nat
      /\ ~(logged /\ touched) => f2 > 0
      /\ Gate!Lost(logged) \in {0, 1}
  BY DEF Admits, Logged, Gate!Lost
<1>2. ASSUME logged, touched, NEW n, n = [r EXCEPT !.good = 1, !.at = "done", !.answer = "ok"]
      PROVE  Admits(n, us, pub, keys, f2)
  <2>1. /\ n \in AnyRequest /\ n.at = "done" /\ n.left = r.left
        /\ n.was = r.was /\ n.who = r.who /\ n.entry = r.entry /\ n.tool = r.tool /\ n.cred = r.cred
        /\ n.did = r.did /\ n.good = 1 /\ n.bad = r.bad /\ n.answer = "ok"
    BY <1>1, <1>2 DEF AnyRequest, GateStates
  <2>2. Logged(n, f2)
    BY <1>1, <2>1 DEF Logged, Checking, Entering
  <2> QED
    BY <1>1, <2>1, <2>2, LoggedStays
<1>3. ASSUME ~(logged /\ touched), NEW n, n = [r EXCEPT !.good = 1 - Gate!Lost(logged), !.at = "failed"]
      PROVE  Admits(n, us, pub, keys, f2)
  <2>0. 1 - Gate!Lost(logged) \in {0, 1}
    BY <1>1
  <2>1. /\ n \in AnyRequest /\ n.at = "failed" /\ n.left = r.left
        /\ n.was = r.was /\ n.who = r.who /\ n.entry = r.entry /\ n.tool = r.tool /\ n.cred = r.cred
        /\ n.did = r.did /\ n.good \in {0, 1} /\ n.bad = r.bad
    BY <1>1, <1>3, <2>0 DEF AnyRequest, GateStates
  <2>2. Logged(n, f2)
    BY <1>1, <1>3, <2>1 DEF Logged, Checking, Entering
  <2> QED
    BY <1>1, <2>1, <2>2, LoggedStays
<1> QED
  BY <1>2, <1>3

LEMMA FailureLogged ==
  ASSUME NEW r, NEW us, NEW pub, NEW keys, NEW f \in Nat, Admits(r, us, pub, keys, f), r.at = "failed",
         NEW logged \in BOOLEAN, NEW f2, f2 = f + Gate!Lost(logged)
  PROVE  Admits([r EXCEPT !.bad = 1 - Gate!Lost(logged), !.at = "done", !.answer = "error"], us, pub, keys, f2)
<1>1. /\ r \in AnyRequest /\ r.bad = 0 /\ f2 \in Nat /\ (r.good = 1 => r.did) /\ (r.did => f > 0)
      /\ r.good \in {0, 1} /\ r.did \in BOOLEAN
  BY DEF Admits, AnyRequest, Logged, Gate!Lost
<1>2. PICK line \in {0, 1} : line = 1 - Gate!Lost(logged) /\ f2 = f + 1 - line
  BY DEF Gate!Lost
<1>3. ASSUME NEW n, n = [r EXCEPT !.bad = line, !.at = "done", !.answer = "error"]
      PROVE  Admits(n, us, pub, keys, f2)
  <2>1. /\ n \in AnyRequest /\ n.at = "done" /\ n.left = r.left
        /\ n.was = r.was /\ n.who = r.who /\ n.entry = r.entry /\ n.tool = r.tool /\ n.cred = r.cred
        /\ n.did = r.did /\ n.good = r.good /\ n.bad = line /\ n.answer = "error"
    <3>1. r \in AnyRequest /\ line \in {0, 1}
      BY <1>1
    <3> QED
      BY <1>3, <3>1 DEF AnyRequest, GateStates
  <2>2. Logged(n, f2)
    BY <1>1, <1>2, <2>1 DEF Logged, Checking, Entering
  <2> QED
    BY <1>1, <2>1, <2>2, LoggedStays
<1> QED
  BY <1>2, <1>3

-----------------------------------------------------------------------------
(* The steps of the gate *)

LEMMA OneRequest ==
  ASSUME GateKnown, GateStore', NEW q \in Entrants, NEW n, req' = [req EXCEPT ![q] = n],
         UNCHANGED <<account, shown>>, faults' >= faults,
         \A c \in Keys : /\ cred[c].state # "none" => cred'[c].state # "none"
                         /\ cred[c].state = "ended" => cred'[c].state = "ended",
         Admits(n, account, shown, cred', faults')
  PROVE  GateKnown'
<1>1. faults \in Nat /\ faults' \in Nat
  BY GateAssumptions DEF GateKnown, GateStore
<1>2. ASSUME NEW p \in Entrants PROVE Admits(req'[p], account, shown, cred', faults')
  <2>1. CASE p = q
    BY <2>1 DEF GateKnown
  <2>2. CASE p # q
    <3>1. req'[p] = req[p] /\ Admits(req[p], account, shown, cred, faults)
      BY <2>2 DEF GateKnown
    <3> QED
      BY <1>1, <3>1, StaysAdmitted
  <2> QED
    BY <2>1, <2>2
<1> QED
  BY <1>2 DEF GateKnown

LEMMA OneRequestAlone ==
  ASSUME GateKnown, NEW q \in Entrants, NEW n, req' = [req EXCEPT ![q] = n],
         UNCHANGED <<account, shown, cookie, cred, session, changes, faults>>,
         Admits(n, account, shown, cred, faults)
  PROVE  GateKnown'
<1>1. GateStore' /\ faults' >= faults
  BY GateAssumptions DEF GateKnown, GateStore
<1> QED
  BY <1>1, OneRequest

(* Nothing of the requests changes, and the keys go their way.                 *)
LEMMA NoRequest ==
  ASSUME GateKnown, GateStore', UNCHANGED <<account, shown, req, faults>>,
         \A c \in Keys : /\ cred[c].state # "none" => cred'[c].state # "none"
                         /\ cred[c].state = "ended" => cred'[c].state = "ended"
  PROVE  GateKnown'
<1>1. faults \in Nat /\ faults' = faults
  BY GateAssumptions DEF GateKnown, GateStore
<1>2. ASSUME NEW p \in Entrants PROVE Admits(req'[p], account, shown, cred', faults)
  <2>1. req'[p] = req[p] /\ Admits(req[p], account, shown, cred, faults)
    BY DEF GateKnown
  <2> QED
    BY <1>1, <2>1, StaysAdmitted
<1> QED
  BY <1>1, <1>2 DEF GateKnown

LEMMA GateAdmits ==
  ASSUME GateKnown, NEW q \in Entrants
  PROVE  /\ Admits(req[q], account, shown, cred, faults) /\ req[q] \in AnyRequest
         /\ req[q].who \in Accounts \cup {None} /\ shown \in BOOLEAN /\ faults \in Nat
BY GateAssumptions DEF GateKnown, GateStore, Admits, AnyRequest

LEMMA KeyStep ==
  ASSUME GateKnown, NEW q \in Entrants, Gate!ValidateKey(q) \/ Gate!AssertUserActive(q)
  PROVE  GateKnown'
<1>1. CASE Gate!ValidateKey(q)
  <2>1. req[q].at = "key" /\ Entering(req[q])
    BY <1>1 DEF Gate!ValidateKey, Entering
  <2>2. CASE cred[req[q].cred].state = "live"
    <3>1. Admits([req[q] EXCEPT !.at = "owner"], account, shown, cred, faults)
      BY <2>1, <2>2, GateAdmits, MovesOn
    <3> QED
      BY <1>1, <2>2, <3>1, OneRequestAlone DEF Gate!ValidateKey
  <2>3. CASE cred[req[q].cred].state # "live"
    <3>1. Admits(Gate!Refuse(req[q]), account, shown, cred, faults)
      BY <2>1, GateAdmits, RefusedStays
    <3> QED
      BY <1>1, <2>3, <3>1, OneRequestAlone DEF Gate!ValidateKey
  <2> QED
    BY <2>2, <2>3
<1>2. CASE Gate!AssertUserActive(q)
  <2>1. req[q].at = "owner" /\ Entering(req[q])
    BY <1>2 DEF Gate!AssertUserActive, Entering
  <2>2. CASE account[req[q].who].active
    <3>1. Admits([req[q] EXCEPT !.at = "tool"], account, shown, cred, faults)
      BY <2>1, <2>2, GateAdmits, MovesOn
    <3> QED
      BY <1>2, <2>2, <3>1, OneRequestAlone DEF Gate!AssertUserActive
  <2>3. CASE ~account[req[q].who].active
    <3>1. Admits(Gate!Refuse(req[q]), account, shown, cred, faults)
      BY <2>1, GateAdmits, RefusedStays
    <3> QED
      BY <1>2, <2>3, <3>1, OneRequestAlone DEF Gate!AssertUserActive
  <2> QED
    BY <2>2, <2>3
<1> QED
  BY <1>1, <1>2

LEMMA ToolStep ==
  ASSUME GateKnown, NEW q \in Entrants, Gate!ExecuteTool(q)
  PROVE  GateKnown'
<1>1. req[q].at = "tool" /\ Entering(req[q])
  BY DEF Gate!ExecuteTool, Entering
<1>2. \/ req' = [req EXCEPT ![q] = Gate!Refuse(req[q])]
      \/ req' = [req EXCEPT ![q] = Gate!Fail(req[q])]
      \/ req' = [req EXCEPT ![q] = [req[q] EXCEPT !.at = Gate!Ready(req[q].entry.checks), !.left = req[q].entry.checks]]
  BY DEF Gate!ExecuteTool
<1>3. /\ Admits(Gate!Refuse(req[q]), account, shown, cred, faults)
      /\ Admits(Gate!Fail(req[q]), account, shown, cred, faults)
  BY <1>1, GateAdmits, RefusedStays
<1>4. Admits([req[q] EXCEPT !.at = Gate!Ready(req[q].entry.checks), !.left = req[q].entry.checks],
             account, shown, cred, faults)
  BY <1>1, GateAdmits, ToolBegins
<1> QED
  BY <1>2, <1>3, <1>4, OneRequestAlone DEF Gate!ExecuteTool

LEMMA CheckStep ==
  ASSUME GateKnown, NEW q \in Entrants, Gate!ReadUser(q) \/ Gate!LoadRights(q)
  PROVE  GateKnown'
<1>1. /\ req[q].at \in {"user", "rights"} /\ Checking(req[q])
      /\ Recalls(req[q].was, req[q].who, account, shown) /\ Passed(req[q])
      /\ req[q].who \in Accounts \cup {None}
  BY GateAdmits DEF Gate!ReadUser, Gate!LoadRights, Checking, Admits
<1>2. /\ Held(req[q].was, Head(req[q].left)) => Admits(Gate!Pass(req[q]), account, shown, cred, faults)
      /\ Admits(Gate!Fail(req[q]), account, shown, cred, faults)
  BY <1>1, GateAdmits, PassStays, RefusedStays
<1>3. CASE Gate!ReadUser(q)
  <2>1. req[q].at = "user"
    BY <1>3 DEF Gate!ReadUser
  <2>2. CASE Head(req[q].left) = "page.read" /\ shown
    <3>1. Held(req[q].was, Head(req[q].left)) /\ req' = [req EXCEPT ![q] = Gate!Pass(req[q])]
      BY <1>1, <1>3, <2>2 DEF Held, Recalls, Gate!ReadUser
    <3> QED
      BY <1>2, <1>3, <3>1, OneRequestAlone DEF Gate!ReadUser
  <2>3. CASE ~(Head(req[q].left) = "page.read" /\ shown)
    <3>1. CASE req[q].who = None
      <4>1. req' = [req EXCEPT ![q] = Gate!Fail(req[q])]
        BY <1>3, <2>3, <3>1 DEF Gate!ReadUser
      <4> QED
        BY <1>2, <1>3, <4>1, OneRequestAlone DEF Gate!ReadUser
    <3>2. CASE req[q].who # None /\ account[req[q].who].role = "admin"
      <4>1. Held(req[q].was, Head(req[q].left)) /\ req' = [req EXCEPT ![q] = Gate!Pass(req[q])]
        BY <1>1, <1>3, <2>3, <3>2 DEF Held, Recalls, Gate!ReadUser
      <4> QED
        BY <1>2, <1>3, <4>1, OneRequestAlone DEF Gate!ReadUser
    <3>3. CASE req[q].who # None /\ account[req[q].who].role # "admin" /\ account[req[q].who].active
      <4>1. req' = [req EXCEPT ![q] = [req[q] EXCEPT !.at = "rights"]]
        BY <1>3, <2>3, <3>3 DEF Gate!ReadUser
      <4>2. Admits([req[q] EXCEPT !.at = "rights"], account, shown, cred, faults)
        BY <2>1, <3>3, GateAdmits, MovesOn
      <4> QED
        BY <1>3, <4>1, <4>2, OneRequestAlone DEF Gate!ReadUser
    <3>4. CASE req[q].who # None /\ account[req[q].who].role # "admin" /\ ~account[req[q].who].active
      <4>1. req' = [req EXCEPT ![q] = Gate!Fail(req[q])]
        BY <1>3, <2>3, <3>4 DEF Gate!ReadUser
      <4> QED
        BY <1>2, <1>3, <4>1, OneRequestAlone DEF Gate!ReadUser
    <3> QED
      BY <3>1, <3>2, <3>3, <3>4
  <2> QED
    BY <2>2, <2>3
<1>4. CASE Gate!LoadRights(q)
  <2>1. req[q].at = "rights" /\ req[q].who \in Accounts /\ req[q].was.active
    BY <1>1, <1>4 DEF Gate!LoadRights, Passed
  <2>2. CASE Head(req[q].left) \in account[req[q].who].rights
    <3>1. Held(req[q].was, Head(req[q].left)) /\ req' = [req EXCEPT ![q] = Gate!Pass(req[q])]
      BY <1>1, <1>4, <2>1, <2>2 DEF Held, Recalls, Gate!LoadRights
    <3> QED
      BY <1>2, <1>4, <3>1, OneRequestAlone DEF Gate!LoadRights
  <2>3. CASE Head(req[q].left) \notin account[req[q].who].rights
    <3>1. req' = [req EXCEPT ![q] = Gate!Fail(req[q])]
      BY <1>4, <2>3 DEF Gate!LoadRights
    <3> QED
      BY <1>2, <1>4, <3>1, OneRequestAlone DEF Gate!LoadRights
  <2> QED
    BY <2>2, <2>3
<1> QED
  BY <1>3, <1>4

LEMMA ActStep ==
  ASSUME GateKnown, NEW q \in Entrants, Gate!Act(q) \/ Gate!LogSuccess(q) \/ Gate!LogFailure(q) \/ Gate!Leave(q)
  PROVE  GateKnown'
<1>1. CASE Gate!Act(q)
  <2>1. Admits(Gate!Acted(req[q]), account, shown, cred, faults)
    BY <1>1, GateAdmits, ActedStays DEF Gate!Act
  <2> QED
    BY <1>1, <2>1, OneRequestAlone DEF Gate!Act
<1>2. CASE Gate!LogSuccess(q)
  <2>1. PICK logged \in BOOLEAN, touched \in BOOLEAN :
          /\ faults' = faults + Gate!Lost(logged) + Gate!Lost(touched) /\ faults' <= MaxFaults
          /\ req' = [req EXCEPT ![q] =
               IF logged /\ touched THEN [req[q] EXCEPT !.good = 1, !.at = "done", !.answer = "ok"]
               ELSE [req[q] EXCEPT !.good = 1 - Gate!Lost(logged), !.at = "failed"]]
    BY <1>2, Zenon DEF Gate!LogSuccess
  <2>2. /\ logged /\ touched =>
             Admits([req[q] EXCEPT !.good = 1, !.at = "done", !.answer = "ok"], account, shown, cred, faults')
        /\ ~(logged /\ touched) =>
             Admits([req[q] EXCEPT !.good = 1 - Gate!Lost(logged), !.at = "failed"], account, shown, cred, faults')
    <3>1. req[q].at = "log" /\ Admits(req[q], account, shown, cred, faults) /\ faults \in Nat
      BY <1>2, GateAdmits, Zenon DEF Gate!LogSuccess
    <3> QED
      BY <2>1, <3>1, SuccessLogged, Zenon
  <2>3. faults' >= faults /\ faults' \in 0..MaxFaults
    <3>1. Gate!Lost(logged) \in {0, 1} /\ Gate!Lost(touched) \in {0, 1}
      BY DEF Gate!Lost
    <3> QED
      BY <2>1, <3>1, GateAdmits, GateAssumptions
  <2>4. UNCHANGED <<account, shown, cookie, cred, session, changes>>
    BY <1>2, Zenon DEF Gate!LogSuccess
  <2>5. GateStore'
    BY <2>3, <2>4 DEF GateKnown, GateStore
  <2>6. PICK n : req' = [req EXCEPT ![q] = n] /\ Admits(n, account, shown, cred, faults')
    BY <2>1, <2>2, Zenon
  <2> QED
    BY <2>3, <2>4, <2>5, <2>6, OneRequest
<1>3. CASE Gate!LogFailure(q)
  <2>1. PICK logged \in BOOLEAN :
          /\ faults' = faults + Gate!Lost(logged) /\ faults' <= MaxFaults
          /\ req' = [req EXCEPT ![q] = [req[q] EXCEPT !.bad = 1 - Gate!Lost(logged), !.at = "done", !.answer = "error"]]
    BY <1>3, Zenon DEF Gate!LogFailure
  <2>2. Admits([req[q] EXCEPT !.bad = 1 - Gate!Lost(logged), !.at = "done", !.answer = "error"],
               account, shown, cred, faults')
    <3>1. req[q].at = "failed" /\ Admits(req[q], account, shown, cred, faults) /\ faults \in Nat
      BY <1>3, GateAdmits, Zenon DEF Gate!LogFailure
    <3> QED
      BY <2>1, <3>1, FailureLogged, Zenon
  <2>3. faults' >= faults /\ faults' \in 0..MaxFaults
    <3>1. Gate!Lost(logged) \in {0, 1}
      BY DEF Gate!Lost
    <3> QED
      BY <2>1, <3>1, GateAdmits, GateAssumptions
  <2>4. UNCHANGED <<account, shown, cookie, cred, session, changes>>
    BY <1>3, Zenon DEF Gate!LogFailure
  <2>5. GateStore'
    BY <2>3, <2>4 DEF GateKnown, GateStore
  <2>6. PICK n : req' = [req EXCEPT ![q] = n] /\ Admits(n, account, shown, cred, faults')
    BY <2>1, <2>2, Zenon
  <2> QED
    BY <2>3, <2>4, <2>5, <2>6, OneRequest
<1>4. CASE Gate!Leave(q)
  <2>1. Admits(Gate!Idle, account, shown, cred, faults)
    BY IdleIs DEF Admits
  <2> QED
    BY <1>4, <2>1, OneRequestAlone DEF Gate!Leave
<1> QED
  BY <1>1, <1>2, <1>3, <1>4

(* Who creates a key is an administrator with an account, or a program's owner.  *)
LEMMA KeysStep ==
  ASSUME GateKnown, NEW q \in Entrants, NEW c \in Keys,
         Gate!RevokeKey(q, c) \/ \E scopes \in ScopeSets : Gate!CreateKey(q, c, scopes)
  PROVE  GateKnown'
<1>1. req[q].at = "act" /\ Checking(req[q])
  BY DEF Gate!RevokeKey, Gate!CreateKey, Checking
<1>2. /\ Admits(Gate!Acted(req[q]), account, shown, cred, faults)
      /\ Admits(Gate!Refuse(req[q]), account, shown, cred, faults)
  BY <1>1, GateAdmits, ActedStays, RefusedStays
<1>3. CASE Gate!RevokeKey(q, c)
  <2>1. CASE cred[c].state = "none"
    <3>1. req' = [req EXCEPT ![q] = Gate!Refuse(req[q])]
      BY <1>3, <2>1 DEF Gate!RevokeKey
    <3> QED
      BY <1>2, <1>3, <2>1, <3>1, OneRequestAlone DEF Gate!RevokeKey
  <2>2. CASE cred[c].state # "none"
    <3>1. /\ cred' = [cred EXCEPT ![c] = [cred[c] EXCEPT !.state = "ended"]]
          /\ req' = [req EXCEPT ![q] = Gate!Acted(req[q])]
          /\ UNCHANGED <<account, shown, cookie, session, changes, faults>>
      BY <1>3, <2>2 DEF Gate!RevokeKey
    <3>2. [cred[c] EXCEPT !.state = "ended"] \in
            [state : {"none", "live", "ended"}, owner : Accounts, scopes : SUBSET Gate!Scopes]
      BY DEF GateKnown, GateStore
    <3>3. GateStore' /\ faults' >= faults /\ faults' = faults
      BY <3>1, <3>2, GateAdmits DEF GateKnown, GateStore
    <3>4. [cred[c] EXCEPT !.state = "ended"].state = "ended"
      BY DEF GateKnown, GateStore
    <3>5. \A k \in Keys : /\ cred[k].state # "none" => cred'[k].state # "none"
                          /\ cred[k].state = "ended" => cred'[k].state = "ended"
      BY <3>1, <3>4 DEF GateKnown, GateStore
    <3>6. Admits(Gate!Acted(req[q]), account, shown, cred', faults')
      BY <1>2, <3>3, <3>5, GateAdmits, StaysAdmitted
    <3> QED
      BY <3>1, <3>3, <3>5, <3>6, OneRequest
  <2> QED
    BY <2>1, <2>2
<1>4. ASSUME NEW scopes \in ScopeSets, Gate!CreateKey(q, c, scopes)
      PROVE  GateKnown'
  <2>1. req[q].entry.name = "key/create" /\ cred[c].state = "none"
    BY <1>4 DEF Gate!CreateKey
  <2>2. req[q].who \in Accounts
    <3>1. CASE req[q].tool
      BY <1>1, <3>1, GateAdmits DEF Admits, ByKey, Checking
    <3>2. CASE ~req[q].tool
      <4>1. req[q].entry \in Gate!Routes
        BY <1>1, <3>2, GateAdmits, GateAssumptions DEF Admits, Passed, Checking
      <4>2. req[q].entry.guard = "admin"
        BY <2>1, <4>1, RoutesCovered DEF Covered, ForAdmins
      <4> QED
        BY <1>1, <3>2, <4>2, GateAdmits DEF Admits, ByCookie, Checking
    <3> QED
      BY <3>1, <3>2
  <2>3. [state |-> "live", owner |-> req[q].who, scopes |-> scopes] \in
          [state : {"none", "live", "ended"}, owner : Accounts, scopes : SUBSET Gate!Scopes]
    BY <2>2, GateAssumptions
  <2>4. /\ cred' = [cred EXCEPT ![c] = [state |-> "live", owner |-> req[q].who, scopes |-> scopes]]
        /\ req' = [req EXCEPT ![q] = Gate!Acted(req[q])]
        /\ UNCHANGED <<account, shown, cookie, session, changes, faults>>
    BY <1>4 DEF Gate!CreateKey
  <2>5. GateStore' /\ faults' >= faults /\ faults' = faults
    BY <2>3, <2>4, GateAdmits DEF GateKnown, GateStore
  <2>6. \A k \in Keys : /\ cred[k].state # "none" => cred'[k].state # "none"
                        /\ cred[k].state = "ended" => cred'[k].state = "ended"
    BY <2>1, <2>4 DEF GateKnown, GateStore
  <2>7. Admits(Gate!Acted(req[q]), account, shown, cred', faults')
    BY <1>2, <2>5, <2>6, GateAdmits, StaysAdmitted
  <2> QED
    BY <2>4, <2>5, <2>6, <2>7, OneRequest
<1> QED
  BY <1>3, <1>4

LEMMA SurroundingsStep ==
  ASSUME GateKnown,
         \/ \E u \in Accounts : Gate!SignIn(u) \/ Gate!Expire(u)
         \/ \E c \in Keys : Gate!ExpireToken(c) \/ \E s \in McpSessions : Gate!OpenSession(c, s)
         \/ \E s \in McpSessions : Gate!CloseSession(s)
  PROVE  GateKnown'
<1>1. ASSUME NEW u \in Accounts, Gate!SignIn(u) \/ Gate!Expire(u) PROVE GateKnown'
  <2>1. GateStore'
    BY <1>1 DEF Gate!SignIn, Gate!Expire, Gate!Roles, GateKnown, GateStore
  <2> QED
    BY <1>1, <2>1, NoRequest DEF Gate!SignIn, Gate!Expire
<1>2. ASSUME NEW c \in Keys, Gate!ExpireToken(c) PROVE GateKnown'
  <2>1. cred' = [cred EXCEPT ![c] = [cred[c] EXCEPT !.state = "ended"]] /\ cred[c].state = "live"
    BY <1>2 DEF Gate!ExpireToken
  <2>2. /\ [cred[c] EXCEPT !.state = "ended"].state = "ended"
        /\ [cred[c] EXCEPT !.state = "ended"] \in
             [state : {"none", "live", "ended"}, owner : Accounts, scopes : SUBSET Gate!Scopes]
    BY DEF GateKnown, GateStore
  <2>3. cred' \in [Keys -> [state : {"none", "live", "ended"}, owner : Accounts, scopes : SUBSET Gate!Scopes]]
    BY <2>1, <2>2 DEF GateKnown, GateStore
  <2>5. GateStore'
    BY <1>2, <2>3 DEF Gate!ExpireToken, GateKnown, GateStore
  <2>4. \A k \in Keys : /\ cred[k].state # "none" => cred'[k].state # "none"
                        /\ cred[k].state = "ended" => cred'[k].state = "ended"
    BY <2>1, <2>2 DEF GateKnown, GateStore
  <2> QED
    BY <1>2, <2>4, <2>5, NoRequest DEF Gate!ExpireToken
<1>3. ASSUME NEW c \in Keys, NEW s \in McpSessions, Gate!OpenSession(c, s) PROVE GateKnown'
  <2>1. [cred |-> c, owner |-> cred[c].owner, scopes |-> cred[c].scopes].cred \in Keys
    OBVIOUS
  <2>2. GateStore'
    BY <1>3, <2>1 DEF Gate!OpenSession, GateKnown, GateStore
  <2> QED
    BY <1>3, <2>2, NoRequest DEF Gate!OpenSession
<1>4. ASSUME NEW s \in McpSessions, Gate!CloseSession(s) PROVE GateKnown'
  <2>1. GateStore'
    BY <1>4 DEF Gate!CloseSession, GateKnown, GateStore
  <2> QED
    BY <1>4, <2>1, NoRequest DEF Gate!CloseSession
<1> QED
  BY <1>1, <1>2, <1>3, <1>4

(* What an account gets while a request is under way, the request recalls.      *)
LEMMA ChangeStep ==
  ASSUME GateKnown, NEW u \in Accounts, NEW role \in {"member", "admin"}, NEW active \in BOOLEAN, NEW rights \in Grants,
         Gate!ChangeUser(u, role, active, rights)
  PROVE  GateKnown'
<1>1. GateStore'
  BY GateAssumptions DEF Gate!ChangeUser, GateKnown, GateStore
<1>2. ASSUME NEW q \in Entrants PROVE Admits(req'[q], account', shown, cred, faults)
  <2>1. CASE req[q].at = "idle"
    BY <2>1, GateAdmits, IdleIs DEF Gate!ChangeUser, Admits
  <2>2. CASE req[q].at # "idle"
    <3> DEFINE w == Gate!Seen(req[q].was, Gate!WasSo(req[q].who, account'))
               n == [req[q] EXCEPT !.was = w]
    <3>1. req'[q] = n
      BY <2>2 DEF Gate!ChangeUser
    <3>2. /\ req[q] \in AnyRequest /\ req[q].was \in Moments /\ req[q].who \in Accounts \cup {None}
          /\ account' \in [Accounts -> [role : {"member", "admin"}, active : BOOLEAN, rights : Gate!Granted]]
          /\ shown \in BOOLEAN
      BY <1>1, GateAdmits DEF AnyRequest, GateStore
    <3>3. w \in Moments
      BY <3>2, GateAssumptions DEF Moments, Gate!Seen, Gate!WasSo, Gate!Granted
    <3>4. /\ (req[q].was.admin => w.admin) /\ (req[q].was.active => w.active)
          /\ req[q].was.rights \subseteq w.rights /\ (req[q].was.public => w.public)
          /\ w.live = req[q].was.live /\ w.token = req[q].was.token
      BY <3>2 DEF Gate!Seen
    <3>5. Recalls(w, req[q].who, account', shown)
      BY <3>2, GateAssumptions DEF Recalls, Gate!Seen, Gate!WasSo
    <3>6. /\ n \in AnyRequest /\ n.was = w /\ n.at = req[q].at /\ n.entry = req[q].entry /\ n.tool = req[q].tool
          /\ n.who = req[q].who /\ n.cred = req[q].cred /\ n.left = req[q].left /\ n.did = req[q].did
          /\ n.answer = req[q].answer /\ n.good = req[q].good /\ n.bad = req[q].bad
      BY <3>2, <3>3 DEF AnyRequest
    <3> HIDE DEF w, n
    <3>7. \A right : Held(req[q].was, right) => Held(n.was, right)
      BY <3>4, <3>6 DEF Held
    <3>8. Passed(n)
      BY <2>2, <3>4, <3>6, <3>7, GateAdmits DEF Admits, Passed, Checking
    <3>9. Logged(n, faults)
      BY <2>2, <3>6, GateAdmits DEF Admits, Logged, Checking, Entering
    <3>10. IF n.tool THEN ByKey(n, cred) ELSE ByCookie(n)
      BY <2>2, <3>4, <3>6, GateAdmits DEF Admits, ByKey, ByCookie, Checking
    <3> QED
      BY <2>2, <3>1, <3>5, <3>6, <3>8, <3>9, <3>10 DEF Admits
  <2> QED
    BY <2>1, <2>2
<1>3. DOMAIN req' = Entrants /\ UNCHANGED <<shown, cred, faults>>
  BY DEF Gate!ChangeUser
<1> QED
  BY <1>1, <1>2, <1>3 DEF GateKnown

-----------------------------------------------------------------------------
(* A request comes *)

LEMMA NowRecalled ==
  ASSUME GateStore, NEW who \in Accounts \cup {None}, NEW b \in BOOLEAN
  PROVE  LET now1 == [Gate!WasSo(who, account) EXCEPT !.token = b]
             now2 == [Gate!WasSo(who, account) EXCEPT !.live = b]
         IN /\ now1 \in Moments /\ Recalls(now1, who, account, shown) /\ now1.token = b
            /\ now2 \in Moments /\ Recalls(now2, who, account, shown) /\ now2.live = b
<1>1. Gate!WasSo(who, account) \in Moments /\ Recalls(Gate!WasSo(who, account), who, account, shown)
  BY GateAssumptions DEF GateStore, Gate!WasSo, Moments, Recalls, Gate!Granted
<1> QED
  BY <1>1 DEF Moments, Recalls

Asked(r, who, w) == [Gate!Idle EXCEPT !.entry = r, !.who = who, !.left = r.checks, !.was = w]

Called(c, s, t, who, w) ==
  [Gate!Idle EXCEPT !.entry = t, !.tool = TRUE, !.at = "key", !.who = who, !.cred = c, !.sess = s, !.was = w]

Begun(n, e, isTool, who, w) ==
  /\ n \in AnyRequest /\ n.entry = e /\ n.tool = isTool /\ n.who = who /\ n.was = w
  /\ n.did = FALSE /\ n.good = 0 /\ n.bad = 0

LEMMA RouteAsked ==
  ASSUME NEW r \in OpenRoutes, NEW who \in Accounts \cup {None}, NEW w \in Moments
  PROVE  Begun(Asked(r, who, w), r, FALSE, who, w) /\ Asked(r, who, w).left = r.checks
<1> DEFINE n == Asked(r, who, w)
<1>1. r.checks \in Seq(Gate!Rights)
  BY EntriesTyped
<1>2. n \in AnyRequest
  BY <1>1, IdleIs DEF AnyRequest, Asked
<1>3. /\ n.entry = r /\ n.tool = FALSE /\ n.who = who /\ n.left = r.checks /\ n.was = w
      /\ n.did = FALSE /\ n.good = 0 /\ n.bad = 0
  BY IdleIs DEF AnyRequest, Asked
<1> QED
  BY <1>2, <1>3 DEF Begun

LEMMA ToolAsked ==
  ASSUME NEW c \in Keys, NEW s \in McpSessions, NEW t \in OpenTools, NEW who \in Accounts, NEW w \in Moments
  PROVE  /\ Begun(Called(c, s, t, who, w), t, TRUE, who, w)
         /\ Called(c, s, t, who, w).at = "key" /\ Called(c, s, t, who, w).cred = c
<1> DEFINE n == Called(c, s, t, who, w)
<1>1. n \in AnyRequest
  BY IdleIs DEF AnyRequest, GateStates, Called
<1>2. /\ n.at = "key" /\ n.entry = t /\ n.tool = TRUE /\ n.who = who /\ n.cred = c
      /\ n.was = w /\ n.did = FALSE /\ n.good = 0 /\ n.bad = 0
  BY IdleIs DEF AnyRequest, Called
<1> QED
  BY <1>1, <1>2 DEF Begun

LEMMA RouteBegins ==
  ASSUME NEW n \in AnyRequest, n.entry \in OpenRoutes, n.tool = FALSE, n.left = n.entry.checks, n.did = FALSE,
         n.good = 0, n.bad = 0, NEW us, NEW pub, NEW keys, NEW f,
         Recalls(n.was, n.who, us, pub), n.entry.guard = "admin" => n.was.token /\ n.who \in Accounts
  PROVE  Admits([n EXCEPT !.at = Gate!Ready(n.entry.checks)], us, pub, keys, f)
<1>1. /\ Gate!Ready(n.entry.checks) \in {"act", "user"}
      /\ Gate!Ready(n.entry.checks) = "act" <=> n.entry.checks = <<>>
  BY DEF Gate!Ready
<1> DEFINE m == [n EXCEPT !.at = Gate!Ready(n.entry.checks)]
<1>2. /\ m \in AnyRequest /\ m.at = Gate!Ready(n.entry.checks) /\ m.entry = n.entry /\ m.tool = FALSE /\ m.who = n.who
      /\ m.left = n.entry.checks /\ m.was = n.was /\ m.did = FALSE /\ m.good = 0 /\ m.bad = 0
  BY <1>1 DEF AnyRequest, GateStates
<1> HIDE DEF m
<1>3. Passed(m)
  BY <1>1, <1>2 DEF Passed, Checking
<1>4. Admits(m, us, pub, keys, f)
  BY <1>1, <1>2, <1>3 DEF Admits, Logged, ByCookie, Checking, Entering
<1> QED
  BY <1>4 DEF m

LEMMA RouteRefused ==
  ASSUME NEW n \in AnyRequest, n.entry \in OpenRoutes, n.tool = FALSE, n.did = FALSE,
         NEW us, NEW pub, NEW keys, NEW f, Recalls(n.was, n.who, us, pub)
  PROVE  Admits(Gate!Refuse(n), us, pub, keys, f)
<1> DEFINE m == Gate!Refuse(n)
<1>1. /\ m \in AnyRequest /\ m.at = "done" /\ m.entry = n.entry /\ m.tool = FALSE /\ m.who = n.who
      /\ m.was = n.was /\ m.did = FALSE
  BY DEF AnyRequest, GateStates, Gate!Refuse
<1> HIDE DEF m
<1>2. Passed(m)
  BY <1>1 DEF Passed, Checking
<1>3. Admits(m, us, pub, keys, f)
  BY <1>1, <1>2 DEF Admits, Logged, ByCookie, Checking, Entering
<1> QED
  BY <1>3 DEF m

LEMMA OnlyAdmins ==
  ASSUME NEW u
  PROVE  Gate!Admitted("admin", u) => u \in Accounts /\ cookie[u] = "admin"
BY DEF Gate!Admitted

LEMMA RequestStep ==
  ASSUME GateKnown, NEW q \in Entrants, NEW u \in Accounts \cup {None}, NEW r \in OpenRoutes, Gate!Request(q, u, r)
  PROVE  GateKnown'
<1> DEFINE who == IF r.guard = "none" THEN None ELSE Gate!Bearer(u)
           b == u \in Accounts /\ cookie[u] = "admin"
           w == [Gate!WasSo(who, account) EXCEPT !.token = b]
<1>0. PICK n : n = Asked(r, who, w)
  OBVIOUS
<1>1. /\ req' = [req EXCEPT ![q] = IF Gate!Admitted(r.guard, u) THEN [n EXCEPT !.at = Gate!Ready(r.checks)]
                                   ELSE Gate!Refuse(n)]
      /\ UNCHANGED <<account, shown, cookie, cred, session, changes, faults>>
  BY <1>0 DEF Gate!Request, Asked, Gate!Refuse
<1>2. who \in Accounts \cup {None} /\ b \in BOOLEAN
  BY DEF Gate!Bearer
<1>3. Gate!Admitted(r.guard, u) /\ r.guard = "admin" => b /\ who \in Accounts
  BY OnlyAdmins DEF Gate!Bearer, Gate!Roles
<1> HIDE DEF who, b
<1>4. w \in Moments /\ Recalls(w, who, account, shown) /\ w.token = b
  BY <1>2, NowRecalled DEF GateKnown
<1> HIDE DEF w
<1>5. /\ n \in AnyRequest /\ n.entry = r /\ n.tool = FALSE /\ n.who = who /\ n.left = r.checks /\ n.was = w
      /\ n.did = FALSE /\ n.good = 0 /\ n.bad = 0
  <2>1. Begun(n, r, FALSE, who, w) /\ n.left = r.checks
    BY <1>0, <1>2, <1>4, RouteAsked, Zenon
  <2> QED
    BY <2>1 DEF Begun
<1>6. CASE Gate!Admitted(r.guard, u)
  <2>1. n.entry.guard = "admin" => n.was.token /\ n.who \in Accounts
    BY <1>3, <1>4, <1>5, <1>6
  <2>2. Admits([n EXCEPT !.at = Gate!Ready(n.entry.checks)], account, shown, cred, faults)
    BY <1>4, <1>5, <2>1, RouteBegins
  <2> QED
    BY <1>1, <1>5, <1>6, <2>2, OneRequestAlone
<1>7. CASE ~Gate!Admitted(r.guard, u)
  <2>1. Admits(Gate!Refuse(n), account, shown, cred, faults)
    <3>1. Recalls(n.was, n.who, account, shown) /\ n.entry \in OpenRoutes
      BY <1>4, <1>5
    <3> QED
      BY <1>5, <3>1, RouteRefused
  <2> QED
    BY <1>1, <1>7, <2>1, OneRequestAlone
<1> QED
  BY <1>6, <1>7

LEMMA CallStep ==
  ASSUME GateKnown, NEW q \in Entrants, NEW c \in Keys, NEW s \in McpSessions, NEW t \in OpenTools, Gate!Call(q, c, s, t)
  PROVE  GateKnown'
<1> DEFINE who == cred[c].owner
           b == cred[c].state = "live"
           w == [Gate!WasSo(who, account) EXCEPT !.live = b]
<1>1. PICK n : n = Called(c, s, t, who, w) /\ req' = [req EXCEPT ![q] = n]
  BY DEF Gate!Call, Called
<1>2. UNCHANGED <<account, shown, cookie, cred, session, changes, faults>> /\ cred[c].state # "none"
  BY DEF Gate!Call
<1>3. who \in Accounts /\ b \in BOOLEAN /\ cred[c].state \in {"none", "live", "ended"}
  BY DEF GateKnown, GateStore
<1>4. w \in Moments /\ Recalls(w, who, account, shown) /\ w.live = b
  BY <1>3, NowRecalled DEF GateKnown
<1>5. (b \/ cred[c].state = "ended") /\ who \in Accounts
  BY <1>2, <1>3
<1> HIDE DEF who, b, w
<1>6. /\ n \in AnyRequest /\ n.at = "key" /\ n.entry = t /\ n.tool = TRUE /\ n.who = who /\ n.cred = c
      /\ n.was = w /\ n.did = FALSE /\ n.good = 0 /\ n.bad = 0
  <2>1. Begun(n, t, TRUE, who, w) /\ n.at = "key" /\ n.cred = c
    <3>1. /\ Begun(Called(c, s, t, who, w), t, TRUE, who, w)
          /\ Called(c, s, t, who, w).at = "key" /\ Called(c, s, t, who, w).cred = c
      <4>1. who \in Accounts /\ w \in Moments
        BY <1>4, <1>5, Zenon
      <4> QED
        BY <4>1, ToolAsked, Zenon
    <3>2. n = Called(c, s, t, who, w)
      BY <1>1, Zenon
    <3> QED
      BY <3>1, <3>2, Zenon
  <2> QED
    BY <2>1 DEF Begun
<1>7. Passed(n)
  BY <1>6 DEF Passed, Checking
<1>8. Admits(n, account, shown, cred, faults)
  BY <1>2, <1>4, <1>5, <1>6, <1>7 DEF Admits, Logged, ByKey, Checking, Entering
<1> QED
  BY <1>1, <1>2, <1>8, OneRequestAlone

LEMMA GateStep ==
  ASSUME GateKnown, NEW slots, NEW routes, NEW tools,
         slots \subseteq Entrants, routes \subseteq OpenRoutes, tools \subseteq OpenTools,
         Gate!NextFrom(slots, routes, tools)
  PROVE  GateKnown'
<1>1. ASSUME NEW q \in slots, Gate!Enter(q, routes, tools) PROVE GateKnown'
  BY <1>1, RequestStep, CallStep DEF Gate!Enter
<1>2. ASSUME NEW q \in Entrants, Gate!Proceed(q) \/ Gate!Leave(q) PROVE GateKnown'
  BY <1>2, KeyStep, ToolStep, CheckStep, ActStep, KeysStep DEF Gate!Proceed
<1>3. ASSUME NEW u \in Accounts, NEW role \in {"member", "admin"}, NEW active \in BOOLEAN, NEW rights \in Grants,
             Gate!ChangeUser(u, role, active, rights)
      PROVE  GateKnown'
  BY <1>3, ChangeStep
<1> QED
  BY <1>1, <1>2, <1>3, SurroundingsStep DEF Gate!NextFrom, Gate!Roles

LEMMA GateBegins == Gate!Init => GateKnown
<1> HAVE Gate!Init
<1>1. GateStore
  BY GateAssumptions DEF Gate!Init, GateStore, Gate!NoSession
<1>2. \A q \in Entrants : Admits(Gate!Idle, account, shown, cred, faults)
  BY IdleIs DEF Admits
<1> QED
  BY <1>1, <1>2 DEF Gate!Init, GateKnown

(* What the invariant says of the gate.                                     *)
LEMMA GateTells ==
  ASSUME GateKnown
  PROVE  Gate!TypeOK /\ Gate!RightHeld /\ Gate!KeyIsLive /\ Gate!AuditTells /\ Gate!SilentOnlyAfterTwoFaults
<1>1. Gate!TypeOK
  <2>1. ASSUME NEW q \in Entrants
        PROVE  /\ req[q].at \in GateStates /\ (req[q].at = "idle" => req[q] = Gate!Idle)
               /\ req[q].at # "idle" => req[q].entry \in IF req[q].tool THEN OpenTools ELSE OpenRoutes
               /\ req[q].who \in Accounts \cup {None} /\ req[q].answer \in {"none", "ok", "error", "refused"}
    BY GateAdmits DEF Admits, AnyRequest, Passed
  <2> QED
    BY <2>1 DEF Gate!TypeOK, Gate!Roles, GateStates, GateKnown, GateStore
<1>2. Gate!RightHeld
  <2> SUFFICES ASSUME NEW q \in Entrants, req[q].did, NEW right \in Gate!Needs(req[q].entry.name)
               PROVE  Held(req[q].was, right) \/ (right = "admin" /\ req[q].was.token)
    BY DEF Gate!RightHeld, Held
  <2>1. req[q].at # "idle" /\ Admits(req[q], account, shown, cred, faults)
    BY GateAdmits, IdleIs DEF Admits
  <2>2. \A n \in Elements(req[q].entry.checks) : Held(req[q].was, n)
    BY <2>1 DEF Admits, Passed, Elements
  <2>3. CASE req[q].tool
    BY <2>1, <2>2, <2>3, GateAssumptions, ToolsCovered DEF Admits, Passed, Asks
  <2>4. CASE ~req[q].tool
    BY <2>1, <2>2, <2>4, GateAssumptions, RoutesCovered DEF Admits, Passed, ByCookie, Covered, Asks, ForAdmins
  <2> QED
    BY <2>3, <2>4
<1>3. Gate!KeyIsLive /\ Gate!AuditTells /\ Gate!SilentOnlyAfterTwoFaults
  BY GateAdmits, IdleIs DEF Gate!KeyIsLive, Gate!AuditTells, Gate!SilentOnlyAfterTwoFaults, Admits, ByKey, Logged
<1> QED
  BY <1>1, <1>2, <1>3

GateInv == part \in {"doors", "withdrawn", "audited"} => GateKnown

LEMMA GateLeftAlone == GateKnown /\ UNCHANGED gateVars => GateKnown'
BY DEF gateVars, GateKnown, GateStore

LEMMA GateInvariance == GateInv /\ [Goes]_all => GateInv'
<1> SUFFICES ASSUME GateInv, [Goes]_all, part' \in {"doors", "withdrawn", "audited"} PROVE GateKnown'
  BY DEF GateInv
<1>1. UNCHANGED part /\ GateKnown
  BY DEF Goes, all, GateInv
<1>2. CASE UNCHANGED gateVars
  BY <1>1, <1>2, GateLeftAlone
<1>3. CASE PastDoors \/ Withdrawing \/ Auditing
  <2>1. /\ {q1} \subseteq Entrants
        /\ WithdrawnRoutes \subseteq OpenRoutes /\ WithdrawnTools \subseteq OpenTools
        /\ AuditedRoutes \subseteq OpenRoutes /\ AuditedTools \subseteq OpenTools
    BY GateAssumptions DEF WithdrawnRoutes, WithdrawnTools, AuditedRoutes, AuditedTools, Named
  <2> QED
    BY <1>1, <1>3, <2>1, GateStep DEF PastDoors, Withdrawing, Auditing
<1> QED
  BY <1>1, <1>2, <1>3 DEF Goes, all

(* JwtAuthGuard and the other guards, PermissionService, McpAuthGuard, executeTool *)
(* and its audit log: whatever is withdrawn, revoked or closed while requests are  *)
(* under way, an operation is done only for who held, during the request, every   *)
(* right it is documented to need, a tool only on a key that lived, and the log    *)
(* tells what became of a call unless two writes failed.                       *)
THEOREM GateIsSound == Behaviour => []GateSound
<1>1. Begins => GateInv
  BY GateBegins DEF Begins, GateInv
<1>2. GateInv => GateSound
  BY GateTells DEF GateInv, GateSound
<1> QED
  BY <1>1, <1>2, GateInvariance, PTL DEF Behaviour

-----------------------------------------------------------------------------
(* The content seed *)

SeedParentPage(s) == IF Seed!SeedParent[s] = None THEN None ELSE ids[Seed!SeedParent[s]]

(* The page found or made for the i-th seed stands where the seed has it.     *)
InPlace(i) ==
  LET p == ids[SeedPart[i]] IN
    /\ p \in SeedPages /\ rows[p] # None /\ rows[p].deleted = FALSE
    /\ rows[p].slug = SeedPart[i] /\ rows[p].parent = SeedParentPage(SeedPart[i])

AsReleased(i) ==
  LET p == ids[SeedPart[i]] IN rows[p].text = release /\ rows[p].comments = FALSE

(* What a start has done so far; only it writes, until the server is up.       *)
SeedKnows ==
  process = "pages" =>
    /\ seedTag = TRUE
    /\ \A i \in 1..next : (i < next \/ step # "find") => InPlace(i)
    /\ \A i \in 1..next : i < next => AsReleased(i) /\ ids[SeedPart[i]] \in seedTagged
    /\ step = "version" => rows[Seed!Page].text # release
    /\ step = "current" => versions[Seed!Page] > 0
    /\ step = "tag" => AsReleased(next)

SeedInv == Seed!TypeOK /\ (process = "tags" => next = 1 /\ step = "find") /\ SeedKnows

LEMMA OrderHasNoTwice ==
  ASSUME NEW m \in 1..Len(Seed!SeedOrder), NEW n \in 1..Len(Seed!SeedOrder), m < n
  PROVE  Seed!SeedOrder[m] # Seed!SeedOrder[n]
BY SMTT(30) DEF Seed!SeedOrder

LEMMA SeedParts ==
  /\ Len(SeedPart) \in Nat \ {0} /\ Seed!Seeded = {SeedPart[i] : i \in 1..Len(SeedPart)}
  /\ \A i, j \in 1..Len(SeedPart) : i # j => SeedPart[i] # SeedPart[j]
  /\ \A i \in 1..Len(SeedPart) :
       LET s == Seed!SeedParent[SeedPart[i]] IN
         s = None \/ \E j \in 1..Len(SeedPart) : j < i /\ SeedPart[j] = s
  /\ None \notin Seed!Row /\ None \notin SeedPages /\ None \notin Seed!Seeded
<1>1. /\ SeedPart \in Seq(Seed!ToSet(Seed!SeedOrder)) /\ SeedPart # << >>
      /\ \A i, j \in 1..Len(SeedPart) : i < j =>
           \E m, n \in 1..Len(Seed!SeedOrder) :
             m < n /\ Seed!SeedOrder[m] = SeedPart[i] /\ Seed!SeedOrder[n] = SeedPart[j]
      /\ \A i \in 1..Len(SeedPart) :
           \/ Seed!SeedParent[SeedPart[i]] = None
           \/ \E j \in 1..i - 1 : SeedPart[j] = Seed!SeedParent[SeedPart[i]]
      /\ None \notin Seed!Row /\ None \notin SeedPages /\ None \notin Seed!ToSet(Seed!SeedOrder)
  BY ServiceAssumption DEF Seed!SeedAssumption
<1>2. Len(SeedPart) \in Nat \ {0} /\ DOMAIN SeedPart = 1..Len(SeedPart)
  BY <1>1
<1>3. Seed!Seeded = {SeedPart[i] : i \in 1..Len(SeedPart)}
  BY <1>2 DEF Seed!Seeded, Seed!ToSet
<1>4. \A i, j \in 1..Len(SeedPart) : i < j => SeedPart[i] # SeedPart[j]
  BY <1>1, OrderHasNoTwice
<1>5. \A i, j \in 1..Len(SeedPart) : i # j => SeedPart[i] # SeedPart[j]
  BY <1>2, <1>4
<1>6. \A i \in 1..Len(SeedPart) :
        LET s == Seed!SeedParent[SeedPart[i]] IN
          s = None \/ \E j \in 1..Len(SeedPart) : j < i /\ SeedPart[j] = s
  BY <1>1, <1>2
<1>7. None \notin Seed!Seeded
  BY <1>1, <1>2, <1>3
<1> QED
  BY <1>1, <1>2, <1>3, <1>5, <1>6, <1>7

LEMMA TreeIsShallow ==
  ASSUME NEW s \in Seed!Seeded
  PROVE  LET t == Seed!SeedParent[s] IN
           \/ t = None \/ Seed!SeedParent[t] = None \/ Seed!SeedParent[Seed!SeedParent[t]] = None
<1>1. s \in Seed!ToSet(Seed!SeedOrder)
  <2>1. SeedPart \in Seq(Seed!ToSet(Seed!SeedOrder))
    BY ServiceAssumption DEF Seed!SeedAssumption
  <2> QED
    BY <2>1, SeedParts
<1>2. "documentation" \in Seed!ToSet(Seed!SeedOrder) /\ "guide-demarrage" \in Seed!ToSet(Seed!SeedOrder)
  <2>1. Seed!SeedOrder[1] = "documentation" /\ Seed!SeedOrder[2] = "guide-demarrage" /\ 1 \in DOMAIN Seed!SeedOrder /\ 2 \in DOMAIN Seed!SeedOrder
    BY DEF Seed!SeedOrder
  <2> QED
    BY <2>1 DEF Seed!ToSet
<1> QED
  BY <1>1, <1>2 DEF Seed!SeedParent

(* Where a page stands that the seed could have put there, level by level.     *)
LEMMA PlaceHas ==
  ASSUME NEW s \in Seed!Seeded, NEW p \in SeedPages, Seed!Live(p), rows[p].slug = s,
         \/ Seed!SeedParent[s] = None /\ rows[p].parent = None
         \/ Seed!SeedParent[s] # None /\ rows[p].parent \in Seed!Place[Seed!SeedParent[s]]
  PROVE  p \in Seed!Place[s]
<1> DEFINE Up(t) == Seed!SeedParent[t]
           Stand(t, S) == {q \in SeedPages : Seed!Live(q) /\ rows[q].slug = t /\
                             IF Up(t) = None THEN rows[q].parent = None ELSE rows[q].parent \in S}
           One(t)   == Stand(t, {})
           Two(t)   == Stand(t, One(Up(t)))
           Three(t) == Stand(t, Two(Up(t)))
           G == [t \in Seed!Seeded |-> Three(t)]
           Is(f) == f = [t \in Seed!Seeded |-> Stand(t, f[Up(t)])]
<1>1. \A t \in Seed!Seeded : Up(t) = None \/ Up(t) \in Seed!Seeded
  BY SeedParts
<1>2. ASSUME NEW t \in Seed!Seeded
      PROVE  Three(t) = Stand(t, G[Up(t)])
  <2>1. CASE Up(t) = None
    BY <2>1
  <2>2. CASE Up(t) # None
    <3>1. G[Up(t)] = Three(Up(t))
      BY <1>1, <2>2, Zenon
    <3>2. CASE Up(Up(t)) = None
      <4>1. Two(Up(t)) = Three(Up(t))
        BY <3>2
      <4> QED
        BY <3>1, <4>1, Zenon
    <3>3. CASE Up(Up(Up(t))) = None
      <4>1. One(Up(Up(t))) = Two(Up(Up(t)))
        BY <3>3, SMTT(30)
      <4>2. Two(Up(t)) = Three(Up(t))
        BY <4>1
      <4> QED
        BY <3>1, <4>2
    <3> QED
      BY <2>2, <3>2, <3>3, TreeIsShallow, Zenon
  <2> QED
    BY <2>1, <2>2, Zenon
<1>3. Is(G)
  BY <1>2, Zenon
<1>4. Seed!Place = CHOOSE f : Is(f)
  BY DEF Seed!Place
<1> HIDE DEF G
<1>5. Is(Seed!Place)
  <2> HIDE DEF Is
  <2> QED
    BY <1>3, <1>4
<1>6. Seed!Place[s] = Stand(s, Seed!Place[Up(s)])
  <2> HIDE DEF Stand, Up
  <2> QED
    BY <1>5
<1> QED
  BY <1>6

LEMMA AtHand ==
  ASSUME SeedInv, process = "pages"
  PROVE  /\ next \in 1..Len(SeedPart) /\ Seed!Seed = SeedPart[next] /\ Seed!Seed \in Seed!Seeded
         /\ Seed!Page = ids[SeedPart[next]]
         /\ Seed!Parent = SeedParentPage(SeedPart[next])
         /\ seedTag = TRUE
         /\ \A i \in 1..next : i < next => InPlace(i) /\ AsReleased(i) /\ ids[SeedPart[i]] \in seedTagged
         /\ step # "find" => InPlace(next)
<1>1. next \in 1..Len(SeedPart)
  BY DEF SeedInv, Seed!TypeOK
<1>2. next \in 1..next
  BY <1>1, SeedParts
<1> QED
  BY <1>1, <1>2, SeedParts DEF SeedInv, SeedKnows, Seed!Seed, Seed!Page, Seed!Parent, SeedParentPage

LEMMA StandsInPlace ==
  ASSUME SeedInv, NEW i \in 1..Len(SeedPart), \A j \in 1..Len(SeedPart) : j <= i => InPlace(j)
  PROVE  ids[SeedPart[i]] \in Seed!Place[SeedPart[i]]
<1> DEFINE Up(s) == Seed!SeedParent[s]
           P(j) == ids[SeedPart[j]] \in Seed!Place[SeedPart[j]]
<1>1. ASSUME NEW j \in 1..Len(SeedPart), j <= i,
             \/ Up(SeedPart[j]) = None
             \/ Up(SeedPart[j]) # None /\ ids[Up(SeedPart[j])] \in Seed!Place[Up(SeedPart[j])]
      PROVE  P(j)
  <2> DEFINE p == ids[SeedPart[j]]
             s == SeedPart[j]
  <2>1. /\ p \in SeedPages /\ rows[p] # None /\ rows[p].deleted = FALSE
        /\ rows[p].slug = s /\ rows[p].parent = SeedParentPage(s)
    BY <1>1 DEF InPlace
  <2>2. s \in Seed!Seeded /\ Seed!Live(p)
    BY <2>1, SeedParts DEF Seed!Live
  <2>3. \/ Up(s) = None /\ rows[p].parent = None
        \/ Up(s) # None /\ rows[p].parent \in Seed!Place[Up(s)]
    BY <1>1, <2>1 DEF SeedParentPage
  <2> HIDE DEF p, s
  <2>4. p \in Seed!Place[s]
    BY <2>1, <2>2, <2>3, PlaceHas
  <2> QED
    BY <2>4 DEF p, s
<1>2. ASSUME NEW j \in 1..Len(SeedPart), j <= i
      PROVE  \/ Up(SeedPart[j]) = None
             \/ \E k \in 1..Len(SeedPart) : k < j /\ SeedPart[k] = Up(SeedPart[j])
  BY SeedParts
<1>3. i \in Nat /\ \A j \in 1..Len(SeedPart) : j \in Nat /\ SeedPart[j] \in Seed!Seeded
  BY SeedParts
<1>4. ASSUME NEW j \in 1..Len(SeedPart), j <= i, Up(SeedPart[j]) = None \/ Up(Up(SeedPart[j])) = None
      PROVE  P(j)
  <2>1. CASE Up(SeedPart[j]) = None
    BY <1>1, <1>4, <2>1
  <2>2. CASE Up(SeedPart[j]) # None
    <3>1. PICK k \in 1..Len(SeedPart) : k < j /\ SeedPart[k] = Up(SeedPart[j])
      BY <1>2, <1>4, <2>2
    <3>2. k <= i
      BY <1>3, <1>4, <3>1
    <3>3. P(k)
      BY <1>1, <1>4, <2>2, <3>1, <3>2
    <3> QED
      BY <1>1, <1>4, <2>2, <3>1, <3>3
  <2> QED
    BY <2>1, <2>2
<1>5. CASE Up(SeedPart[i]) = None
  BY <1>1, <1>3, <1>5
<1>6. CASE Up(SeedPart[i]) # None
  <2>1. PICK k \in 1..Len(SeedPart) : k < i /\ SeedPart[k] = Up(SeedPart[i])
    BY <1>2, <1>3, <1>6
  <2>2. k <= i
    BY <1>3, <2>1
  <2>3. Up(SeedPart[k]) = None \/ Up(Up(SeedPart[k])) = None
    BY <1>3, <1>6, <2>1, TreeIsShallow
  <2>4. P(k)
    BY <1>4, <2>2, <2>3
  <2> QED
    BY <1>1, <1>3, <1>6, <2>1, <2>4
<1> QED
  BY <1>5, <1>6

(* The parent of the seed at hand is found, and stands in its own place.       *)
LEMMA ParentStands ==
  ASSUME SeedInv, process = "pages"
  PROVE  \/ Seed!SeedParent[Seed!Seed] = None /\ Seed!Parent = None
         \/ /\ Seed!SeedParent[Seed!Seed] # None /\ Seed!Parent \in SeedPages
            /\ Seed!Parent \in Seed!Place[Seed!SeedParent[Seed!Seed]]
<1> DEFINE u == Seed!SeedParent[Seed!Seed]
<1>1. CASE u = None
  BY <1>1, AtHand DEF SeedParentPage
<1>2. CASE u # None
  <2>1. PICK j \in 1..Len(SeedPart) : j < next /\ SeedPart[j] = u
    BY <1>2, AtHand, SeedParts
  <2>2. \A i \in 1..Len(SeedPart) : i <= j => InPlace(i)
    BY <2>1, AtHand, SeedParts
  <2>3. ids[SeedPart[j]] \in Seed!Place[SeedPart[j]] /\ InPlace(j)
    BY <2>1, <2>2, StandsInPlace, SeedParts
  <2> QED
    BY <1>2, <2>1, <2>3, AtHand DEF SeedParentPage, InPlace
<1> QED
  BY <1>1, <1>2

(* What was found for the seeds before stays found.                         *)
LEMMA PlacesStay ==
  ASSUME SeedInv, NEW n \in 1..Len(SeedPart), NEW i \in 1..Len(SeedPart), i <= n, InPlace(i),
         \A j \in 1..Len(SeedPart) : j <= n => ids'[SeedPart[j]] = ids[SeedPart[j]],
         LET p == ids[SeedPart[i]] IN
           /\ rows'[p] # None /\ rows'[p].deleted = rows[p].deleted
           /\ rows'[p].slug = rows[p].slug /\ rows'[p].parent = rows[p].parent
  PROVE  InPlace(i)'
<1>1. ids'[SeedPart[i]] = ids[SeedPart[i]]
  OBVIOUS
<1>2. SeedParentPage(SeedPart[i])' = SeedParentPage(SeedPart[i])
  <2>1. CASE Seed!SeedParent[SeedPart[i]] = None
    BY <2>1 DEF SeedParentPage
  <2>2. CASE Seed!SeedParent[SeedPart[i]] # None
    <3>1. PICK j \in 1..Len(SeedPart) : j < i /\ SeedPart[j] = Seed!SeedParent[SeedPart[i]]
      BY <2>2, SeedParts
    <3>2. j <= n
      BY <3>1, SeedParts
    <3> QED
      BY <2>2, <3>1, <3>2 DEF SeedParentPage
  <2> QED
    BY <2>1, <2>2
<1> QED
  BY <1>1, <1>2 DEF InPlace

(* The rows keep their places.                                              *)
SamePlaces ==
  \A q \in SeedPages :
    rows[q] # None => /\ rows'[q] # None /\ rows'[q].deleted = rows[q].deleted
                      /\ rows'[q].slug = rows[q].slug /\ rows'[q].parent = rows[q].parent

LEMMA AllPlacesStay ==
  ASSUME SeedInv, process = "pages", SamePlaces, ids' = ids
  PROVE  \A i \in 1..next : InPlace(i) => InPlace(i)'
<1>1. next \in 1..Len(SeedPart) /\ Len(SeedPart) \in Nat
  BY AtHand, SeedParts
<1>2. ASSUME NEW i \in 1..Len(SeedPart), i <= next, InPlace(i)
      PROVE  InPlace(i)'
  <2>1. ids[SeedPart[i]] \in SeedPages /\ rows[ids[SeedPart[i]]] # None
    BY <1>2 DEF InPlace
  <2>2. LET p == ids[SeedPart[i]] IN
          /\ rows'[p] # None /\ rows'[p].deleted = rows[p].deleted
          /\ rows'[p].slug = rows[p].slug /\ rows'[p].parent = rows[p].parent
    BY <2>1 DEF SamePlaces
  <2> QED
    BY <1>1, <1>2, <2>2, PlacesStay
<1> QED
  BY <1>1, <1>2

LEMMA HandIsPlaced ==
  ASSUME SeedInv, process = "pages", SamePlaces, NEW p \in SeedPages,
         ids' = [ids EXCEPT ![Seed!Seed] = p],
         rows'[p] # None, rows'[p].deleted = FALSE, rows'[p].slug = Seed!Seed, rows'[p].parent = Seed!Parent
  PROVE  \A i \in 1..next : InPlace(i)' /\ (i < next => ids'[SeedPart[i]] = ids[SeedPart[i]])
<1> PICK n \in 1..Len(SeedPart) : n = next
  BY AtHand
<1>1. /\ Len(SeedPart) \in Nat /\ Seed!Seed = SeedPart[n]
      /\ ids \in [Seed!Seeded -> SeedPages \cup {None}] /\ Seed!Seed \in Seed!Seeded
  BY AtHand, SeedParts DEF SeedInv, Seed!TypeOK
<1>2. \A j \in 1..Len(SeedPart) : j < n => ids'[SeedPart[j]] = ids[SeedPart[j]]
  BY <1>1, SeedParts
<1>3. ASSUME NEW i \in 1..Len(SeedPart), i < n
      PROVE  InPlace(i)'
  <2>0. InPlace(i)
    BY <1>1, <1>3, AtHand
  <2>1. ids[SeedPart[i]] \in SeedPages /\ rows[ids[SeedPart[i]]] # None
    BY <2>0 DEF InPlace
  <2>2. LET q == ids[SeedPart[i]] IN
          /\ rows'[q] # None /\ rows'[q].deleted = rows[q].deleted
          /\ rows'[q].slug = rows[q].slug /\ rows'[q].parent = rows[q].parent
    BY <2>1 DEF SamePlaces
  <2>3. \A j \in 1..Len(SeedPart) : j <= i => ids'[SeedPart[j]] = ids[SeedPart[j]]
    BY <1>1, <1>2, <1>3
  <2> QED
    BY <1>1, <2>0, <2>2, <2>3, PlacesStay
<1>4. InPlace(n)'
  <2>1. ids'[SeedPart[n]] = p
    BY <1>1
  <2>2. SeedParentPage(SeedPart[n])' = Seed!Parent
    <3>1. CASE Seed!SeedParent[SeedPart[n]] = None
      BY <3>1, AtHand DEF SeedParentPage
    <3>2. CASE Seed!SeedParent[SeedPart[n]] # None
      <4>1. PICK j \in 1..Len(SeedPart) : j < n /\ SeedPart[j] = Seed!SeedParent[SeedPart[n]]
        BY <1>1, <3>2, SeedParts
      <4> QED
        BY <1>2, <3>2, <4>1, AtHand DEF SeedParentPage
    <3> QED
      BY <3>1, <3>2
  <2> QED
    BY <1>1, <2>1, <2>2 DEF InPlace
<1> QED
  BY <1>1, <1>2, <1>3, <1>4

LEMMA FindKeeps ==
  ASSUME SeedInv, Seed!FindPage
  PROVE  SeedInv' /\ Seed!OthersKept
<1> process = "pages" /\ step = "find"
  BY DEF Seed!FindPage, Seed!Seeding
<1> PICK n \in 1..Len(SeedPart) : n = next
  BY AtHand
<1>0. /\ rows \in [SeedPages -> Seed!Row \cup {None}] /\ Seed!Seed \in Seed!Seeded /\ Seed!Seed = SeedPart[n]
      /\ ids \in [Seed!Seeded -> SeedPages \cup {None}]
  BY AtHand DEF SeedInv, Seed!TypeOK
<1>1. PICK p \in Seed!Found(Seed!Seed, Seed!Parent) :
        /\ ids' = [ids EXCEPT ![Seed!Seed] = p]
        /\ IF Seed!ContentChanged(p)
             THEN step' = "version" /\ UNCHANGED rows
             ELSE step' = "tag" /\ rows' = [rows EXCEPT ![p].comments = FALSE]
        /\ UNCHANGED <<versions, seedTag, seedTagged, release, process, next, trouble>>
  BY DEF Seed!FindPage
<1>2. /\ p \in SeedPages /\ rows[p] # None /\ rows[p] \in Seed!Row /\ ~rows[p].deleted
      /\ rows[p].slug = Seed!Seed /\ rows[p].parent = Seed!Parent
  BY <1>0 DEF Seed!Found, Seed!Live
<1>3. rows[p].deleted = FALSE
  BY <1>2 DEF Seed!Row
<1>4. \A q \in SeedPages \ {p} : rows'[q] = rows[q]
  BY <1>0, <1>1
<1>5. CASE Seed!ContentChanged(p)
  <2>1. SamePlaces /\ UNCHANGED rows
    BY <1>1, <1>5 DEF SamePlaces
  <2>2. \A i \in 1..next : InPlace(i)' /\ (i < next => ids'[SeedPart[i]] = ids[SeedPart[i]])
    BY <1>1, <1>2, <1>3, <2>1, HandIsPlaced
  <2>3. \A i \in 1..next : i < next => AsReleased(i)' /\ ids'[SeedPart[i]] \in seedTagged
    BY <1>1, <2>1, <2>2, AtHand DEF AsReleased
  <2>4. ids'[SeedPart[n]] = p /\ rows[p].text # release
    BY <1>0, <1>1, <1>5 DEF Seed!ContentChanged
  <2>5. Seed!Page' = p
    BY <1>1, <2>4 DEF Seed!Page, Seed!Seed
  <2>6. SeedKnows'
    BY <1>1, <1>5, <2>1, <2>2, <2>3, <2>4, <2>5, AtHand DEF SeedKnows
  <2>7. Seed!TypeOK'
    BY <1>0, <1>1, <1>2, <1>5 DEF SeedInv, Seed!TypeOK
  <2> QED
    BY <1>1, <2>1, <2>6, <2>7 DEF SeedInv, Seed!OthersKept
<1>6. CASE ~Seed!ContentChanged(p)
  <2>1. rows' = [rows EXCEPT ![p].comments = FALSE] /\ step' = "tag"
    BY <1>1, <1>6
  <2>2. /\ rows'[p] \in Seed!Row /\ rows'[p].comments = FALSE /\ rows'[p].text = rows[p].text
        /\ rows'[p].deleted = rows[p].deleted /\ rows'[p].slug = rows[p].slug
        /\ rows'[p].parent = rows[p].parent
    <3>1. rows'[p] = [rows[p] EXCEPT !.comments = FALSE]
      BY <1>0, <1>2, <2>1
    <3> QED
      BY <1>2, <3>1 DEF Seed!Row
  <2>3. SamePlaces /\ rows'[p] # None
    BY <1>4, <2>2, SeedParts DEF SamePlaces
  <2>4. \A i \in 1..next : InPlace(i)' /\ (i < next => ids'[SeedPart[i]] = ids[SeedPart[i]])
    BY <1>1, <1>2, <1>3, <2>2, <2>3, HandIsPlaced
  <2>5. \A i \in 1..next : i < next => AsReleased(i)' /\ ids'[SeedPart[i]] \in seedTagged
    <3> SUFFICES ASSUME NEW i \in 1..next, i < next
                 PROVE  AsReleased(i)' /\ ids'[SeedPart[i]] \in seedTagged
      OBVIOUS
    <3>1. ids'[SeedPart[i]] = ids[SeedPart[i]] /\ ids[SeedPart[i]] \in seedTagged /\ AsReleased(i) /\ InPlace(i)
      BY <2>4, AtHand
    <3> DEFINE q == ids[SeedPart[i]]
    <3>2. q \in SeedPages /\ rows[q].text = release /\ rows[q].comments = FALSE
      BY <3>1 DEF AsReleased, InPlace
    <3>3. rows'[q].text = release /\ rows'[q].comments = FALSE
      BY <1>4, <2>2, <3>2
    <3> QED
      BY <1>1, <3>1, <3>3 DEF AsReleased
  <2>6. ids'[SeedPart[n]] = p /\ rows'[p].text = release
    BY <1>0, <1>1, <1>6, <2>2 DEF Seed!ContentChanged
  <2>7. AsReleased(n)'
    BY <1>1, <2>2, <2>6 DEF AsReleased
  <2>8. SeedKnows'
    BY <1>1, <2>1, <2>4, <2>5, <2>7, AtHand DEF SeedKnows
  <2>9. Seed!TypeOK'
    <3>1. rows' \in [SeedPages -> Seed!Row \cup {None}]
      BY <1>0, <1>2, <2>1, <2>2
    <3>2. \A q \in SeedPages : rows'[q] # None /\ rows'[q].text # "none" => versions'[q] > 0
      BY <1>1, <1>2, <1>4, <2>2 DEF SeedInv, Seed!TypeOK
    <3>3. ids' \in [Seed!Seeded -> SeedPages \cup {None}]
      BY <1>0, <1>1, <1>2
    <3> QED
      BY <1>1, <2>1, <3>1, <3>2, <3>3 DEF SeedInv, Seed!TypeOK
  <2>10. p \in Seed!Place[Seed!Seed]
    BY <1>0, <1>2, ParentStands, PlaceHas DEF Seed!Live
  <2> QED
    BY <1>0, <1>1, <1>4, <2>8, <2>9, <2>10 DEF SeedInv, Seed!OthersKept
<1> QED
  BY <1>5, <1>6

LEMMA CreateKeeps ==
  ASSUME SeedInv, Seed!CreatePage
  PROVE  SeedInv' /\ Seed!OthersKept
<1> process = "pages" /\ step = "find"
  BY DEF Seed!CreatePage, Seed!Seeding
<1> PICK n \in 1..Len(SeedPart) : n = next
  BY AtHand
<1>0. /\ rows \in [SeedPages -> Seed!Row \cup {None}] /\ Seed!Seed \in Seed!Seeded /\ Seed!Seed = SeedPart[n]
      /\ ids \in [Seed!Seeded -> SeedPages \cup {None}]
  BY AtHand DEF SeedInv, Seed!TypeOK
<1> DEFINE row == [slug |-> Seed!Seed, parent |-> Seed!Parent, text |-> "none", comments |-> FALSE, deleted |-> FALSE]
<1>1. PICK p \in SeedPages : p = Seed!Fresh /\ rows[p] = None
  BY DEF Seed!CreatePage, Seed!Room, Seed!Fresh
<1>2. /\ ids' = [ids EXCEPT ![Seed!Seed] = p] /\ rows' = [rows EXCEPT ![p] = row]
      /\ step' = "version"
      /\ UNCHANGED <<versions, seedTag, seedTagged, release, process, next, trouble>>
  BY <1>1 DEF Seed!CreatePage
<1>3. /\ row \in Seed!Row /\ row.slug = Seed!Seed /\ row.parent = Seed!Parent /\ row.deleted = FALSE
      /\ row.text = "none"
  BY <1>0, ParentStands DEF Seed!Row, Seed!Texts
<1> HIDE DEF row
<1>4. rows'[p] = row /\ \A q \in SeedPages \ {p} : rows'[q] = rows[q]
  BY <1>0, <1>1, <1>2
<1>5. SamePlaces /\ row # None
  BY <1>1, <1>3, <1>4, SeedParts DEF SamePlaces
<1>6. \A i \in 1..next : InPlace(i)' /\ (i < next => ids'[SeedPart[i]] = ids[SeedPart[i]])
  BY <1>2, <1>3, <1>4, <1>5, HandIsPlaced
<1>7. \A i \in 1..next : i < next => AsReleased(i)' /\ ids'[SeedPart[i]] \in seedTagged
  <2> SUFFICES ASSUME NEW i \in 1..next, i < next
               PROVE  AsReleased(i)' /\ ids'[SeedPart[i]] \in seedTagged
    OBVIOUS
  <2>1. ids'[SeedPart[i]] = ids[SeedPart[i]] /\ ids[SeedPart[i]] \in seedTagged /\ AsReleased(i) /\ InPlace(i)
    BY <1>6, AtHand
  <2>2. ids[SeedPart[i]] \in SeedPages \ {p}
    BY <1>1, <2>1 DEF InPlace
  <2> QED
    BY <1>2, <1>4, <2>1, <2>2 DEF AsReleased
<1>8. Seed!Page' = p /\ rows'[p].text # release'
  <2>1. Seed!Page' = p
    BY <1>0, <1>2 DEF Seed!Page, Seed!Seed
  <2>2. release \in {"old", "new"}
    BY DEF SeedInv, Seed!TypeOK, Seed!Releases
  <2> QED
    BY <1>2, <1>3, <1>4, <2>1, <2>2
<1>9. SeedKnows'
  BY <1>2, <1>6, <1>7, <1>8, AtHand DEF SeedKnows
<1>10. Seed!TypeOK'
  <2>1. rows' \in [SeedPages -> Seed!Row \cup {None}] /\ ids' \in [Seed!Seeded -> SeedPages \cup {None}]
    BY <1>0, <1>2, <1>3
  <2>2. \A q \in SeedPages : rows'[q] # None /\ rows'[q].text # "none" => versions'[q] > 0
    BY <1>2, <1>3, <1>4 DEF SeedInv, Seed!TypeOK
  <2> QED
    BY <1>2, <2>1, <2>2 DEF SeedInv, Seed!TypeOK
<1> QED
  BY <1>1, <1>2, <1>4, <1>9, <1>10 DEF SeedInv, Seed!OthersKept

LEMMA VersionKeeps ==
  ASSUME SeedInv, Seed!InsertVersion
  PROVE  SeedInv' /\ Seed!OthersKept
<1> process = "pages" /\ step = "version"
  BY DEF Seed!InsertVersion, Seed!Seeding
<1> PICK p \in SeedPages : p = Seed!Page /\ rows[p] # None
  BY AtHand DEF InPlace
<1>1. /\ versions' = [versions EXCEPT ![p] = @ + 1] /\ step' = "current"
      /\ UNCHANGED <<rows, seedTag, seedTagged, release, process, next, ids, trouble>>
  BY DEF Seed!InsertVersion
<1>2. versions \in [SeedPages -> Nat] /\ rows[p].text # release
  BY DEF SeedInv, SeedKnows, Seed!TypeOK
<1>3. versions' \in [SeedPages -> Nat] /\ versions'[p] > 0 /\ \A q \in SeedPages \ {p} : versions'[q] = versions[q]
  BY <1>1, <1>2
<1>4. \A i \in 1..next : InPlace(i)'
  <2>1. SamePlaces /\ ids' = ids
    BY <1>1 DEF SamePlaces
  <2> QED
    BY <2>1, AllPlacesStay DEF SeedInv, SeedKnows
<1>5. Seed!Page' = p
  BY <1>1 DEF Seed!Page, Seed!Seed
<1>6. SeedKnows'
  BY <1>1, <1>3, <1>4, <1>5 DEF SeedInv, SeedKnows, AsReleased
<1>7. Seed!TypeOK'
  BY <1>1, <1>3 DEF SeedInv, Seed!TypeOK
<1> QED
  BY <1>1, <1>2, <1>3, <1>6, <1>7 DEF SeedInv, Seed!OthersKept

LEMMA CurrentKeeps ==
  ASSUME SeedInv, Seed!SetCurrent
  PROVE  SeedInv' /\ Seed!OthersKept
<1> process = "pages" /\ step = "current"
  BY DEF Seed!SetCurrent, Seed!Seeding
<1> PICK n \in 1..Len(SeedPart) : n = next
  BY AtHand
<1> PICK p \in SeedPages : p = ids[SeedPart[n]] /\ rows[p] # None
  BY AtHand DEF InPlace
<1>0. rows \in [SeedPages -> Seed!Row \cup {None}] /\ rows[p] \in Seed!Row /\ versions[p] > 0 /\ release \in Seed!Releases
  BY AtHand DEF SeedInv, SeedKnows, Seed!TypeOK
<1>1. /\ rows' = [rows EXCEPT ![p].text = release, ![p].comments = FALSE] /\ step' = "tag"
      /\ UNCHANGED <<versions, seedTag, seedTagged, release, process, next, ids, trouble>>
  BY AtHand DEF Seed!SetCurrent
<1>2. /\ rows'[p] \in Seed!Row /\ rows'[p].comments = FALSE /\ rows'[p].text = release
      /\ rows'[p].deleted = rows[p].deleted /\ rows'[p].slug = rows[p].slug
      /\ rows'[p].parent = rows[p].parent
  <2>1. rows'[p] = [rows[p] EXCEPT !.text = release, !.comments = FALSE]
    BY <1>0, <1>1
  <2> QED
    BY <1>0, <2>1 DEF Seed!Row, Seed!Texts
<1>3. \A q \in SeedPages \ {p} : rows'[q] = rows[q]
  BY <1>0, <1>1
<1>4. SamePlaces /\ ids' = ids
  <2>1. rows'[p] # None
    BY <1>2, SeedParts
  <2> QED
    BY <1>1, <1>2, <1>3, <2>1, Zenon DEF SamePlaces
<1>5. \A i \in 1..next : InPlace(i) /\ InPlace(i)'
  <2>1. \A i \in 1..next : InPlace(i)
    BY SMTT(30) DEF SeedInv, SeedKnows
  <2> QED
    BY <1>4, <2>1, AllPlacesStay
<1>6. \A i \in 1..next : i < next => AsReleased(i)' /\ ids'[SeedPart[i]] \in seedTagged
  <2> SUFFICES ASSUME NEW i \in 1..next, i < next
               PROVE  AsReleased(i)' /\ ids'[SeedPart[i]] \in seedTagged
    OBVIOUS
  <2>1. /\ AsReleased(i) /\ ids[SeedPart[i]] \in seedTagged /\ ids[SeedPart[i]] \in SeedPages
    BY <1>5, AtHand DEF InPlace
  <2> QED
    BY <1>1, <1>2, <1>3, <2>1, Zenon DEF AsReleased
<1>7. AsReleased(n)'
  BY <1>1, <1>2 DEF AsReleased
<1>8. SeedKnows'
  BY <1>1, <1>5, <1>6, <1>7, AtHand DEF SeedKnows
<1>9. Seed!TypeOK'
  <2>1. rows' \in [SeedPages -> Seed!Row \cup {None}]
    BY <1>0, <1>1, <1>2, Zenon
  <2>2. \A q \in SeedPages : rows'[q] # None /\ rows'[q].text # "none" => versions'[q] > 0
    BY <1>0, <1>1, <1>3 DEF SeedInv, Seed!TypeOK
  <2> QED
    BY <1>1, <2>1, <2>2 DEF SeedInv, Seed!TypeOK
<1>10. p \in Seed!Place[SeedPart[n]] /\ SeedPart[n] \in Seed!Seeded
  <2>1. \A j \in 1..Len(SeedPart) : j <= n => InPlace(j)
    BY <1>5, SeedParts
  <2> QED
    BY <2>1, StandsInPlace, SeedParts
<1> QED
  BY <1>1, <1>3, <1>8, <1>9, <1>10 DEF SeedInv, Seed!OthersKept

LEMMA TagKeeps ==
  ASSUME SeedInv, Seed!TagPage
  PROVE  SeedInv' /\ Seed!OthersKept /\ Seed!SeedShown
<1> process = "pages" /\ step = "tag"
  BY DEF Seed!TagPage, Seed!Seeding
<1> PICK n \in 1..Len(SeedPart) : n = next
  BY AtHand
<1>1. /\ seedTagged' = seedTagged \cup {ids[SeedPart[n]]} /\ step' = "find"
      /\ IF n < Len(SeedPart) THEN next' = n + 1 /\ UNCHANGED process
                              ELSE process' = "up" /\ UNCHANGED next
      /\ UNCHANGED <<rows, versions, seedTag, release, ids, trouble>>
  BY AtHand DEF Seed!TagPage
<1>2. \A i \in 1..Len(SeedPart) : i <= n =>
        InPlace(i) /\ AsReleased(i) /\ ids[SeedPart[i]] \in seedTagged'
  <2>1. ASSUME NEW i \in 1..Len(SeedPart), i < n
        PROVE  InPlace(i) /\ AsReleased(i) /\ ids[SeedPart[i]] \in seedTagged'
    BY <1>1, <2>1, SeedParts, AtHand
  <2>2. InPlace(n) /\ AsReleased(n) /\ ids[SeedPart[n]] \in seedTagged'
    BY <1>1, AtHand DEF SeedInv, SeedKnows
  <2>3. \A i \in 1..Len(SeedPart) : i <= n => i < n \/ i = n
    BY SeedParts
  <2> QED
    BY <2>1, <2>2, <2>3
<1>3. \A i : (InPlace(i) => InPlace(i)') /\ (AsReleased(i) => AsReleased(i)')
  BY <1>1 DEF InPlace, AsReleased, SeedParentPage
<1>4. SeedKnows'
  <2> SUFFICES ASSUME n < Len(SeedPart)
               PROVE  SeedKnows'
    BY <1>1 DEF SeedKnows
  <2>1. next' = n + 1 /\ \A i \in 1..n + 1 : i < n + 1 => i \in 1..Len(SeedPart) /\ i <= n
    BY <1>1, SeedParts
  <2> QED
    BY <1>1, <1>2, <1>3, <2>1, AtHand DEF SeedKnows
<1>5. Seed!TypeOK'
  <2>1. ids[SeedPart[n]] \in SeedPages /\ seedTag = TRUE
    BY <1>2, AtHand, SeedParts DEF InPlace
  <2>2. next' \in 1..Len(SeedPart) /\ process' \in {"pages", "up"}
    BY <1>1, SeedParts
  <2> QED
    BY <1>1, <2>1, <2>2 DEF SeedInv, Seed!TypeOK
<1>6. Seed!SeedShown
  <2> SUFFICES ASSUME n = Len(SeedPart), NEW s \in Seed!Seeded
               PROVE  LET p == ids[s] IN
                        /\ Seed!Live(p) /\ rows[p].slug = s
                        /\ rows[p].parent = IF Seed!SeedParent[s] = None THEN None ELSE ids[Seed!SeedParent[s]]
                        /\ rows[p].text = release /\ ~rows[p].comments
                        /\ p \in seedTagged'
    BY <1>1, SeedParts DEF Seed!SeedShown
  <2>1. PICK i \in 1..Len(SeedPart) : s = SeedPart[i]
    BY SeedParts
  <2>2. InPlace(i) /\ AsReleased(i) /\ ids[s] \in seedTagged'
    BY <1>2, <2>1, SeedParts
  <2> QED
    BY <2>1, <2>2 DEF InPlace, AsReleased, SeedParentPage, Seed!Live
<1> QED
  BY <1>1, <1>4, <1>5, <1>6 DEF SeedInv, Seed!OthersKept

(* Out of the seeding of pages, only the types are to be kept.               *)
LEMMA StartKeeps ==
  ASSUME SeedInv, Seed!Start \/ Seed!SeedTags \/ Seed!CreateRefused \/ Seed!Crash \/ Seed!Upgrade
  PROVE  SeedInv' /\ Seed!OthersKept /\ Seed!SeedShown
<1>1. CASE Seed!Start
  BY <1>1, SeedParts DEF Seed!Start, Seed!db, Seed!NoIds, SeedInv, SeedKnows, Seed!TypeOK, Seed!OthersKept, Seed!SeedShown
<1>2. CASE Seed!SeedTags
  <2>1. next = 1 /\ step = "find"
    BY <1>2 DEF SeedInv, Seed!SeedTags
  <2> QED
    BY <1>2, <2>1 DEF Seed!SeedTags, SeedInv, SeedKnows, Seed!TypeOK, Seed!OthersKept, Seed!SeedShown
<1>3. CASE Seed!CreateRefused \/ Seed!Crash \/ Seed!Upgrade
  <2>1. MaxUpheavals \in Nat
    BY ServiceAssumption DEF Seed!SeedAssumption
  <2>2. SeedKnows' /\ process' = "down" /\ Seed!OthersKept /\ Seed!SeedShown
    BY <1>3 DEF Seed!CreateRefused, Seed!Crash, Seed!Upgrade, Seed!Seeding, Seed!db, SeedKnows, Seed!OthersKept, Seed!SeedShown
  <2>3. Seed!TypeOK'
    BY <1>3, <2>1, <2>2 DEF Seed!CreateRefused, Seed!Crash, Seed!Upgrade, Seed!Trouble, Seed!db, SeedInv, Seed!TypeOK, Seed!Releases
  <2> QED
    BY <2>2, <2>3 DEF SeedInv
<1> QED
  BY <1>1, <1>2, <1>3

(* People change pages only while the server is up.                          *)
LEMMA PeopleKeep ==
  ASSUME SeedInv,
         \/ Seed!People(Seed!Edit \/ Seed!Move \/ Seed!Create \/ Seed!DeleteTag)
         \/ Seed!People(Seed!Delete)
  PROVE  SeedInv' /\ Seed!OthersKept /\ Seed!SeedShown
<1> DEFINE Shaped == /\ rows' \in [SeedPages -> Seed!Row \cup {None}] /\ versions' \in [SeedPages -> Nat]
                    /\ \A q \in SeedPages : rows'[q] # None /\ rows'[q].text # "none" => versions'[q] > 0
<1>0. /\ rows \in [SeedPages -> Seed!Row \cup {None}] /\ versions \in [SeedPages -> Nat]
      /\ \A q \in SeedPages : rows[q] # None /\ rows[q].text # "none" => versions[q] > 0
      /\ None \notin Seed!Row
  BY SeedParts DEF SeedInv, Seed!TypeOK
<1>1. ASSUME NEW p \in SeedPages, NEW row \in Seed!Row, NEW v \in Nat,
             rows' = [rows EXCEPT ![p] = row], versions' = [versions EXCEPT ![p] = v],
             row.text # "none" => v > 0
      PROVE  Shaped
  <2>1. rows'[p] = row /\ versions'[p] = v
        /\ \A q \in SeedPages \ {p} : rows'[q] = rows[q] /\ versions'[q] = versions[q]
    BY <1>0, <1>1
  <2>2. rows' \in [SeedPages -> Seed!Row \cup {None}] /\ versions' \in [SeedPages -> Nat]
    BY <1>0, <1>1
  <2> QED
    BY <1>0, <1>1, <2>1, <2>2
<1>2. ASSUME Seed!Edit PROVE Shaped
  <2>1. PICK p \in SeedPages, on \in BOOLEAN :
          /\ Seed!Live(p)
          /\ rows' = [rows EXCEPT ![p].text = "others", ![p].comments = on]
          /\ versions' = [versions EXCEPT ![p] = @ + 1]
          /\ UNCHANGED <<seedTag, seedTagged>>
    BY <1>2 DEF Seed!Edit
  <2> DEFINE row == [rows[p] EXCEPT !.text = "others", !.comments = on]
  <2>2. rows[p] \in Seed!Row
    BY <1>0, <2>1 DEF Seed!Live
  <2>3. row \in Seed!Row
    BY <2>2 DEF Seed!Row, Seed!Texts
  <2>4. rows' = [rows EXCEPT ![p] = row]
    BY <1>0, <2>1
  <2>5. versions[p] + 1 \in Nat /\ versions[p] + 1 > 0 /\ versions' = [versions EXCEPT ![p] = versions[p] + 1]
    BY <1>0, <2>1
  <2> HIDE DEF row
  <2> QED
    BY <1>1, <2>1, <2>3, <2>4, <2>5
<1>3. ASSUME Seed!Move PROVE Shaped
  <2>1. PICK p \in SeedPages, to \in SeedPages \cup {None} :
          /\ Seed!Live(p) /\ rows' = [rows EXCEPT ![p].parent = to]
          /\ UNCHANGED <<versions, seedTag, seedTagged>>
    BY <1>3 DEF Seed!Move
  <2> DEFINE row == [rows[p] EXCEPT !.parent = to]
  <2>2. rows[p] \in Seed!Row /\ rows[p] # None
    BY <1>0, <2>1 DEF Seed!Live
  <2>3. row \in Seed!Row /\ row.text = rows[p].text
    BY <2>2 DEF Seed!Row
  <2>4. rows' = [rows EXCEPT ![p] = row]
    BY <1>0, <2>1
  <2>5. versions[p] \in Nat /\ versions' = [versions EXCEPT ![p] = versions[p]]
    BY <1>0, <2>1
  <2>6. row.text # "none" => versions[p] > 0
    BY <1>0, <2>2, <2>3
  <2> HIDE DEF row
  <2> QED
    BY <1>1, <2>1, <2>3, <2>4, <2>5, <2>6, Zenon
<1>4. ASSUME Seed!Create PROVE Shaped
  <2>1. PICK to \in SeedPages \cup {None}, s \in Seed!Seeded :
          /\ Seed!Room
          /\ rows' = [rows EXCEPT ![Seed!Fresh] =
               [slug |-> s, parent |-> to, text |-> "others", comments |-> TRUE, deleted |-> FALSE]]
          /\ versions' = [versions EXCEPT ![Seed!Fresh] = 1]
          /\ UNCHANGED <<seedTag, seedTagged>>
    BY <1>4 DEF Seed!Create
  <2> DEFINE row == [slug |-> s, parent |-> to, text |-> "others", comments |-> TRUE, deleted |-> FALSE]
  <2>2. PICK p \in SeedPages : p = Seed!Fresh
    BY <2>1 DEF Seed!Room, Seed!Fresh
  <2>3. row \in Seed!Row
    BY DEF Seed!Row, Seed!Texts
  <2>4. rows' = [rows EXCEPT ![p] = row] /\ versions' = [versions EXCEPT ![p] = 1]
    BY <2>1, <2>2
  <2>5. 1 \in Nat /\ 1 > 0
    OBVIOUS
  <2> HIDE DEF row, Shaped
  <2> QED
    BY <1>1, <2>3, <2>4, <2>5
<1>5. ASSUME Seed!DeleteTag PROVE Shaped
  BY <1>0, <1>5 DEF Seed!DeleteTag
<1>6. ASSUME Seed!Delete PROVE Shaped
  <2>1. PICK p \in SeedPages :
          /\ Seed!Live(p)
          /\ rows' = [q \in SeedPages |-> IF q \in Seed!Below(p) \cup {p} THEN [rows[q] EXCEPT !.deleted = TRUE] ELSE rows[q]]
          /\ UNCHANGED <<versions, seedTag, seedTagged>>
    BY <1>6 DEF Seed!Delete
  <2>2. ASSUME NEW q \in SeedPages
        PROVE  /\ rows'[q] \in Seed!Row \cup {None}
               /\ rows'[q] # None => rows[q] # None /\ rows'[q].text = rows[q].text
    <3>1. CASE q \in Seed!Below(p) \cup {p}
      <4>1. rows[q] # None /\ rows[q] \in Seed!Row
        BY <1>0, <2>1, <3>1 DEF Seed!Below, Seed!Live
      <4>2. rows'[q] = [rows[q] EXCEPT !.deleted = TRUE]
        BY <2>1, <3>1
      <4> QED
        BY <4>1, <4>2 DEF Seed!Row
    <3>2. CASE q \notin Seed!Below(p) \cup {p}
      BY <1>0, <2>1, <3>2
    <3> QED
      BY <3>1, <3>2
  <2>3. rows' \in [SeedPages -> Seed!Row \cup {None}]
    <3>1. rows' = [q \in SeedPages |-> rows'[q]]
      BY <2>1
    <3> QED
      BY <2>2, <3>1
  <2> QED
    BY <1>0, <2>1, <2>2, <2>3
<1>7. Shaped
  BY <1>2, <1>3, <1>4, <1>5, <1>6 DEF Seed!People
<1> HIDE DEF Shaped
<1>8. /\ process = "up" /\ process' = "up" /\ UNCHANGED <<release, next, step, ids>>
      /\ \/ UNCHANGED <<seedTag, seedTagged>>
         \/ seedTag' = FALSE /\ seedTagged' = {}
      /\ trouble' \in 0..MaxUpheavals
  <2>1. MaxUpheavals \in Nat
    BY ServiceAssumption DEF Seed!SeedAssumption
  <2>2. process = "up" /\ UNCHANGED <<release, process, next, step, ids>> /\ Seed!Trouble
    BY DEF Seed!People
  <2>3. trouble' \in 0..MaxUpheavals
    BY <2>1, <2>2 DEF Seed!Trouble, SeedInv, Seed!TypeOK
  <2>4. Seed!Edit \/ Seed!Move \/ Seed!Create \/ Seed!DeleteTag \/ Seed!Delete
    BY DEF Seed!People
  <2>5. (UNCHANGED <<seedTag, seedTagged>>) \/ (seedTag' = FALSE /\ seedTagged' = {})
    <3>1. CASE Seed!Edit
      BY <3>1 DEF Seed!Edit
    <3>2. CASE Seed!Move \/ Seed!Create
      BY <3>2 DEF Seed!Move, Seed!Create
    <3>3. CASE Seed!DeleteTag \/ Seed!Delete
      BY <3>3 DEF Seed!DeleteTag, Seed!Delete
    <3> QED
      BY <2>4, <3>1, <3>2, <3>3, Zenon
  <2> QED
    BY <2>2, <2>3, <2>5
<1>9. Seed!TypeOK'
  <2>1. seedTag' \in BOOLEAN /\ seedTagged' \subseteq SeedPages /\ (seedTagged' # {} => seedTag')
    <3>1. seedTag \in BOOLEAN /\ seedTagged \subseteq SeedPages /\ (seedTagged # {} => seedTag)
      BY DEF SeedInv, Seed!TypeOK
    <3>2. CASE UNCHANGED <<seedTag, seedTagged>>
      BY <3>1, <3>2
    <3>3. CASE seedTag' = FALSE /\ seedTagged' = {}
      BY <3>3
    <3> QED
      BY <1>8, <3>2, <3>3, Zenon
  <2>2. /\ release' \in Seed!Releases /\ process' \in {"down", "tags", "pages", "up"}
        /\ next' \in 1..Len(SeedPart) /\ step' \in {"find", "version", "current", "tag"}
        /\ ids' \in [Seed!Seeded -> SeedPages \cup {None}]
    BY <1>8 DEF SeedInv, Seed!TypeOK
  <2> QED
    BY <1>7, <1>8, <2>1, <2>2 DEF Shaped, Seed!TypeOK
<1>10. SeedInv'
  BY <1>8, <1>9 DEF SeedInv, SeedKnows
<1> QED
  BY <1>8, <1>10 DEF Seed!OthersKept, Seed!SeedShown

LEMMA SeedNextKeeps ==
  ASSUME SeedInv, Seed!Next
  PROVE  SeedInv' /\ Seed!OthersKept /\ Seed!SeedShown
<1>1. CASE Seed!FindPage \/ Seed!CreatePage \/ Seed!InsertVersion \/ Seed!SetCurrent
  <2>1. Seed!SeedShown
    BY <1>1 DEF Seed!SeedShown, Seed!FindPage, Seed!CreatePage, Seed!InsertVersion, Seed!SetCurrent
  <2> QED
    BY <1>1, <2>1, FindKeeps, CreateKeeps, VersionKeeps, CurrentKeeps
<1> QED
  BY <1>1, TagKeeps, StartKeeps, PeopleKeep DEF Seed!Next, Seed!Boot, Seed!Life

LEMMA SeedInitHolds == Seed!Init => SeedInv
<1> SUFFICES ASSUME Seed!Init PROVE SeedInv
  OBVIOUS
<1>1. MaxUpheavals \in Nat /\ 1 \in 1..Len(SeedPart)
  BY SeedParts, ServiceAssumption DEF Seed!SeedAssumption
<1>2. SeedKnows /\ process = "down"
  BY DEF Seed!Init, SeedKnows
<1>3. Seed!TypeOK
  <2>1. rows \in [SeedPages -> Seed!Row \cup {None}] /\ versions \in [SeedPages -> Nat] /\ \A p \in SeedPages : rows[p] = None
    BY DEF Seed!Init
  <2>2. ids \in [Seed!Seeded -> SeedPages \cup {None}] /\ next \in 1..Len(SeedPart) /\ trouble \in 0..MaxUpheavals
    BY <1>1 DEF Seed!Init, Seed!NoIds
  <2>3. /\ seedTag \in BOOLEAN /\ seedTagged = {} /\ release \in Seed!Releases
        /\ process \in {"down", "tags", "pages", "up"} /\ step \in {"find", "version", "current", "tag"}
    BY DEF Seed!Init, Seed!Releases
  <2> QED
    BY <2>1, <2>2, <2>3 DEF Seed!TypeOK
<1> QED
  BY <1>2, <1>3 DEF SeedInv

(* seed-content: every start that gets through leaves each page of the tree in  *)
(* its place, with the text of its release, whatever people and earlier starts   *)
(* broken off have made of them, and it writes to no page that stands elsewhere. *)
THEOREM SeedGetsThrough == Behaviour => ContentSeeded
<1> DEFINE I == part = "seed" => SeedInv
           A == part = "seed" => Seed!TypeOK' /\ Seed!SeedShown /\ Seed!OthersKept
<1>1. Begins => I
  BY SeedInitHolds DEF Begins
<1>2. I /\ [Goes]_all => I' /\ [A]_seedVars
  <2> SUFFICES ASSUME I, [Goes]_all
               PROVE  I' /\ [A]_seedVars
    OBVIOUS
  <2>1. CASE UNCHANGED all \/ part # "seed"
    <3>1. CASE UNCHANGED all
      <4>1. UNCHANGED seedVars /\ part' = part
        BY <3>1 DEF all
      <4> QED
        BY <4>1 DEF seedVars, SeedInv, SeedKnows, Seed!TypeOK, InPlace, AsReleased, SeedParentPage, Seed!Page, Seed!Seed
    <3>2. CASE part # "seed"
      BY <2>1, <3>1, <3>2 DEF Goes
    <3> QED
      BY <2>1, <3>1, <3>2
  <2>2. CASE Goes /\ part = "seed"
    <3>1. Seed!Next /\ part' = part
      BY <2>2 DEF Goes
    <3> QED
      BY <2>2, <3>1, SeedNextKeeps DEF SeedInv
  <2> QED
    BY <2>1, <2>2
<1> QED
  BY <1>1, <1>2, PTL DEF Behaviour, ContentSeeded

=============================================================================
