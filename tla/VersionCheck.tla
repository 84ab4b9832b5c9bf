----------------------------- MODULE VersionCheck -----------------------------
(***************************************************************************)
(* The look for a newer release: one cached answer of the release server for   *)
(* all administrators, and the notice in their browser tabs.                 *)
(***************************************************************************)
EXTENDS Naturals

CONSTANTS
  Users,      \* who signs in, administrators or not
  Admins,
  Tabs,       \* tabs of one browser
  Versions,   \* triples of numbers
  Radix,      \* a number above all of theirs
  Current,    \* the running version
  None,       \* no release, no version, nobody
  OkTTL, FailTTL, \* how long an answer, and the lack of one, is kept
  Patience,   \* how long a request to the release server may last
  MaxTime     \* bound on the time

Releasable  == Versions \cup {None}
CachedValue == [release : Releasable, expires : Nat]
Ended       == [ended : Nat, ok : BOOLEAN]

ASSUME VersionAssumption ==
  /\ Admins \subseteq Users /\ Current \in Versions
  /\ Radix \in Nat /\ Versions \subseteq (0..(Radix - 1)) \X (0..(Radix - 1)) \X (0..(Radix - 1))
  /\ {OkTTL, FailTTL, Patience, MaxTime} \subseteq Nat
  /\ None \notin Users \cup Versions \cup Nat \cup CachedValue \cup Ended

VARIABLES
  now,
  tag,        \* the last release published; None: its tag is not a version
  tagged,     \* history: when it was
  cache,      \* [release, expires], None before the first
  pending,    \* when the request to the release server began
  offered,    \* what was the last release at some moment of the request
  previous,   \* history: when the last one ended, and what it brought
  waiting,    \* tabs that wait for the status
  user,       \* who is signed in, in each tab
  checked,    \* checkedForUserId
  toast,      \* the version the notice of the tab tells
  dismissed   \* the version in the browser's local storage

backend == <<cache, pending, offered, previous>>
browser == <<user, checked, toast, dismissed>>
vars    == <<now, tag, tagged, backend, waiting, browser>>

(* Mutant: any greater number makes it newer.                               *)
AnyGreater(v, w) == \E i \in 1..3 : v[i] > w[i]

IsNewer(v, w) == \E i \in 1..3 : v[i] > w[i] /\ \A j \in 1..(i - 1) : v[j] = w[j]

Init ==
  /\ now = 0 /\ tag = Current /\ tagged = 0
  /\ cache = None /\ pending = None /\ offered = {} /\ previous = None /\ waiting = {}
  /\ user = [t \in Tabs |-> None] /\ checked = user /\ toast = user /\ dismissed = None

(* The server's cached answer while it lasts.                               *)
Cached == cache # None /\ cache.expires > now

(* The status reaches a tab: a newer version that was not dismissed is told.   *)
Told(release, tabs) ==
  toast' = [t \in Tabs |->
              IF t \in tabs /\ release # None /\ IsNewer(release, Current) /\ dismissed # release
                THEN release ELSE toast[t]]

(* The effect: once for each administrator signed in.                       *)
Check(t) ==
  /\ user[t] \in Admins /\ checked[t] # user[t] /\ checked' = [checked EXCEPT ![t] = user[t]]
  /\ IF Cached THEN Told(cache.release, {t}) /\ UNCHANGED <<pending, offered, waiting>>
     ELSE /\ waiting' = waiting \cup {t}
          /\ IF pending # None THEN UNCHANGED <<pending, offered>>
                               ELSE pending' = now /\ offered' = {tag}
          /\ UNCHANGED toast
  /\ UNCHANGED <<now, tag, tagged, cache, previous, user, dismissed>>

(* Mutant: a failure is not cached.                                         *)
OnlyReleases(release) == [release |-> release, expires |-> IF release = None THEN now ELSE now + OkTTL]

Kept(release) == [release |-> release, expires |-> now + (IF release = None THEN FailTTL ELSE OkTTL)]

(* The release server answers, or not in time, or not with a version.        *)
Fetched(release) ==
  /\ pending # None /\ pending' = None /\ offered' = {}
  /\ cache' = Kept(release) /\ previous' = [ended |-> now, ok |-> release # None]
  /\ waiting' = {} /\ Told(release, waiting)
  /\ UNCHANGED <<now, tag, tagged, user, checked, dismissed>>

(* The process starts anew: what it kept is gone, the calls it had get no answer. *)
Restart ==
  /\ cache' = None /\ pending' = None /\ offered' = {} /\ previous' = None /\ waiting' = {}
  /\ UNCHANGED <<now, tag, tagged, browser>>

Publish(v) ==
  /\ v # tag /\ tag' = v /\ tagged' = now
  /\ offered' = IF pending = None THEN {} ELSE offered \cup {v}
  /\ UNCHANGED <<now, cache, pending, previous, waiting, browser>>

Tick ==
  /\ now < MaxTime /\ now' = now + 1
  /\ pending # None => now < pending + Patience
  /\ UNCHANGED <<tag, tagged, backend, waiting, browser>>

SignIn(t, u) ==
  /\ u # user[t] /\ user' = [user EXCEPT ![t] = u]
  /\ UNCHANGED <<now, tag, tagged, backend, waiting, checked, toast, dismissed>>

Dismiss(t) ==
  /\ toast[t] # None /\ toast' = [toast EXCEPT ![t] = None] /\ dismissed' = toast[t]
  /\ UNCHANGED <<now, tag, tagged, backend, waiting, user, checked>>

Next ==
  \/ \E t \in Tabs : Check(t) \/ Dismiss(t) \/ \E u \in Users \cup {None} : SignIn(t, u)
  \/ \E release \in offered \cup {None} : Fetched(release)
  \/ \E v \in Versions \cup {None} : Publish(v)
  \/ Restart \/ Tick
Spec == Init /\ [][Next]_vars

-----------------------------------------------------------------------------
(* Properties *)

TypeOK ==
  /\ now \in Nat /\ tagged \in 0..now /\ tag \in Releasable
  /\ cache \in CachedValue \cup {None} /\ previous \in Ended \cup {None}
  /\ pending \in (0..now) \cup {None} /\ offered \subseteq Releasable /\ waiting \subseteq Tabs
  /\ user \in [Tabs -> Users \cup {None}] /\ checked \in [Tabs -> Admins \cup {None}]
  /\ toast \in [Tabs -> Releasable] /\ dismissed \in Releasable
  /\ (waiting # {}) <=> (pending # None)

(* However many administrators sign in, between two requests of one process to   *)
(* the release server lies the whole time its last answer, or the lack of one,  *)
(* is kept.                                                                 *)
AsksSeldom ==
  (pending # None /\ previous # None) =>
    pending >= previous.ended + (IF previous.ok THEN OkTTL ELSE FailTTL)

(* What is answered without a request was published, at the longest, as long ago  *)
(* as an answer is kept and a request may last.                              *)
CachedIsRecent ==
  (Cached /\ cache.release # None /\ now > tagged + OkTTL + Patience) => cache.release = tag

(* The number a version is when its parts are the digits.                     *)
Value(v) == (v[1] * Radix + v[2]) * Radix + v[3]

(* The notice tells of a later version than the running one, compared by its     *)
(* numbers and not by their texts.                                          *)
ToastTellsLater == \A t \in Tabs : toast[t] # None => Value(toast[t]) > Value(Current)

ReleasesAreWatched == TypeOK /\ AsksSeldom /\ CachedIsRecent /\ ToastTellsLater

=============================================================================
