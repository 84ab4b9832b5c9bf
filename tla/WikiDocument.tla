---------------------------- MODULE WikiDocument ----------------------------
(***************************************************************************)
(* What the wiki promises about the text of a page: every call is served at *)
(* once, against the page as it is at that moment.  An edit made on an      *)
(* older version is merged into the current one, a restore brings an old    *)
(* text back as a new version, and no other call touches the documents.     *)
(* Which calls are refused is left open; a refused call has no effect.      *)
(***************************************************************************)
CONSTANTS Pages, Versions, Requests, Calls, Null,
          Merged(_, _, _)  \* merge of base, mine and theirs

VARIABLES
  log,     \* version id -> [pageId, content], or Null
  head,    \* page -> its current version, or Null
  asked,   \* request -> its call, or Null
  served   \* the requests answered

vars == <<log, head, asked, served>>

Current(p) == log[head[p]].content

(* The text a call puts in place of the current one.                        *)
Text(c) ==
  IF c.op = "restore" THEN log[c.version].content
  ELSE LET mine == IF c.content = Null THEN Current(c.page) ELSE c.content
       IN IF c.base = Null THEN mine
          ELSE Merged(log[c.base].content, mine, Current(c.page))

Init ==
  /\ asked = [r \in Requests |-> Null]
  /\ served = {}

Ask(r) ==
  /\ asked[r] = Null
  /\ \E c \in Calls : asked' = [asked EXCEPT ![r] = c]
  /\ UNCHANGED <<log, head, served>>

Publish(p, v, content) ==
  /\ log[v] = Null
  /\ log' = [log EXCEPT ![v] = [pageId |-> p, content |-> content]]
  /\ head' = [head EXCEPT ![p] = v]

Serve(r) ==
  /\ asked[r] # Null /\ r \notin served
  /\ LET c == asked[r]
     IN \E v \in Versions :
          \/ c.op \in {"update", "restore"} /\ Publish(c.page, v, Text(c))
          \/ /\ c.op = "create"
             /\ \E p \in Pages : head[p] = Null /\ Publish(p, v, c.content)
  /\ served' = served \cup {r}
  /\ UNCHANGED asked

(* Refused, or served without a new version.                                *)
Close(r) ==
  /\ asked[r] # Null /\ r \notin served
  /\ served' = served \cup {r}
  /\ UNCHANGED <<log, head, asked>>

Next == \E r \in Requests : Ask(r) \/ Serve(r) \/ Close(r)

Spec == Init /\ [][Next]_vars

=============================================================================
