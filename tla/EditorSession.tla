------------------------------ MODULE EditorSession ------------------------------
(***************************************************************************)
(* People who edit one page at the same time: the page editor of the        *)
(* frontend with its realtime hooks, the rooms of the gateway, and the      *)
(* merges of PagesService.  A content is a set of texts, each typed once;   *)
(* a three-way merge keeps what either side added and neither side erased.  *)
(* The handlers of the service are single steps here (PageStore has their   *)
(* interleavings); what takes time is the network.                          *)
(***************************************************************************)
EXTENDS Naturals, Sequences, FiniteSets, SequencesExt

CONSTANTS
  Editors,
  Texts,         \* texts that may be typed, once each
  First,         \* the text of the first version
  MaxVersions,   \* bound on the versions of the page
  MaxAsked,      \* bound on the previews an editor waits for
  MaxErased,     \* bound on the texts erased
  Null

Content == SUBSET Texts
Draft   == [content : Content, base : 1..MaxVersions]
Result  == [content : Content, base : 1..MaxVersions, conflict : BOOLEAN]
Preview == [content : Content, base : 1..MaxVersions, result : Result \cup {Null}]
Save    == [content : Content, base : 1..MaxVersions, result : Result \cup {Null}]

EditorAssumption ==
  /\ First \in Texts
  /\ MaxVersions \in Nat \ {0} /\ MaxAsked \in Nat \ {0} /\ MaxErased \in Nat
  /\ Null \notin Draft \cup Result \cup Save

VARIABLES
  versions,  \* versions of the page, the current one last
  editor,    \* the open editor of each person; Null when closed
  room,      \* sockets in the page's room
  events,    \* page:version-created on the way to each socket
  previews,  \* merge previews each editor waits for, in the order it asked
  save,      \* the save each person waits for
  typed,     \* history: texts typed into the open editor
  erased     \* history: texts somebody erased

vars == <<versions, editor, room, events, previews, save, typed, erased>>

Newest == Len(versions)
Open(e) == editor[e] # Null
Used    == UNION { versions[v] : v \in 1..Newest } \cup UNION { typed[e] : e \in Editors }

Init ==
  /\ versions = <<{First}>>
  /\ editor = [e \in Editors |-> Null]
  /\ room = {}
  /\ events = [e \in Editors |-> 0]
  /\ previews = [e \in Editors |-> <<>>]
  /\ save = [e \in Editors |-> Null]
  /\ typed = [e \in Editors |-> {}] /\ erased = {}

-----------------------------------------------------------------------------
(* The page is loaded; the hook asks for the room afterwards.               *)
Load(e) ==
  /\ ~Open(e) /\ save[e] = Null
  /\ editor' = [editor EXCEPT ![e] =
       [content |-> versions[Newest], base |-> Newest]]
  /\ typed' = [typed EXCEPT ![e] = {}]
  /\ UNCHANGED <<versions, room, events, previews, save, erased>>

(* handleJoin, when its access check is through.                            *)
Join(e) ==
  /\ Open(e) /\ e \notin room
  /\ room' = room \cup {e}
  /\ UNCHANGED <<versions, editor, events, previews, save, typed, erased>>

(* Mutant: the cleanup sends no page:leave.                                 *)
UnmountInRoom(e) ==
  /\ editor' = [editor EXCEPT ![e] = Null]
  /\ events' = [events EXCEPT ![e] = 0]
  /\ previews' = [previews EXCEPT ![e] = <<>>]
  /\ UNCHANGED room

(* The effects' cleanups: the handler is off and the answers find no editor. *)
Unmount(e) ==
  /\ editor' = [editor EXCEPT ![e] = Null]
  /\ room' = room \ {e}
  /\ events' = [events EXCEPT ![e] = 0]
  /\ previews' = [previews EXCEPT ![e] = <<>>]

(* handleCancel: the changes are discarded on purpose.                      *)
Cancel(e) ==
  /\ Open(e)
  /\ Unmount(e)
  /\ typed' = [typed EXCEPT ![e] = {}]
  /\ UNCHANGED <<versions, save, erased>>

(* The socket reconnects, after a refresh of the token or on its own: what    *)
(* was on the way is lost, and the room is asked for again.                 *)
Reconnect(e) ==
  /\ e \in room
  /\ room' = room \ {e}
  /\ events' = [events EXCEPT ![e] = 0]
  /\ UNCHANGED <<versions, editor, previews, save, typed, erased>>

Type(e) ==
  /\ Open(e)
  /\ \E x \in Texts \ (Used \cup erased) :
       /\ editor' = [editor EXCEPT ![e].content = @ \cup {x}]
       /\ typed' = [typed EXCEPT ![e] = @ \cup {x}]
  /\ UNCHANGED <<versions, room, events, previews, save, erased>>

Erase(e) ==
  /\ Open(e) /\ Cardinality(erased) < MaxErased
  /\ \E x \in editor[e].content :
       /\ editor' = [editor EXCEPT ![e].content = @ \ {x}]
       /\ erased' = erased \cup {x}
  /\ UNCHANGED <<versions, room, events, previews, save, typed>>

-----------------------------------------------------------------------------
(* Mutant: what they erased is erased, what they added is not looked at.     *)
MergeMine(base, mine, theirs) == (mine \cap theirs) \cup (mine \ base)

(* PageMergeService *)
Merge(base, mine, theirs) == (mine \cap theirs) \cup (mine \ base) \cup (theirs \ base)

(* The answers the service may give to content over base: a conflict, with    *)
(* both sides between markers, only where both have changed.                *)
Answers(content, base) ==
  LET b == versions[base]
      theirs == versions[Newest]
  IN {[content |-> Merge(b, content, theirs), base |-> Newest, conflict |-> FALSE]}
     \cup IF content # b /\ theirs # b /\ content # theirs
            THEN {[content |-> content \cup theirs, base |-> Newest, conflict |-> TRUE]} ELSE {}

(* handleVersionCreated: content and base as they are at the event.          *)
Receive(e) ==
  /\ Open(e) /\ events[e] > 0 /\ Len(previews[e]) < MaxAsked
  /\ events' = [events EXCEPT ![e] = @ - 1]
  /\ previews' = [previews EXCEPT ![e] =
       Append(@, [content |-> editor[e].content, base |-> editor[e].base, result |-> Null])]
  /\ UNCHANGED <<versions, editor, room, save, typed, erased>>

AnswerPreview(e, i) ==
  /\ i \in DOMAIN previews[e] /\ previews[e][i].result = Null
  /\ \E a \in Answers(previews[e][i].content, previews[e][i].base) :
       previews' = [previews EXCEPT ![e][i].result = a]
  /\ UNCHANGED <<versions, editor, room, events, save, typed, erased>>

(* Mutant: the new text over the old base.                                  *)
TextOnly(draft, result) == [draft EXCEPT !.content = result.content]

(* onMergeResult, and a save that met a conflict.                           *)
Rebased(draft, result) == [draft EXCEPT !.content = result.content, !.base = result.base]

ApplyPreview(e, i) ==
  /\ i \in DOMAIN previews[e] /\ previews[e][i].result # Null
  /\ editor' = [editor EXCEPT ![e] = Rebased(@, previews[e][i].result)]
  /\ previews' = [previews EXCEPT ![e] = RemoveAt(@, i)]
  /\ UNCHANGED <<versions, room, events, save, typed, erased>>

LosePreview(e, i) ==
  /\ i \in DOMAIN previews[e]
  /\ previews' = [previews EXCEPT ![e] = RemoveAt(@, i)]
  /\ UNCHANGED <<versions, editor, room, events, save, typed, erased>>

(* submitSave *)
Submit(e) ==
  /\ Open(e) /\ save[e] = Null
  /\ save' = [save EXCEPT ![e] =
       [content |-> editor[e].content, base |-> editor[e].base, result |-> Null]]
  /\ UNCHANGED <<versions, editor, room, events, previews, typed, erased>>

(* Mutant: a save is written as it was sent.                                *)
SavedAsSent(s, a) == s.content

Saved(s, a) == a.content

(* updatePage: a conflict writes nothing; else a version, announced to all    *)
(* in the room, the author among them.                                      *)
Commit(e) ==
  LET s == save[e]
  IN /\ s # Null /\ s.result = Null
     /\ \E a \in Answers(s.content, s.base) :
          \/ /\ a.conflict
             /\ save' = [save EXCEPT ![e].result = a]
             /\ UNCHANGED <<versions, events>>
          \/ /\ ~a.conflict /\ Newest < MaxVersions
             /\ versions' = Append(versions, Saved(s, a))
             /\ save' = [save EXCEPT ![e].result = [a EXCEPT !.base = Newest + 1]]
             /\ events' = [f \in Editors |-> IF f \in room THEN events[f] + 1 ELSE events[f]]
     /\ UNCHANGED <<editor, room, previews, typed, erased>>

(* The answer: a conflict is shown in the editor, success leaves the page.   *)
Settle(e) ==
  LET s == save[e]
  IN /\ s # Null /\ s.result # Null
     /\ save' = [save EXCEPT ![e] = Null]
     /\ IF Open(e)
          THEN IF s.result.conflict
                 THEN /\ editor' = [editor EXCEPT ![e] = Rebased(@, s.result)]
                      /\ UNCHANGED <<room, events, previews>>
                 ELSE Unmount(e)
          ELSE UNCHANGED <<editor, room, events, previews>>
     /\ UNCHANGED <<versions, typed, erased>>

(* The request or its answer is lost: an error, and the editor stays.        *)
LoseSave(e) ==
  /\ save[e] # Null
  /\ save' = [save EXCEPT ![e] = Null]
  /\ UNCHANGED <<versions, editor, room, events, previews, typed, erased>>

-----------------------------------------------------------------------------
Write(e)   == Type(e) \/ Erase(e)
Go(e)      == Load(e) \/ Cancel(e) \/ Submit(e)
Arrive(e)  == Join(e) \/ Receive(e) \/ Settle(e) \/ \E i \in 1..MaxAsked : ApplyPreview(e, i)
Serve(e)   == Commit(e) \/ \E i \in 1..MaxAsked : AnswerPreview(e, i)
Lose(e)    == Reconnect(e) \/ LoseSave(e) \/ \E i \in 1..MaxAsked : LosePreview(e, i)

Next == \E e \in Editors : Write(e) \/ Go(e) \/ Arrive(e) \/ Serve(e) \/ Lose(e)

(* Nothing is lost, but the events before an editor is in the room.           *)
SteadyNext == \E e \in Editors : Write(e) \/ Go(e) \/ Arrive(e) \/ Serve(e)

(* Nobody types while the editor waits for an answer, and an answer arrives     *)
(* before the same editor's next request is served.                         *)
Waiting(e)  == previews[e] # <<>> \/ save[e] # Null
Careful(e)  == Go(e) \/ Arrive(e) \/ (Write(e) /\ ~Waiting(e))
Answered(e) == (save[e] # Null /\ save[e].result # Null)
               \/ \E i \in DOMAIN previews[e] : previews[e][i].result # Null
Prompt(e)   == Serve(e) /\ ~Answered(e)
PromptNext  == \E e \in Editors : Careful(e) \/ Prompt(e) \/ Lose(e)

(* Both.                                                                   *)
ReliableNext == \E e \in Editors : Careful(e) \/ Prompt(e)

-----------------------------------------------------------------------------
(* Properties *)

TypeOK ==
  /\ versions \in Seq(Content) /\ Newest \in 1..MaxVersions
  /\ editor \in [Editors -> Draft \cup {Null}]
  /\ room \subseteq {e \in Editors : Open(e)}
  /\ events \in [Editors -> Nat]
  /\ previews \in [Editors -> Seq(Preview)] /\ \A e \in Editors : previews[e] # <<>> => Open(e)
  /\ save \in [Editors -> Save \cup {Null}]
  /\ typed \in [Editors -> Content] /\ erased \in Content

(* updatePage, mergePreview and the editor together (CHANGELOG 285): a    *)
(* version never drops a text of the one before that nobody erased, with    *)
(* answers late, lost or in any order, typing at any time, missed events.    *)
OthersTextStays ==
  Newest' > Newest => versions[Newest] \ erased \subseteq versions'[Newest']

(* onMergeResult and submitSave, when answers are prompt and nobody types      *)
(* meanwhile: a text that stands in an open editor stays there until        *)
(* somebody erases it or the editor is left, and what is left by saving is   *)
(* in the page.                                                             *)
TextStays ==
  \A e \in Editors :
    Open(e) => IF editor'[e] # Null
                 THEN editor[e].content \ erased' \subseteq editor'[e].content
                 ELSE typed'[e] = {} \/ typed[e] \ erased \subseteq versions[Newest]

(* An editor told of version n, and one that stands on it or was left.         *)
Told(e, n)   == events[e] > 0 /\ Newest = n
CaughtUp(e, n) == Open(e) => editor[e].base >= n

=============================================================================
