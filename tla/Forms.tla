---------------------------------- MODULE Forms ----------------------------------
(***************************************************************************)
(* The forms, dialogs and switches of the screens: one is filled in, sends   *)
(* what is entered, waits, and shows what came of it, while it is typed on,    *)
(* closed and opened again, sent a second time, or answered with an error.    *)
(* A form is described by how it treats those; one form is looked at, and      *)
(* nobody else changes what it changes.                                     *)
(***************************************************************************)
EXTENDS Naturals, FiniteSets

CONSTANTS
  Values,    \* what may be entered
  Blank,     \* nothing entered
  MaxSent    \* bound on the requests of the form

FormAssumption == Blank \notin Values /\ MaxSent \in Nat

(* closable: a dialog, a form with a cancel button, or a tab left and entered.   *)
(* forgets:  what opens again does not know that the form before it waits.      *)
(* locked:   its inputs are disabled while it waits.                        *)
(* guarded:  it sends nothing while it waits.                               *)
(* start:    it opens with nothing, or with what is known to be stored.       *)
(* differs:  it sends only what differs from what is known, or from its start.  *)
(* sends:    at a press; at a choice; at a choice that is shown at once.       *)
(* after:    a success closes it, blanks it, keeps it, or leaves its page.      *)
(* reveals:  a success shows a secret that is not told again.                 *)
(* remounts: it is part of a list that is taken away whenever it is loaded.     *)
Description ==
  [closable : BOOLEAN, forgets : BOOLEAN, locked : BOOLEAN, guarded : BOOLEAN,
   start : {"blank", "known"}, differs : {"no", "known", "start"},
   sends : {"press", "choice", "early"}, after : {"close", "blank", "keep", "leave"},
   reveals : BOOLEAN, remounts : BOOLEAN]

Inline == [closable |-> FALSE, forgets |-> FALSE, locked |-> TRUE, guarded |-> TRUE, start |-> "blank",
           differs |-> "no", sends |-> "press", after |-> "blank", reveals |-> FALSE, remounts |-> FALSE]
Dialog == [Inline EXCEPT !.closable = TRUE, !.locked = FALSE, !.after = "close"]
Switch == [Inline EXCEPT !.start = "known", !.sends = "choice", !.after = "keep"]
Tab    == [Inline EXCEPT !.closable = TRUE, !.forgets = TRUE, !.start = "known", !.after = "keep"]

ChangePassword == Inline
Avatar         == Inline
ProfileForm    == [Inline EXCEPT !.start = "known", !.after = "keep"]
CreateGroup    == Dialog
AddRule        == Dialog
CreateKey      == [Dialog EXCEPT !.reveals = TRUE]
CreateUser     == [Dialog EXCEPT !.locked = TRUE, !.forgets = TRUE, !.reveals = TRUE]
Rename         == [Dialog EXCEPT !.start = "known"]
AddToGroup     == [Dialog EXCEPT !.locked = TRUE]
NewComment     == [Inline EXCEPT !.locked = FALSE, !.remounts = TRUE]
Reply          == [Dialog EXCEPT !.forgets = TRUE, !.remounts = TRUE]
EditComment    == [Reply EXCEPT !.start = "known"]
InfoForm       == [Tab EXCEPT !.differs = "start"]
GroupRights    == [Tab EXCEPT !.locked = FALSE, !.differs = "known"]
UserRights     == GroupRights
NewPage        == [Inline EXCEPT !.locked = FALSE, !.guarded = FALSE, !.after = "leave"]
Follow         == Switch
Restore        == Switch
StatusSwitch   == [Tab EXCEPT !.sends = "choice"]
UserGroups     == StatusSwitch
Upload         == [StatusSwitch EXCEPT !.start = "blank", !.after = "blank"]
Locale         == [Switch EXCEPT !.sends = "early"]
Consent        == [Switch EXCEPT !.start = "blank", !.after = "leave"]

Forms ==
  {ChangePassword, Avatar, ProfileForm, CreateGroup, AddRule, CreateKey, CreateUser, Rename, AddToGroup,
   NewComment, Reply, EditComment, InfoForm, GroupRights, UserRights, NewPage, Follow, StatusSwitch,
   UserGroups, Restore, Locale, Upload, Consent}

VARIABLES
  form,
  open, value, base, waiting, \* what is entered, what it was at the start
  calls, sent,
  stored, made,               \* the server's: the last value, the requests it carried out
  known, told,                \* the same as the screen knows them
  revealed, unread,           \* the request whose secret is shown; history: those replaced unread
  overlapped, lost            \* history: two requests at once; an answer lost

entry  == <<open, value, base, waiting>>
secret == <<revealed, unread>>
vars   == <<form, entry, calls, sent, stored, made, known, told, secret, overlapped, lost>>

Start(v) == IF form.start = "known" THEN v ELSE Blank

Init ==
  /\ form \in Forms
  /\ stored \in Values /\ known = stored /\ made = {} /\ told = {}
  /\ open = ~form.closable
  /\ value = (IF open THEN Start(stored) ELSE Blank) /\ base = value
  /\ waiting = FALSE /\ calls = {} /\ sent = 0
  /\ revealed = 0 /\ unread = {}
  /\ overlapped = FALSE /\ lost = FALSE

-----------------------------------------------------------------------------
(* A secret is shown over everything else, until it is closed.                *)
Open ==
  /\ form.closable /\ ~open /\ revealed = 0
  /\ open' = TRUE /\ value' = Start(known) /\ base' = value'
  /\ UNCHANGED <<form, waiting, calls, sent, stored, made, known, told, secret, overlapped, lost>>

(* The requests of a form that is gone find nothing to unlock; that of new users  *)
(* is only reset, which makes its library forget that it submits.             *)
Orphaned(pending) == IF form = CreateUser THEN pending ELSE {[c EXCEPT !.mine = FALSE] : c \in pending}

(* Mutant: what is closed waits no more.                                     *)
WaitsNoMore == FALSE

StillWaits == waiting /\ ~form.forgets

Close ==
  /\ form.closable /\ open /\ revealed = 0
  /\ open' = FALSE /\ value' = Blank /\ base' = Blank /\ waiting' = StillWaits
  /\ calls' = IF form.forgets THEN Orphaned(calls) ELSE calls
  /\ UNCHANGED <<form, sent, stored, made, known, told, secret, overlapped, lost>>

Type(v) ==
  /\ form.sends = "press" /\ open /\ revealed = 0 /\ v # value
  /\ form.locked => ~waiting
  /\ value' = v
  /\ UNCHANGED <<form, open, base, waiting, calls, sent, stored, made, known, told, secret, overlapped, lost>>

Free == open /\ revealed = 0 /\ (form.guarded => ~waiting)

CanSend ==
  /\ form.sends = "press" /\ Free /\ value # Blank
  /\ form.differs = "known" => value # known
  /\ form.differs = "start" => value # base

Sends(v) ==
  /\ sent < MaxSent /\ sent' = sent + 1
  /\ calls' = calls \cup {[n |-> sent', value |-> v, at |-> "sent", mine |-> TRUE]}
  /\ overlapped' = (overlapped \/ calls # {})
  /\ waiting' = TRUE

Press ==
  /\ CanSend /\ Sends(value)
  /\ UNCHANGED <<form, open, value, base, stored, made, known, told, secret, lost>>

Choose(v) ==
  /\ form.sends # "press" /\ Free /\ v # value /\ Sends(v)
  /\ value' = IF form.sends = "early" THEN v ELSE value
  /\ UNCHANGED <<form, open, base, stored, made, known, told, secret, lost>>

Serve(c) ==
  /\ c.at = "sent"
  /\ calls' = (calls \ {c}) \cup {[c EXCEPT !.at = "served"]}
  /\ stored' = c.value /\ made' = made \cup {c.n}
  /\ UNCHANGED <<form, entry, sent, known, told, secret, overlapped, lost>>

(* What a success leaves in the form.                                       *)
ValueAfter(c) ==
  CASE form.after # "keep"    -> Blank
    [] form.sends = "press"   -> value
    [] OTHER                  -> IF open THEN c.value ELSE Blank

(* Mutant: a form is blanked whatever the answer.                             *)
Blanked == Blank

ValueAfterError == IF form.sends = "early" THEN known ELSE value

AnswerOk(c) ==
  /\ c.at = "served"
  /\ calls' = IF form.remounts THEN Orphaned(calls \ {c}) ELSE calls \ {c}
  /\ known' = (IF form.remounts THEN stored ELSE c.value)
  /\ told' = (IF form.remounts THEN made ELSE told \cup {c.n})
  /\ value' = ValueAfter(c)
  /\ open' = (open /\ form.after \notin {"close", "leave"})
  /\ base' = base
  /\ waiting' = (waiting /\ ~form.remounts /\ (~c.mine \/ form.after = "leave"))
  /\ revealed' = (IF form.reveals THEN c.n ELSE 0)
  /\ unread' = IF revealed = 0 THEN unread ELSE unread \cup {revealed}
  /\ UNCHANGED <<form, sent, stored, made, overlapped, lost>>

(* Refused or lost on its way there, or the answer lost: an error is told.      *)
Fail(c) ==
  /\ calls' = calls \ {c}
  /\ waiting' = (waiting /\ ~c.mine)
  /\ value' = ValueAfterError
  /\ lost' = (lost \/ c.at = "served")
  /\ UNCHANGED <<form, open, base, sent, stored, made, known, told, secret, overlapped>>

CloseSecret ==
  /\ revealed # 0 /\ revealed' = 0
  /\ UNCHANGED <<form, entry, calls, sent, stored, made, known, told, unread, overlapped, lost>>

(* Somebody else's comment: the thread is loaded again, and shows no form       *)
(* until it is.                                                             *)
Remount ==
  /\ form.remounts
  /\ open' = ~form.closable /\ value' = Blank /\ base' = Blank /\ waiting' = FALSE
  /\ calls' = Orphaned(calls)
  /\ known' = stored /\ told' = made
  /\ UNCHANGED <<form, sent, stored, made, secret, overlapped, lost>>

Next ==
  \/ Open \/ Close \/ Press \/ CloseSecret \/ Remount
  \/ \E v \in Values : Type(v) \/ Choose(v)
  \/ \E c \in calls : Serve(c) \/ AnswerOk(c) \/ Fail(c)

-----------------------------------------------------------------------------
(* Properties *)

TypeOK ==
  /\ form \in Description
  /\ {value, base} \subseteq Values \cup {Blank} /\ {stored, known} \subseteq Values
  /\ {open, waiting, overlapped, lost} \subseteq BOOLEAN
  /\ sent \in 0..MaxSent /\ made \subseteq 1..MaxSent /\ told \subseteq 1..MaxSent
  /\ revealed \in 0..MaxSent /\ unread \subseteq 1..MaxSent
  /\ \A c \in calls : c.n \in 1..MaxSent /\ c.value \in Values /\ c.at \in {"sent", "served"} /\ c.mine \in BOOLEAN

Rest == calls = {}

(* The pending flags: closing a dialog and opening it again does not let it      *)
(* send twice at once, except where what opens is new.                       *)
OneAtATime == (form.guarded /\ ~form.forgets /\ ~form.remounts) => (Cardinality(calls) <= 1 /\ ~overlapped)

(* Once everything is answered, the screen knows each request that was carried   *)
(* out, and what is stored, unless an answer was lost or two of one form        *)
(* crossed.                                                                 *)
KnownIsStored == (Rest /\ ~lost) => told = made /\ (~overlapped => known = stored)

(* No form that is answered stays disabled.                                  *)
NoneHangs == (Rest /\ waiting) => form.after = "leave" /\ ~open

(* The rights tabs: whatever was ticked while a save was under way, and then     *)
(* ticked back, what differs from what is stored can be saved, and only that.   *)
UnsavedCanBeSaved ==
  (form.differs = "known" /\ open /\ Rest /\ ~lost /\ ~overlapped) => (CanSend <=> value # stored)

(* A secret the server tells once is there until it is closed: none replaces      *)
(* another, where a dialog knows that it waits.                              *)
SecretsAreRead == ~form.forgets => unread = {}

FormsTell == TypeOK /\ OneAtATime /\ KnownIsStored /\ NoneHangs /\ UnsavedCanBeSaved /\ SecretsAreRead

(* What is entered is there until it is sent and stored, or its form is closed:   *)
(* a failure erases nothing, and a success nothing else, in the forms that       *)
(* disable their inputs and cannot be closed meanwhile.                       *)
EnteredStays ==
  (value' # value /\ form.sends = "press" /\ ~form.remounts /\ Cardinality(calls') < Cardinality(calls)) =>
    \E c \in calls \ calls' :
      c.at = "served" /\ ((form.locked /\ ~form.closable) => value = c.value)

=============================================================================
