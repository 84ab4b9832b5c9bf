------------------------------- MODULE TabScreens -------------------------------
(***************************************************************************)
(* The screens of a browser tab that draw no tree: the page that is viewed,   *)
(* the page that is edited, the lists, and the forms.  Each has variables of  *)
(* its own.                                                                 *)
(***************************************************************************)
EXTENDS PageRooms

CONSTANTS
  Editors, Texts, First, MaxVersions, MaxAsked, MaxErased,   \* of the editors
  ListRows, RowKind, PageSize, MaxListSent, MaxListChanges,  \* of the lists
  FormValues, MaxFormSent                                    \* of the forms

VARIABLES
  versions, editor, room, events, previews, save, typed, erased,
  screen, rows, filter, applied, listPage, status, items, total, ticked, of, timer, listCalls,
  sent, crossed, disturbed, listChanges,
  form, open, value, base, waiting, formCalls, formSent, stored, made, known, told, revealed, unread,
  overlapped, lost

editorVars == <<versions, editor, room, events, previews, save, typed, erased>>
listVars == <<screen, rows, filter, applied, listPage, status, items, total, ticked, of, timer,
              listCalls, sent, crossed, disturbed, listChanges>>
formVars == <<form, open, value, base, waiting, formCalls, formSent, stored, made, known, told,
              revealed, unread, overlapped, lost>>

(* The editors of one page.                                                 *)
Editing == INSTANCE EditorSession WITH Null <- None

(* Each of the screens of ListScreens.                                       *)
Lists == INSTANCE ListScreens WITH
  page <- listPage, calls <- listCalls, changes <- listChanges,
  Rows <- ListRows, Kind <- RowKind, Size <- PageSize, MaxSent <- MaxListSent, MaxChanges <- MaxListChanges

(* Each of the forms.                                                       *)
Filling == INSTANCE Forms WITH
  calls <- formCalls, sent <- formSent, Values <- FormValues, Blank <- None, MaxSent <- MaxFormSent

ASSUME ScreensAssumption == Editing!EditorAssumption /\ Lists!ListAssumption /\ Filling!FormAssumption

=============================================================================
