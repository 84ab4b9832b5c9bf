------------------------------ MODULE BrowserProofs ------------------------------
(***************************************************************************)
(* Theorems about what MCBrowser checks, for every value of its constants:     *)
(* each part keeps the invariant of its screens, and leaves the variables of    *)
(* the others.                                                              *)
(***************************************************************************)
EXTENDS MCBrowser, ScreenProofs

(* usePageRoom, PageView and useComments beside pages.gateway: whatever joins,   *)
(* leaves, answers, events and connections cross, a tab ends in the room of the  *)
(* page it shows, and shows its last version and comments, or that there are     *)
(* others.                                                                  *)
THEOREM PageTold == Behaviour => []PageIsTold
<1> DEFINE Inv == part = "rooms" => RoomsInv
<1>1. Begins => Inv
  BY RoomsBegin DEF Begins
<1>2. Inv /\ [Goes]_all => Inv'
  <2>1. ASSUME Inv, Goes, part' = "rooms" PROVE RoomsInv'
    <3>1. part = "rooms" /\ Next
      BY <2>1 DEF Goes
    <3> QED
      BY <2>1, <3>1, RoomsStep
  <2>2. ASSUME Inv, UNCHANGED all, part' = "rooms" PROVE RoomsInv'
    BY <2>2, RoomsStand DEF all
  <2> QED
    BY <2>1, <2>2
<1>3. Inv => PageIsTold
  BY RoomsTell DEF PageIsTold
<1> QED
  BY <1>1, <1>2, <1>3, PTL DEF Behaviour

(* The screens that list rows and the forms: whatever is asked, answered and       *)
(* changed on the way, at rest a list shows what was asked for and what the       *)
(* server has, and a form what was stored; it sends one request at a time, and    *)
(* loses no secret.                                                         *)
THEOREM ScreensShow == Behaviour => []ScreensTell
<1> DEFINE Inv == /\ part = "lists" => ListsInv
                  /\ part = "filling" => FormsInv
<1>1. Begins => Inv
  BY ListsBegin, FormsBegin DEF Begins
<1>2. Inv /\ [Goes]_all => Inv'
  <2>1. ASSUME Inv, Goes, part' = "lists" PROVE ListsInv'
    <3>1. part = "lists" /\ Lists!Next
      BY <2>1 DEF Goes
    <3> QED
      BY <2>1, <3>1, ListsStep
  <2>2. ASSUME Inv, Goes, part' = "filling" PROVE FormsInv'
    <3>1. part = "filling" /\ Filling!Next
      BY <2>2 DEF Goes
    <3> QED
      BY <2>2, <3>1, FormsStep
  <2>3. ASSUME Inv, UNCHANGED all PROVE Inv'
    BY <2>3, ListsRemain, FormsStand DEF all
  <2> QED
    BY <2>1, <2>2, <2>3
<1>3. Inv => ScreensTell
  BY ListsSpeak, FormsSpeak DEF ScreensTell
<1> QED
  BY <1>1, <1>2, <1>3, PTL DEF Behaviour

(* updatePage, mergePreview and the editor together: what a version drops was     *)
(* erased by somebody, and where answers come in turn no text leaves an editor;   *)
(* nor does an answer take from a form what it did not send.                   *)
THEOREM TextIsKept == Behaviour => TextKept
<1> DEFINE Inv == /\ part \in {"editing", "typing"} => EditInv
                  /\ part \in {"inTurn", "erasing"} => TurnInv
                  /\ part = "filling" => FormsInv
           Kept == /\ part \in {"editing", "typing", "inTurn", "erasing"} =>
                        Editing!TypeOK' /\ Editing!OthersTextStays
                   /\ part \in {"inTurn", "erasing"} => Editing!TextStays
                   /\ part = "filling" => Filling!EnteredStays
<1>1. Begins => Inv
  <2>1. Editing!Init => EditInv /\ TurnInv
    BY EditBegin DEF TurnInv
  <2> QED
    BY <2>1, FormsBegin DEF Begins
<1>2. Inv /\ [Goes]_all => Inv' /\ [Kept]_<<editorVars, formVars>>
  <2>1. ASSUME Inv, Goes, part \in {"editing", "typing"}
        PROVE  EditInv' /\ Editing!TypeOK' /\ Editing!OthersTextStays
    <3>1. Editing!Next
      BY <2>1, SteadyIsNext DEF Goes
    <3> QED
      BY <2>1, <3>1, EditStep
  <2>2. ASSUME Inv, Goes, part \in {"inTurn", "erasing"}
        PROVE  TurnInv' /\ Editing!TypeOK' /\ Editing!OthersTextStays /\ Editing!TextStays
    <3>1. Editing!PromptNext
      BY <2>2 DEF Goes
    <3> QED
      BY <2>2, <3>1, TurnStep
  <2>3. ASSUME Inv, Goes, part = "filling" PROVE FormsInv' /\ Filling!EnteredStays
    <3>1. Filling!Next
      BY <2>3 DEF Goes
    <3> QED
      BY <2>3, <3>1, FormsStep, FormsStay
  <2>4. ASSUME Inv, UNCHANGED all PROVE Inv' /\ UNCHANGED <<editorVars, formVars>>
    <3>1. UNCHANGED <<part, editorVars, formVars>>
      BY <2>4 DEF all
    <3>2. EditInv => EditInv' /\ (TurnInv => TurnInv')
      BY <3>1, EditsStand
    <3> QED
      BY <2>4, <3>1, <3>2, FormsStand DEF TurnInv
  <2>5. ASSUME Goes PROVE part' = part
    BY <2>5 DEF Goes
  <2> QED
    BY <2>1, <2>2, <2>3, <2>4, <2>5
<1> QED
  BY <1>1, <1>2, PTL DEF Behaviour, TextKept

=============================================================================
