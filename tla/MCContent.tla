--------------------------------- MODULE MCContent ---------------------------------
(***************************************************************************)
(* What hangs from pages and users beside the text: attachments, avatars,    *)
(* comments, tags.  The components write no common state, so a behaviour is  *)
(* one of a single part; the variables of the others stay as they are.      *)
(***************************************************************************)
EXTENDS MediaStore, TLC

CONSTANTS
  h1, h2, h3,   \* whoever acts: handlers, panels
  x1, x2, x3,   \* whatever is drawn: objects, comments, names of tags
  p1, Off,
  Users, Handlers,                                         \* of avatars and comments
  Extensions, MaxBackfills,                                \* of the avatars
  Ids, Moderators, MaxChanges,                             \* of the comments
  TaggedPages, Names, Panels, PageOf, AtOnce, MaxTags, MaxFaults,  \* of the tags
  MaxLoads                                                 \* of both

VARIABLES
  part,
  avatar, files, avatarPc, whose, extension, erasing, step, listed, todo, backfills, answer,
  comments, commentCalls, events, loads, shown, commentChanges, removed,
  tags, made, links, panel, tagCalls, faults, halved, stray

avatarVars  == <<avatar, files, avatarPc, whose, extension, erasing, step, listed, todo, backfills, answer>>
commentVars == <<comments, commentCalls, events, loads, shown, commentChanges, removed>>
tagVars     == <<tags, made, links, panel, tagCalls, faults, halved, stray>>

Avatars == INSTANCE AvatarStore WITH
  row <- avatar, pc <- avatarPc, user <- whose, pending <- erasing

Threads == INSTANCE CommentThreads WITH
  rows <- comments, calls <- commentCalls, changes <- commentChanges

Tagging == INSTANCE PageTags WITH calls <- tagCalls, Pages <- TaggedPages, None <- Null

(* The panels are open on one page.                                         *)
OnOnePage == [p \in Panels |-> p1]

ASSUME ContentAssumption ==
  /\ Avatars!AvatarAssumption
  /\ Threads!CommentsAssumption /\ Tagging!PageTagsAssumption

AvatarsOff ==
  /\ avatar = Off /\ files = Off /\ avatarPc = Off /\ whose = Off /\ extension = Off /\ erasing = Off
  /\ step = Off /\ listed = Off /\ todo = Off /\ backfills = Off /\ answer = Off
CommentsOff ==
  /\ comments = Off /\ commentCalls = Off /\ events = Off /\ loads = Off /\ shown = Off
  /\ commentChanges = Off /\ removed = Off
TagsOff ==
  /\ tags = Off /\ made = Off /\ links = Off /\ panel = Off
  /\ tagCalls = Off /\ faults = Off /\ halved = Off /\ stray = Off

(* Bound of the part about avatars: calls come to some of the handlers.        *)
CalledOnly == \A r \in Requests \ Handlers : avatarPc[r] = "idle"

(* Bounds of the two parts about tags: each panel sends one call at a time and  *)
(* is opened once, or one panel sends several and, while nothing fails, is     *)
(* opened again, and the others are left alone.                              *)
OneCallEach == \A p \in Panels : panel[p].load = 0 /\ \A i \in 2..AtOnce : tagCalls[<<p, i>>] = Null
OneIsUsed   == \E p \in Panels : /\ panel[p].load > 0 => faults = 0
                                 /\ \A q \in Panels \ {p} : panel[q].load = 0 /\ panel[q].read = {}
                                                           /\ panel[q].status = "loading"

Begins ==
  /\ Init
  /\ \/ part \in {"media", "mediaInTurn"} /\ AvatarsOff /\ CommentsOff /\ TagsOff
     \/ part \in {"avatars", "avatarsInTurn", "avatarsCalm"} /\ Avatars!Init /\ CommentsOff /\ TagsOff
     \/ part \in {"comments", "commentsInTurn"} /\ Threads!Init /\ AvatarsOff /\ TagsOff
     \/ part \in {"tags", "onePanel"} /\ Tagging!Init /\ AvatarsOff /\ CommentsOff

Goes ==
  /\ UNCHANGED part
  /\ \/ /\ \/ part = "media" /\ Next
           \/ part = "mediaInTurn" /\ SerialNext
        /\ UNCHANGED <<avatarVars, commentVars, tagVars>>
     \/ /\ \/ part = "avatars" /\ Avatars!Next /\ CalledOnly'
           \/ part = "avatarsInTurn" /\ Avatars!SerialNext
           \/ part = "avatarsCalm" /\ Avatars!ReliableNext
        /\ UNCHANGED <<vars, commentVars, tagVars>>
     \/ /\ \/ part = "comments" /\ Threads!Next
           \/ part = "commentsInTurn" /\ Threads!SerialNext
        /\ UNCHANGED <<vars, avatarVars, tagVars>>
     \/ /\ part \in {"tags", "onePanel"} /\ Tagging!Next
        /\ part = "tags" => OneCallEach'
        /\ part = "onePanel" => OneIsUsed'
        /\ UNCHANGED <<vars, avatarVars, commentVars>>

Behaviour == Begins /\ [][Goes]_<<part, vars, avatarVars, commentVars, tagVars>>

Symmetry == Permutations({h1, h2, h3}) \cup Permutations({x1, x2, x3})

-----------------------------------------------------------------------------
(* Properties *)

(* uploadFile, deleteAttachment, uploadAvatar, removeAvatar and the backfill:   *)
(* in turn, the object of an embedded URL stays, an avatar is broken only by  *)
(* a call that failed, and without a failure there is one file per avatar;   *)
(* beside running calls, the backfill replaces nothing.                     *)
FilesKept ==
  [][ /\ part = "mediaInTurn" => EmbeddedObjectsStay
      /\ part = "avatars" => Avatars!TypeOK' /\ Avatars!BackfillKeepsAvatars
      /\ part = "avatarsInTurn" => Avatars!BrokenOnlyAfterFailure'
      /\ part = "avatarsCalm" => Avatars!OneFilePerAvatar' ]_<<vars, avatarVars>>

(* CommentsService and useComments: two levels, a viewer who is up to date once *)
(* nothing is on the way, and, in turn, no reply without its parent.         *)
ThreadsSound ==
  /\ part = "comments" => Threads!TypeOK /\ Threads!TwoLevels /\ Threads!ViewerUpToDate
  /\ part = "commentsInTurn" => Threads!RepliesHaveParents

(* TagsService and PageTagsPanel: a panel tells the tags there are, and is      *)
(* locked only while its call is under way, for two panels on a page and for  *)
(* one that sends calls at once.                                            *)
TagsSound ==
  part \in {"tags", "onePanel"} => Tagging!TypeOK /\ Tagging!PanelTells /\ Tagging!LockedWhileAsking

=============================================================================
