------------------------------ MODULE SchemaHistory ------------------------------
(***************************************************************************)
(* The migrations, statement by statement, as a container runs them before    *)
(* it serves: on the database of any earlier release with rows of its time,   *)
(* with the commits MySQL makes by itself, stopped anywhere and restarted.    *)
(* A table is a set of columns; of the rows there are what migrations move:   *)
(* roles, visibility, the grants on pages and what replaces them.            *)
(***************************************************************************)
EXTENDS Naturals, Sequences, FiniteSets, SequencesExt

CONSTANTS
  Users,     \* users' ids, of living accounts or not
  Pages,     \* pages' ids
  Editors,   \* the group of former editors
  MaxCrash,  \* bound on crashes
  Null

-----------------------------------------------------------------------------
OldRoles == {"admin", "editor", "reader"}
NewRoles == {"admin", "member"}

(* The statements.  A table's columns are those an insert must give, and      *)
(* those it may leave out.                                                  *)
Create(t, needed, free) == [op |-> "create", table |-> t, needed |-> needed, free |-> free]
Add(t, c)               == [op |-> "add", table |-> t, column |-> c]
Drop(t, c)              == [op |-> "drop", table |-> t, column |-> c]
DropTable(t)            == [op |-> "drop table", table |-> t]
Key(k, ts)              == [op |-> "key", key |-> k, tables |-> ts]   \* index, foreign key, trigger
Modify(t, c)            == [op |-> "modify", table |-> t, column |-> c]
Enum(rs)                == [op |-> "enum", roles |-> rs]                 \* MODIFY of users.role
Rows(what)              == [op |-> "rows", rows |-> what]
Log(who, req, opt)      == Create(who, {"id"} \cup req, {"created_at"} \cup opt)

InitTestTable == << Create("test", {}, {"id"}) >>
CreateUser ==
  << Log("users", {"email", "password_hash", "display_name"}, {"avatar_url", "role", "updated_at"}) >>
CreatePage ==
  << Log("pages", {"slug", "title", "created_by_id"},
         {"parent_id", "current_version_id", "is_published", "visibility", "updated_at", "deleted_at"}) >>
CreatePageVersion == << Log("page_versions", {"page_id", "content", "title", "author_id"}, {"change_summary"}) >>
AddPageVersionPageIdIndex == << Key("versions page", {"page_versions"}) >>
CreateAttachment ==
  << Log("attachments", {"minio_key", "filename", "mime_type", "size", "uploaded_by_id"}, {"page_id"}) >>
AddFulltextIndexPageVersion == << Key("versions text", {"page_versions"}) >>
CreatePagePermission == << Log("page_permissions", {"page_id", "user_id", "granted_by_id"}, {}) >>
CreateSystemSetting == << Create("system_setting", {"key", "value"}, {}), Rows("locale") >>
CreateTagAndPageTag ==
  << Log("tags", {"name"}, {"color"}), Create("page_tags", {"page_id", "tag_id"}, {}),
     Key("page_tags page", {"page_tags", "pages"}), Key("page_tags tag", {"page_tags", "tags"}) >>
CreateMcpApiKey ==
  << Log("mcp_api_keys", {"name", "key_hash", "scopes", "created_by_id"}, {"last_used_at", "revoked_at"}) >>
CreateMcpAuditLog ==
  << Log("mcp_audit_logs", {"api_key_id", "tool_name", "input", "success"}, {"output", "error_message"}) >>
AddLockoutToUser == << Add("users", "failed_login_attempts"), Add("users", "locked_until") >>
CreateAdminAuditLog ==
  << Log("admin_audit_logs", {"admin_id", "action", "target_type"}, {"target_id", "metadata"}) >>
CreateUserActivityLog ==
  << Log("user_activity_logs", {"user_id", "action", "target_type"}, {"target_id", "metadata"}) >>
CreateComment ==
  << Log("comments", {"page_id", "author_id", "content"}, {"parent_id", "edited_at", "deleted_at"}) >>
AddCommentsEnabledToPage == << Add("pages", "comments_enabled") >>
MergeIsPublishedIntoVisibility == << Rows("unpublished"), Drop("pages", "is_published") >>
AddViewCountToPage == << Add("pages", "view_count") >>
CreatePageFollow == << Log("page_follows", {"user_id", "page_id"}, {}) >>
CreateOAuthClientAndRefreshToken ==
  << Log("oauth_clients", {"client_id", "client_secret_hash", "redirect_uris", "name"}, {}),
     Log("oauth_refresh_tokens", {"token_hash", "client_id", "user_id", "scopes", "expires_at"}, {"revoked_at"}),
     Key("token client", {"oauth_refresh_tokens", "oauth_clients"}), Key("token user", {"oauth_refresh_tokens", "users"}) >>
WidenMcpAuditLogApiKeyId == << Modify("mcp_audit_logs", "api_key_id") >>
CreatePermissionsAndGroups ==
  << Log("groups", {"name"}, {"description", "updated_at"}),
     Create("group_members", {"group_id", "user_id"}, {"created_at"}),
     Key("member group", {"group_members", "groups"}), Key("member user", {"group_members", "users"}),
     Create("user_permissions", {"user_id", "permission"}, {"created_at"}),
     Key("user_permissions", {"user_permissions", "users"}),
     Create("group_permissions", {"group_id", "permission"}, {"created_at"}),
     Key("group_permissions", {"group_permissions", "groups"}),
     Log("page_access_rules", {"applies_to", "actions", "granted_by_id"}, {"user_id", "group_id", "page_id"}),
     Key("rule user", {"page_access_rules", "users"}), Key("rule group", {"page_access_rules", "groups"}),
     Key("rule page", {"page_access_rules", "pages"}),
     Key("rule inserted", {"page_access_rules"}), Key("rule updated", {"page_access_rules"}),
     Create("page_access_exclusions", {"rule_id", "page_id"}, {}),
     Key("exclusion rule", {"page_access_exclusions", "page_access_rules"}),
     Key("exclusion page", {"page_access_exclusions", "pages"}), Add("users", "is_active") >>
MigrateEditorRoleToPermissions ==
  << Rows("group"), Rows("permissions"), Rows("members"), Rows("editors' rule"), Rows("grants"),
     Enum(OldRoles \cup NewRoles), Rows("roles"), Enum(NewRoles), DropTable("page_permissions") >>
AddPasswordChangedAtToUsers == << Add("users", "password_changed_at") >>
WidenPageVersionContent == << Modify("page_versions", "content") >>
ReplaceAvatarUrlWithAvatarExtension == << Add("users", "avatar_extension"), Drop("users", "avatar_url") >>
BackfillAvatarExtensionFromStorage == << Rows("avatars") >>

Migrations ==
  << InitTestTable, CreateUser, CreatePage, CreatePageVersion, AddPageVersionPageIdIndex, CreateAttachment,
     AddFulltextIndexPageVersion, CreatePagePermission, CreateSystemSetting, CreateTagAndPageTag, CreateMcpApiKey,
     CreateMcpAuditLog, AddLockoutToUser, CreateAdminAuditLog, CreateUserActivityLog, CreateComment,
     AddCommentsEnabledToPage, MergeIsPublishedIntoVisibility, AddViewCountToPage, CreatePageFollow,
     CreateOAuthClientAndRefreshToken, WidenMcpAuditLogApiKeyId, CreatePermissionsAndGroups,
     MigrateEditorRoleToPermissions, AddPasswordChangedAtToUsers, WidenPageVersionContent,
     ReplaceAvatarUrlWithAvatarExtension, BackfillAvatarExtensionFromStorage >>

-----------------------------------------------------------------------------
(* What the entities of this release read and write.                         *)
Of(t, cs) == {t} \X ({"id", "created_at"} \cup cs)

User == Of("users", {"email", "password_hash", "display_name", "avatar_extension", "role", "failed_login_attempts",
                     "locked_until", "is_active", "password_changed_at", "updated_at"})
Page == Of("pages", {"slug", "title", "parent_id", "current_version_id", "comments_enabled", "view_count", "visibility",
                     "created_by_id", "updated_at", "deleted_at"})
PageVersion   == Of("page_versions", {"page_id", "content", "title", "author_id", "change_summary"})
PageFollow    == Of("page_follows", {"user_id", "page_id"})
Comment       == Of("comments", {"page_id", "author_id", "parent_id", "content", "edited_at", "deleted_at"})
Attachment    == Of("attachments", {"page_id", "minio_key", "filename", "mime_type", "size", "uploaded_by_id"})
Tag           == Of("tags", {"name", "color"})
PageTag       == {"page_tags"} \X {"page_id", "tag_id"}
McpApiKey     == Of("mcp_api_keys", {"name", "key_hash", "scopes", "created_by_id", "last_used_at", "revoked_at"})
McpAuditLog   == Of("mcp_audit_logs", {"api_key_id", "tool_name", "input", "output", "success", "error_message"})
OAuthClient   == Of("oauth_clients", {"client_id", "client_secret_hash", "redirect_uris", "name"})
OAuthRefreshToken ==
  Of("oauth_refresh_tokens", {"token_hash", "client_id", "user_id", "scopes", "expires_at", "revoked_at"})
AdminAuditLog   == Of("admin_audit_logs", {"admin_id", "action", "target_type", "target_id", "metadata"})
UserActivityLog == Of("user_activity_logs", {"user_id", "action", "target_type", "target_id", "metadata"})
SystemSetting   == {"system_setting"} \X {"key", "value"}
Group           == Of("groups", {"name", "description", "updated_at"})
GroupMember     == {"group_members"} \X {"group_id", "user_id", "created_at"}
UserPermission  == {"user_permissions"} \X {"user_id", "permission", "created_at"}
GroupPermission == {"group_permissions"} \X {"group_id", "permission", "created_at"}
PageAccessRule  == Of("page_access_rules", {"user_id", "group_id", "page_id", "applies_to", "actions", "granted_by_id"})
PageAccessExclusion == {"page_access_exclusions"} \X {"rule_id", "page_id"}

Entities ==
  UNION {User, Page, PageVersion, PageFollow, Comment, Attachment, Tag, PageTag, McpApiKey, McpAuditLog, OAuthClient,
         OAuthRefreshToken, AdminAuditLog, UserActivityLog, SystemSetting, Group, GroupMember, UserPermission,
         GroupPermission, PageAccessRule, PageAccessExclusion}

(* The columns that SQL written by hand names.  For readers who may not read   *)
(* everything, two queries add a clause on the pages that are public.        *)
PublicOnly == {"pages"} \X {"is_published", "visibility"}
Clause(restricted) == IF restricted THEN PublicOnly ELSE {}

Search(restricted) ==
  Clause(restricted) \cup ({"pages"} \X {"id", "slug", "current_version_id", "deleted_at"})
    \cup ({"page_versions"} \X {"id", "title", "content"})
    \cup ({"page_tags"} \X {"page_id", "tag_id"}) \cup ({"tags"} \X {"id", "name", "color"})
Library(restricted) ==
  Clause(restricted) \cup Of("attachments", {"page_id", "minio_key", "filename", "mime_type", "size", "uploaded_by_id"})
    \cup ({"pages"} \X {"id", "deleted_at"})
PagesReferencing ==
  ({"pages"} \X {"id", "current_version_id", "deleted_at"}) \cup ({"page_versions"} \X {"id", "title", "content"})
Hierarchy == {"pages"} \X {"id", "parent_id", "visibility", "deleted_at"}

(* The queries that every request may come to run, and those of readers who may  *)
(* not read everything.                                                     *)
ForAll        == Search(FALSE) \cup Library(FALSE) \cup PagesReferencing \cup Hierarchy
ForRestricted == Search(TRUE) \cup Library(TRUE)

-----------------------------------------------------------------------------
(* A database: columns as <<table, column, needed>>, and the rows.           *)
Roles == OldRoles \cup NewRoles
Shown == {"public", "draft", "private"}   \* a draft is public and not published

Database ==
  [columns : SUBSET (STRING \X STRING \X BOOLEAN), keys : SUBSET STRING, executed : 0..Len(Migrations),
   enum : SUBSET Roles, role : [Users -> Roles \cup {Null}], page : [Pages -> Shown \cup {Null}],
   grants : SUBSET (Users \X Pages), group : BOOLEAN, permitted : BOOLEAN, members : SUBSET Users,
   rules : SUBSET ((Users \cup {Editors}) \X (Pages \cup {Null}))]

Has(d, t, c) == \E needed \in BOOLEAN : <<t, c, needed>> \in d.columns
Exists(d, t) == \E x \in d.columns : x[1] = t

(* Mutant: the grants of users and pages that are gone, too.                 *)
AllGrants(d) == d.grants

(* The joins of the migration.                                              *)
Joined(d) == {g \in d.grants : d.role[g[1]] # Null /\ d.page[g[2]] # Null}

(* Whether MySQL accepts a statement.                                       *)
RowsApply(what, d) ==
  CASE what = "unpublished" -> Has(d, "pages", "is_published")
    [] what = "group"       -> ~d.group
    [] what = "grants"      -> \A g \in Joined(d) : d.role[g[1]] # Null /\ d.page[g[2]] # Null
    [] what = "roles"       -> "member" \in d.enum
    [] OTHER                -> TRUE

Applies(s, d) ==
  CASE s.op = "create"     -> ~Exists(d, s.table)
    [] s.op = "add"        -> Exists(d, s.table) /\ ~Has(d, s.table, s.column)
    [] s.op = "drop"       -> Has(d, s.table, s.column)
    [] s.op = "drop table" -> Exists(d, s.table)
    [] s.op = "key"        -> s.key \notin d.keys /\ \A t \in s.tables : Exists(d, t)
    [] s.op = "modify"     -> Has(d, s.table, s.column)
    [] s.op = "enum"       -> \A u \in Users : d.role[u] \in s.roles \cup {Null}
    [] s.op = "rows"       -> RowsApply(s.rows, d)

(* Mutant: all that was public stays so.                                    *)
PublishedAll(d) == d

Unpublished(d) == [d EXCEPT !.page = [p \in Pages |-> IF @[p] = "draft" THEN "private" ELSE @[p]]]

(* Mutant: all who have a role but admin.                                   *)
AnyEditor(d) == {u \in Users : d.role[u] \in OldRoles \ {"admin"}}

EditorsOf(d) == {u \in Users : d.role[u] = "editor"}

RowsDone(what, d) ==
  CASE what = "unpublished"   -> Unpublished(d)
    [] what = "group"         -> [d EXCEPT !.group = TRUE]
    [] what = "permissions"   -> [d EXCEPT !.permitted = TRUE]
    [] what = "members"       -> [d EXCEPT !.members = EditorsOf(d)]
    [] what = "editors' rule" ->
         [d EXCEPT !.rules = @ \cup {r \in {<<Editors, Null>>} : \E u \in Users : d.role[u] = "admin"}]
    [] what = "grants"        -> [d EXCEPT !.rules = @ \cup Joined(d)]
    [] what = "roles"         ->
         [d EXCEPT !.role = [u \in Users |-> IF @[u] \in {"editor", "reader"} THEN "member" ELSE @[u]]]
    [] OTHER                  -> d

Without(d, t, c) == [d EXCEPT !.columns = @ \ {<<t, c, TRUE>>, <<t, c, FALSE>>}]

Done(s, d) ==
  CASE s.op = "create" ->
         [d EXCEPT !.columns = @ \cup ({s.table} \X s.needed \X {TRUE}) \cup ({s.table} \X s.free \X {FALSE})]
    [] s.op = "add" -> [d EXCEPT !.columns = @ \cup {<<s.table, s.column, FALSE>>}]
    [] s.op = "drop" ->
         IF s.column = "is_published"
           THEN [Without(d, s.table, s.column) EXCEPT
                   !.page = [p \in Pages |-> IF @[p] = "draft" THEN "public" ELSE @[p]]]
           ELSE Without(d, s.table, s.column)
    [] s.op = "drop table" -> [d EXCEPT !.columns = {x \in @ : x[1] # s.table}, !.grants = {}]
    [] s.op = "key"    -> [d EXCEPT !.keys = @ \cup {s.key}]
    [] s.op = "modify" -> d
    [] s.op = "enum"   -> [d EXCEPT !.enum = s.roles]
    [] s.op = "rows"   -> RowsDone(s.rows, d)

Nothing ==
  [columns |-> {}, keys |-> {}, executed |-> 0, enum |-> OldRoles, role |-> [u \in Users |-> Null],
   page |-> [p \in Pages |-> Null], grants |-> {}, group |-> FALSE, permitted |-> FALSE, members |-> {}, rules |-> {}]

Migrated(before, n) == [FoldLeft(LAMBDA d, s : Done(s, d), before, Migrations[n]) EXCEPT !.executed = n]

(* The database of the release that had the first n migrations.  (That of the   *)
(* release before is bound, so that it is evaluated first.)                 *)
Released[n \in 0..Len(Migrations)] ==
  IF n = 0 THEN Nothing
  ELSE CHOOSE d \in {Migrated(before, n) : before \in {Released[n - 1]}} : TRUE

(* Its rows, as that release could have left them.  The comment in           *)
(* MigrateEditorRoleToPermissions: a deployment has an administrator.        *)
Inhabited(n) ==
  LET d == Released[n] IN
  {[d EXCEPT !.role = r, !.page = g, !.grants = h] :
     r \in {f \in [Users -> IF Exists(d, "users") THEN d.enum \cup {Null} ELSE {Null}] :
              (\E u \in Users : f[u] # Null) => \E u \in Users : f[u] = "admin"},
     g \in [Pages -> IF ~Exists(d, "pages") THEN {Null}
                     ELSE {Null, "public", "private"} \cup {x \in {"draft"} : Has(d, "pages", "is_published")}],
     h \in SUBSET (IF Exists(d, "page_permissions") THEN Users \X Pages ELSE {})}

-----------------------------------------------------------------------------
VARIABLES
  db,
  process,  \* "down", "migrating", "up"
  at,       \* the statement at hand of the first pending migration
  saved,    \* the database at the start of the run's transaction, while that is open
  old,      \* the rows the container found first
  crashes

vars == <<db, process, at, saved, old, crashes>>

Init ==
  /\ \E n \in 0..Len(Migrations) : db \in Inhabited(n)
  /\ process = "down" /\ at = 1 /\ saved = Null /\ crashes = 0
  /\ old = [role |-> db.role, page |-> db.page, grants |-> db.grants]

Pending == Migrations[db.executed + 1]
AllRun  == db.executed = Len(Migrations)

Start ==
  /\ process = "down"
  /\ process' = "migrating" /\ at' = 1 /\ saved' = db
  /\ UNCHANGED <<db, old, crashes>>

(* Mutant: a statement on the schema can be rolled back.                     *)
Never(s) == FALSE

(* MySQL ends the transaction with every statement on the schema.            *)
Commits(s) == s.op # "rows"

Statement ==
  /\ process = "migrating" /\ ~AllRun /\ at <= Len(Pending)
  /\ Applies(Pending[at], db)
  /\ db' = Done(Pending[at], db)
  /\ saved' = IF Commits(Pending[at]) THEN Null ELSE saved
  /\ at' = at + 1
  /\ UNCHANGED <<process, old, crashes>>

Record ==
  /\ process = "migrating" /\ ~AllRun /\ at = Len(Pending) + 1
  /\ db' = [db EXCEPT !.executed = @ + 1] /\ at' = 1
  /\ UNCHANGED <<process, saved, old, crashes>>

(* What an uncommitted run leaves, its connection gone.                      *)
RolledBack == IF saved = Null THEN db ELSE saved

(* Mutant: the entry point without set -e.                                  *)
Anyway == "up"

AfterFailure == "down"

Refused ==
  /\ process = "migrating" /\ ~AllRun /\ at <= Len(Pending)
  /\ ~Applies(Pending[at], db)
  /\ process' = AfterFailure /\ db' = RolledBack /\ saved' = Null
  /\ UNCHANGED <<at, old, crashes>>

Serve ==
  /\ process = "migrating" /\ AllRun
  /\ process' = "up" /\ saved' = Null
  /\ UNCHANGED <<db, at, old, crashes>>

Crash ==
  /\ process # "down" /\ crashes < MaxCrash
  /\ process' = "down" /\ db' = RolledBack /\ saved' = Null /\ crashes' = crashes + 1
  /\ UNCHANGED <<at, old>>

Boot == Start \/ Statement \/ Record \/ Refused \/ Serve
Next == Boot \/ Crash

-----------------------------------------------------------------------------
(* Properties *)

TypeOK ==
  /\ db \in Database /\ process \in {"down", "migrating", "up"}
  /\ saved # Null => process = "migrating" /\ saved.columns = db.columns
  /\ at \in 1..20 /\ crashes \in 0..MaxCrash
  /\ \A u \in Users : db.role[u] \in db.enum \cup {Null}

(* docs/deployment.md 13: no server runs on a schema that is not its own.     *)
(* Whatever release the database is of and wherever starts are broken off,    *)
(* every column an entity or a query for all readers names is there, and an   *)
(* insert gives every column it must.                                       *)
ServesItsSchema ==
  process = "up" =>
    /\ \A e \in Entities \cup ForAll : Has(db, e[1], e[2])
    /\ \A x \in db.columns :
         x[3] /\ (\E e \in Entities : e[1] = x[1]) => <<x[1], x[2]>> \in Entities

(* CHANGELOG 748, 170: visitors and members search, and list the library, within *)
(* what they may read.  Whoever does not read everything has the clause on    *)
(* public pages in these queries, which names pages.is_published: the         *)
(* database has no such column once MergeIsPublishedIntoVisibility has run.   *)
ServesRestricted ==
  process = "up" => \A c \in ForRestricted : Has(db, c[1], c[2])

(* What visitors could not see before the upgrade they cannot see after it,    *)
(* and what they could they can: CHANGELOG 361.                             *)
HiddenStaysHidden ==
  process = "up" => \A p \in Pages : db.page[p] = "public" <=> old.page[p] = "public"

(* Who edited by role or by a grant on a page does so by the group or by a      *)
(* rule, nobody else does, and who was an administrator still is.            *)
RightsKept ==
  process = "up" =>
    /\ db.members = {u \in Users : old.role[u] = "editor"}
    /\ db.members # {} => db.permitted /\ <<Editors, Null>> \in db.rules
    /\ db.rules \ {<<Editors, Null>>} = Joined(old)
    /\ \A u \in Users : (db.role[u] = "admin" <=> old.role[u] = "admin") /\ (db.role[u] = Null <=> old.role[u] = Null)

=============================================================================
