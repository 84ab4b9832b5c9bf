------------------------------ MODULE ApiRoutes ------------------------------
(***************************************************************************)
(* The two ways into the wiki: the routes of the REST controllers and the  *)
(* tools of the MCP server.  Both end in the same services, behind         *)
(* different guards.  A way in is a record: who may come (guard, or the    *)
(* scopes of a tool) and the rights it has looked up, one after the other, *)
(* before it acts (checks).  A handler that reads or writes several things *)
(* of one page is one entry; so is each branch of a handler that checks    *)
(* other rights.                                                           *)
(***************************************************************************)
EXTENDS FiniteSets, Sequences

GlobalPermissions == {"page.create_root", "tag.create", "tag.delete",
                      "media.upload", "media.delete", "comment.moderate", "user.manage"}
PageActions == {"page.read", "page.edit", "page.create_child", "page.delete",
                "page.move", "page.manage_visibility", "page.manage_tags",
                "page.restore_version", "page.manage_permissions"}
Rights == GlobalPermissions \cup PageActions

Scopes == {"pages:read", "pages:write", "tags:read", "tags:write", "users:read",
           "users:write", "media:read", "media:write", "search:read"}

(* guard "none": no guard.  "visitor": a session or no cookie at all.      *)
(* "fallback": a session, or else a visitor.  "user": a session.           *)
(* "admin": a session whose token says admin.                              *)
Route(name, guard, checks) == [name |-> name, guard |-> guard, checks |-> checks]
Tool(name, scopes, checks) == [name |-> name, scopes |-> scopes, checks |-> checks]

----------------------------------------------------------------------------
(* The REST routes, controller by controller.                              *)

PageWriting ==
  { Route("create/child", "user", <<"page.create_child">>),
    Route("create/root", "user", <<"page.create_root">>),
    Route("update", "user", <<"page.edit">>),
    Route("mergePreview", "user", <<"page.edit">>) }

PageMoving ==
  { Route("move/under", "user", <<"page.move", "page.create_child">>),
    Route("move/root", "user", <<"page.move", "page.create_root">>),
    Route("changeVisibility", "user", <<"page.manage_visibility">>),
    Route("setCommentsEnabled", "user", <<"page.edit">>),
    Route("page/remove", "user", <<"page.delete">>) }

PageReading ==
  { Route(n, "visitor", <<"page.read">>) :
      n \in {"getTree", "listVersions", "listContributors", "getVersion", "diffVersions"} }

PageRestoring == { Route("restoreVersion", "user", <<"page.restore_version">>) }

PageComments ==
  { Route("listComments", "visitor", <<"page.read">>),
    Route("createComment", "user", <<"page.read">>) }

PageFollowing ==
  { Route("followPage", "user", <<"page.read">>),
    Route("unfollowPage", "user", <<>>) }

PageTagging ==
  { Route("listPageTags", "visitor", <<"page.read">>),
    Route("tagPage", "user", <<"page.read", "page.manage_tags">>),
    Route("untagPage", "user", <<"page.read", "page.manage_tags">>) }

PageAccessRules ==
  { Route(n, "user", <<"page.read", "page.manage_permissions">>) :
      n \in {"page/listAccessRules", "page/createAccessRule", "page/updateAccessRule",
             "page/deleteAccessRule"} }

PageDetail == { Route(n, "visitor", <<"page.read">>) : n \in {"getStats", "getByPath"} }

CommentRoutes ==
  { Route("ownComment/update", "user", <<>>),
    Route("ownComment/remove", "user", <<>>),
    Route("comment/remove", "user", <<"comment.moderate">>),
    Route("user/listComments", "user", <<"user.manage">>),
    Route("user/purgeComments", "user", <<"user.manage">>) }

MediaRoutes ==
  { Route("upload", "user", <<"media.upload">>),
    Route("page/listMedia", "visitor", <<"page.read">>),
    Route("library/list", "user", <<"page.read">>),
    Route("getUrl", "visitor", <<"page.read">>),
    Route("getRaw", "fallback", <<"page.read">>),
    Route("media/remove", "user", <<"media.delete">>) }

TagRoutes ==
  { Route("tag/create", "user", <<"tag.create">>),
    Route("tags/list", "none", <<>>),
    Route("tag/remove", "user", <<"tag.delete">>) }

SearchRoutes == { Route("search", "visitor", <<"page.read">>) }

OwnAccount ==
  { Route(n, "user", <<>>) : n \in {"getMe", "listMyActivity", "listMyComments",
      "updateMe", "uploadAvatar", "removeAvatar", "changePassword"} }
  \cup { Route("getAvatar", "none", <<>>) }

UserAdministration ==
  { Route(n, "user", <<"user.manage">>) :
      n \in {"listUsers", "createUser", "user/getDetail", "updateUser"} }

UserUpkeep ==
  { Route(n, "user", <<"user.manage">>) :
      n \in {"setStatus", "resetPassword", "unlock", "setGroups",
             "getEffectivePermissions", "deleteUser"} }

UserGrants ==
  { Route(n, "user", <<"user.manage">>) :
      n \in {"user/setPermissions", "user/listAccessRules", "user/createAccessRule",
             "user/updateAccessRule", "user/deleteAccessRule"} }

GroupRoutes ==
  { Route(n, "user", <<"user.manage">>) :
      n \in {"groups/list", "group/create", "group/getDetail", "group/update", "group/delete",
             "group/setMembers", "group/setPermissions", "group/listAccessRules",
             "group/createAccessRule", "group/updateAccessRule", "group/deleteAccessRule"} }

StatRoutes ==
  { Route("getPublicStats", "none", <<>>), Route("wiki/getStats", "user", <<>>),
    Route("getPopularPages", "user", <<>>), Route("getFollowedPages", "user", <<"page.read">>) }

AuditRoutes == { Route(n, "admin", <<>>) : n \in {"auditLog/list", "activityLog/list"} }

SettingRoutes ==
  { Route("getPublicSettings", "none", <<>>), Route("updateSetting", "admin", <<>>) }

VersionRoutes == { Route("version/getStatus", "admin", <<>>) }

KeyRoutes ==
  { Route(n, "admin", <<>>) : n \in {"key/create", "keys/list", "key/revoke"} }

McpLogRoutes == { Route("mcpLog/list", "admin", <<>>) }

OAuthClientRoutes == { Route(n, "admin", <<>>) : n \in {"clients/list", "revokeToken"} }

Routes ==
  UNION { PageWriting, PageMoving, PageReading, PageRestoring, PageComments,
          PageFollowing, PageTagging, PageAccessRules, PageDetail, CommentRoutes,
          MediaRoutes, TagRoutes, SearchRoutes, OwnAccount, UserAdministration, UserUpkeep,
          UserGrants, GroupRoutes, StatRoutes, AuditRoutes, SettingRoutes,
          VersionRoutes, KeyRoutes, McpLogRoutes, OAuthClientRoutes }

----------------------------------------------------------------------------
(* The MCP tools, file by file.                                            *)

PagesTools ==
  { Tool("wiki_get_formatting_guide", {}, <<>>),
    Tool("wiki_create_page/under", {"pages:write"}, <<"page.create_child">>),
    Tool("wiki_create_page/root", {"pages:write"}, <<"page.create_root">>),
    Tool("wiki_update_page", {"pages:write"}, <<"page.edit">>),
    Tool("wiki_get_page", {"pages:read"}, <<"page.read">>),
    Tool("wiki_list_pages", {"pages:read"}, <<"page.read">>),
    Tool("wiki_delete_page", {"pages:write"}, <<"page.delete">>),
    Tool("wiki_set_page_visibility", {"pages:write"}, <<"page.manage_visibility">>) }

TagsTools ==
  { Tool("wiki_create_tag", {"tags:write"}, <<"tag.create">>),
    Tool("wiki_list_tags", {"tags:read"}, <<>>),
    Tool("wiki_tag_page", {"tags:write"}, <<"page.read", "page.manage_tags">>),
    Tool("wiki_untag_page", {"tags:write"}, <<"page.read", "page.manage_tags">>),
    Tool("wiki_delete_tag", {"tags:write"}, <<"tag.delete">>) }

(* Mutant: the check of the right is left out of the handlers that write.  *)
UsersToolsUnchecked ==
  { Tool(n, {"users:read"}, <<"user.manage">>) :
      n \in {"wiki_list_users", "wiki_list_groups"} }
  \cup
  { Tool(n, {"users:write"}, <<>>) :
      n \in {"wiki_create_user", "wiki_update_user_role", "wiki_set_user_groups",
             "wiki_grant_access", "wiki_set_permissions"} }

UsersTools ==
  { Tool(n, {"users:read"}, <<"user.manage">>) :
      n \in {"wiki_list_users", "wiki_list_groups"} }
  \cup
  { Tool(n, {"users:write"}, <<"user.manage">>) :
      n \in {"wiki_create_user", "wiki_update_user_role", "wiki_set_user_groups",
             "wiki_grant_access", "wiki_set_permissions"} }

MediaTools ==
  { Tool("wiki_upload_image", {"media:write"}, <<"media.upload">>),
    Tool("wiki_get_media_url", {"media:read"}, <<"page.read">>) }

SearchTools ==
  { Tool("wiki_search", {"search:read", "pages:read"}, <<"page.read">>) }

Tools == UNION { PagesTools, TagsTools, UsersTools, MediaTools, SearchTools }

(* The rights an operation is documented to need, by either way in (the    *)
(* table of the API in docs/technical-spec.md, and the descriptions of the *)
(* routes the table leaves out).                                           *)
NeedsRight(name, right) ==
  \/ right = "page.create_child" /\ name \in {"create/child", "move/under", "wiki_create_page/under"}
  \/ right = "page.create_root" /\ name \in {"create/root", "move/root", "wiki_create_page/root"}
  \/ right = "page.edit" /\ name \in {"update", "mergePreview", "setCommentsEnabled", "wiki_update_page"}
  \/ right = "page.move" /\ name \in {"move/under", "move/root"}
  \/ right = "page.manage_visibility" /\ name \in {"changeVisibility", "wiki_set_page_visibility"}
  \/ right = "page.delete" /\ name \in {"page/remove", "wiki_delete_page"}
  \/ right = "page.restore_version" /\ name = "restoreVersion"
  \/ right = "page.read" /\ name \in
       {"getTree", "listVersions", "listContributors", "getVersion", "diffVersions", "listComments",
        "listPageTags", "getStats", "getByPath", "page/listMedia", "library/list", "getUrl", "getRaw",
        "search", "wiki_get_page", "wiki_list_pages", "wiki_search", "wiki_get_media_url"}
  \/ right = "page.manage_tags" /\ name \in {"tagPage", "untagPage", "wiki_tag_page", "wiki_untag_page"}
  \/ right = "page.manage_permissions" /\ \E r \in PageAccessRules : r.name = name
  \/ right = "media.upload" /\ name \in {"upload", "wiki_upload_image"}
  \/ right = "media.delete" /\ name = "media/remove"
  \/ right = "tag.create" /\ name \in {"tag/create", "wiki_create_tag"}
  \/ right = "tag.delete" /\ name \in {"tag/remove", "wiki_delete_tag"}
  \/ right = "comment.moderate" /\ name = "comment/remove"
  \/ right = "user.manage" /\
       \E r \in UNION {UserAdministration, UserUpkeep, UserGrants, GroupRoutes, UsersTools} : r.name = name
  \/ right = "admin" /\ name \in
       {"key/create", "keys/list", "key/revoke", "mcpLog/list", "auditLog/list",
        "activityLog/list", "clients/list", "revokeToken", "updateSetting", "version/getStatus"}

Needs(name) == {right \in Rights \cup {"admin"} : NeedsRight(name, right)}
=============================================================================
