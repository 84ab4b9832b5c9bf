# TLA+ verification of OpenWiki

OpenWiki is a self-hosted wiki: a NestJS backend over MySQL (TypeORM), a MinIO
object store, a Socket.IO gateway, an MCP server with its own OAuth flow, and a
React frontend. This directory models the parts of it where the order of events
matters, checks them with TLC on small instances, and proves what matters most
with TLAPS for every instance.

Contents: [inventory](#inventory), [the page store](#the-page-store),
[access](#access), [identity](#identity), [content](#content),
[service](#service), [browser](#browser), [runs](#runs), [proofs](#proofs),
[disagreements without a run](#disagreements-without-a-run),
[what the models leave out](#what-the-models-leave-out), [plan](#plan).
`PROJECT.json` lists the same things for tools: components, runs, one mutated
definition per property (each property fails when its mutant replaces the
definition it mutates), the map from definitions to source lines, findings,
hazards and theorems.

## Inventory

Paths are relative to `src/backend/src` unless they start with `frontend`. The
module column names the model; *partly* means that operations which change state
are left out, and `PROJECT.json` says which.

| Component | State it keeps | Operations | Hard behaviour | What makes it correct | Model |
|---|---|---|---|---|---|
| Pages (`pages/services/pages.service.ts`, `pages/persistence`) | `pages`, `page_versions` | create, update (with merge), restore, move, delete (cascade), visibility (cascade), comments switch, tree | every handler reads, awaits, and saves the entity it read; cascades are not transactional | forest, unique paths, append-only history, own current version, no edit lost, cascades complete | `PageStore` (partly: views, follows) |
| Page merge (`page-merge.service.ts`) | none | three-way merge | conflicts | both sides' changes kept | `PageStore` |
| Versions (`versions/`) | `page_versions` | list, get, diff | reads only | a version is found under its own page | `PageStore`, `ListScreens` (partly: the diff's text) |
| Permission evaluation (`permissions/services/permissions.service.ts`) | none (reads) | can, bulk, readable ids, subtree, explain | four algorithms for one question | they agree | `AccessEvaluation` |
| Access rules, groups (`access-rules.service.ts`, `groups.service.ts`) | rules, exclusions, groups, members, grants | create, update, delete | rule and exclusions written apart; check, then write | nobody grants what he does not hold; no half-written rule | `AccessRules` (partly: names, audit) |
| Users (`users/`) | `users` | create, update, activate, delete, register | counting the last administrator, then removing one; a role in an old token | an active administrator remains | `Accounts` (partly: names, lists) |
| Avatars (`users/`, `database/avatar-backfill.ts`) | a column of `users`, files in MinIO | upload, remove, backfill | two stores, backfill beside the server | the row names the file there is | `AvatarStore` |
| Authentication (`auth/`) | lockout counters, tokens in cookies | login, refresh, change and reset of a password, unlock | expiry of a lock, seconds against milliseconds | a lock bounds the guesses, a new password ends the sessions | `Sessions` (partly: captcha, breach check) |
| Comments (`comments/`) | `comments` | create, reply, edit, delete (soft, or with its thread), purge | a reply races the removal of its parent | no orphan reply, an up to date list | `CommentThreads` (partly: the switch is the page store's) |
| Media, storage (`media/`, `storage/`) | `attachments`, objects in MinIO | upload, list, delete | two stores, no common transaction | a row has its object, embedded objects stay | `MediaStore` (partly: the library's queries) |
| Tags (`tags/`, the panel of the editor) | `tags`, `page_tags` | create, attach, detach, delete | look, then insert; lists kept in panels | a tag once per page, panels that tell what there is | `PageTags` |
| OAuth (`mcp/services/oauth-*.ts`) | pending codes in memory, refresh tokens | authorize, exchange, refresh, revoke | single use, restarts | a code or a token serves once | `OAuthFlow` (partly: registration of clients) |
| API keys, MCP server, tools, audit (`mcp/`) | keys, sessions, audit lines | create, revoke, validate, call a tool | rights and keys that change during a call | who acts holds the right, and it is on record | `ApiGate`, `ApiRoutes` |
| Guards and filters (`common/`) | none | admit or refuse | several reads while rights change | as above | `ApiGate` (partly: throttling, filters) |
| Realtime gateway (`realtime/pages.gateway.ts`) | rooms of sockets | join, leave, broadcast | a join awaits a check | events reach those in the room | `PageRooms`, `EditorSession` (partly: presence) |
| Search, activity log, audit log, settings | rows | queries, appends | columns named by hand | queries that run | `SchemaHistory`, `ListScreens` (partly) |
| Version check (`admin/services/version-check.service.ts` and its notice) | pending fetch, cached answer | check, dismiss | a shared request, caches | few requests, recent answers | `VersionCheck` |
| Migrations (`database/migrations`) | the schema | 28 migrations | MySQL commits with every DDL statement | data carried over, the served schema is the code's | `SchemaHistory` |
| Content seed, entry point (`database/content-seed.ts`, `entrypoint.sh`) | pages of the documentation | seed at each start | stopped anywhere, over people's changes | the tree of the release, nothing of people's | `ContentSeed` |
| API client (`frontend/src/lib/api-client.ts`, `AuthProvider`) | one shared refresh | request, refresh, retry, sign out | late 401 answers | one refresh, no endless wait | `ClientRefresh` |
| Editor (`frontend/src/pages/PageEditor.tsx` and its hooks) | draft, base version | type, preview, save | previews late or out of order | nothing typed is lost | `EditorSession` (partly: title, moves) |
| Page, tree and administration screens (`frontend`) | what they show | load, filter, click, reload | answers out of order, lost events | they show what there is | `PageTree`, `PageRooms`, `ListScreens` (partly: layout) |
| Access tree of a subject (`frontend`) | rules shown | tick, untick | several requests at once | boxes tell the access | `AccessTree` (partly: the panel's list) |
| Forms and dialogs (`frontend`) | what is entered | open, type, send, close | answers after another attempt | nothing sent twice, nothing entered lost | `Forms` (partly: login form) |
| Follows and statistics, meta previews, configuration, security services, Markdown and schemas (`frontend`) | counters, or none | reads, formatting, one outgoing request | none that decides | | not modelled |

Interactions: controllers call the services; every page handler asks permission
evaluation before it writes, and emits an event after it. The gateway turns
events into broadcasts; an open page, the sidebar, the comments and the editor
answer a broadcast with a request, the editor's being a merge preview whose base
version it later saves with. Search and media ask permission evaluation for the
readable page ids. The MCP tools call the same services as the controllers,
behind a guard of their own. A start of the container runs the migrations, the
default administrator and the content seed before it serves.

Four modules put components side by side for TLC: `MCIdentity`, `MCContent`,
`MCService` and `MCBrowser`. Their components write no common state (they
belong to different tables, processes or screens), so their interleavings
would only multiply states: a behaviour is one of a single `part`, and the
variables of the other parts are `Off`. A property of such a module speaks of
each part for itself. Where components do share state, one module has both sides:
the editor with the page's versions and rooms, the panels with the tag tables,
the tree of boxes with the stored rules, the notice with the server's cache.

## The page store

| Module | What it is |
|---|---|
| `PageStore` | the handlers of `PagesService` over the TypeORM repository, interleaved |
| `PageProperties` | the serial schedule, its fairness, and what the handlers promise under it |
| `WikiDocument` | abstract specification: each call acts on the documents at once |
| `MCPages` | the instances TLC checks |
| `PageStoreProofs` | theorems about `PageStore` and their proofs |
| `PageSerialProofs` | theorems about the serial schedule, the refinement among them, and their proofs |

### State and actions

`pages` and `versions` are the two tables (a deleted row stays, with `deleted`
set, as `deleted_at` does). Each member of `Requests` is one HTTP or MCP call.
Its local variables are those of the handler: `entity` is the page it loaded and
will save, `anchor` the parent it loaded, `text` the content it will save,
`cursor` the page its next query is about, `dirty` the columns its save found to
differ, `stack` the recursion of a cascade with the children each level read,
and `ids` the descendants a delete collected. `pc` names the next step, or the
answer.

| Code | Actions |
|---|---|
| `createPage` | `Begin`, `Load` (parent), `Authorize`, `CheckSlug`, `Insert` |
| `updatePage` | `Load`, `Authorize`, `MergeWithBase`, `Select`, `CommitVersion` |
| `restoreVersion`, `createNewVersionFromContent` | `Load`, `Authorize`, `Select`, `CommitVersion` |
| `movePage` | `Load`, `Authorize`, `Walk` (one ancestor each), `CheckSlug`, `Select`, `WriteRow` |
| `setVisibility`, `cascadeVisibility` | `Load`, `Authorize`, `Select`, `WriteRow`, then `OpenCascade` and `Cascade` with a `Select` and `WriteRow` for each descendant |
| `setCommentsEnabled` | `Load`, `Authorize`, `Select`, `WriteRow` |
| `deletePage`, `collectDescendantIds`, `deleteRecursive` | `Load`, `Authorize`, `FindChildren`, `SoftDelete`; or `OpenCollect`, `Collect`, `OpenDelete`, `DeleteRecursive` |

A step is the code between two awaits whose answers another handler can change.
Awaits that read immutable data (a version, once inserted) belong to the step
before them.

### What is abstracted

- **A document is the set of its lines.** `Merged` is then exact for what a
  line merge keeps and drops. Whether two changes overlap depends on positions,
  so `MergeWithBase` may report a conflict whenever both sides changed the base,
  differently, and may always merge instead.
- **`Repository.save`** is a library call, modelled by what it does: it selects
  the row again (deleted or not), compares, and updates the columns that
  differ. These are two queries (`Select`, then `CommitVersion` or `WriteRow`),
  and columns nobody compared keep what is in the row at the update. A column
  another handler changed between load and select is put back.
- **The unique index** on `(parent_id, slug)` counts deleted rows and lets NULL
  parents repeat, as MySQL does (`IndexAdmits`).
- **Permissions** are another component: `Authorize` and the check inside
  `movePage` may refuse any call. Only for deletes does the answer depend on the
  page (`Deletable`), because `deletePage` asks about many pages at once.
- **Validation** of fields is the shape of `Call`.

### Serial and interleaved

`PageStore!Spec` lets any handlers interleave. `PageProperties!SerialSpec` runs
one handler at a time, the schedule of the service's unit tests and of a small
wiki. Both matter because the handlers use no row lock and no transaction beyond
the two repository methods: what holds only serially is what the code cannot
promise under load. With interleaved handlers TLC refutes `Acyclic`,
`LiveParent`, `LiveSlugsUnique` (two roots), `TitleOfCurrentVersion`, `VisibilityCascaded`,
`VisibilityChangesOnRequest` and `OnlyDeletableDeleted` in a few steps, each by a
save of a stale entity or by a check made before another handler's write: two
moves close a cycle together, a page is created or moved under one that is
being deleted, a cascade of visibility misses a child that came or restores
the value of an entity it read before, and a page that came after the check is
deleted unchecked. The serial run shows that the handlers themselves are right,
and the concurrent run shows what remains.

### Properties

Serial (`pages_serial`):

- `Acyclic`, `LiveParent`, `LiveSlugsUnique`: a forest, live pages under live
  pages, one page per path. `LiveParent` holds even between two steps of a
  cascading delete, because it deletes bottom-up.
- `TitleOfCurrentVersion`: the row's title is a copy of the version's.
- `VisibilityCascaded`, `VisibilityChangesOnRequest`: a change reaches every live
  descendant, and nothing else changes visibility.
- `OnlyDeletableDeleted`: no cascade removes a page its caller may not delete.
- `ImplementsDocument`: the refinement. `WikiDocument` serves a call in one step
  on the page as it then is; a base other than null is merged always, which
  `Merged` makes the identity when the base is current. `log` is the versions
  without titles, `head` the current versions, `asked` the calls, `served` the
  answered handlers.
- `HandlersFinish`: every handler answers.

Interleaved (`pages_concurrent`): `TypeOK`, `CurrentVersionOwned`,
`SlugUniqueUnderParent`, `VersionsAppendOnly`, `MergeKeepsBothSides`.

## Access

| Module | What it is |
|---|---|
| `AccessEvaluation` | the answers of `PermissionsService` and the queries of the page hierarchy, as operators over the tables |
| `AccessRules` | the handlers that write rules, global permissions, members and groups, statement by statement |
| `AccessProperties` | the serial schedule, and what the answers and the handlers promise |
| `MCAccess` | the instances TLC checks |
| `AccessProofs` | theorems about both and their proofs |

### Tables and answers

`parent`, `live` and `public` are the columns of `pages` these queries read;
`groups`, `members`, `grants`, `rules` and `exclusions` are the rows of the
permission tables (`grants` joins `user_permissions` and `group_permissions` by
subject). `Chain` and `Descendants` are the two recursive queries, written as
the least fixpoint `WITH RECURSIVE` computes on a tree. On a cycle, which two
interleaved moves can close, the queries run into MySQL's recursion limit and fail,
so the access runs keep to trees: `Move` refuses a cycle as `movePage` does alone.
Each way of asking has its own operator, shaped like its code: `Can`,
`EffectiveActions` (alone and in bulk), `Readable` (`filterReadable`),
`Explained`, `Unrestricted`, `UnrestrictedOnSubtree`, `ReadableIds`. They differ in
what they look at first: `Can` collects the actions of the covering rules,
`Explained` looks for rules that grant one action, `ReadableIds` starts from the
rules and expands pages, `UnrestrictedOnSubtree` never looks at the pages below.

### Handlers

Each member of `Requests` serves one call of `Calls`. `Begin` takes the call,
`Admit` is the guard of the route, `Check` is everything the service method asks
before it writes, and the writes follow one statement at a time: an update or a
replacement of rows is a delete and an insert, with no transaction around them.

| Code | Steps after `Check` |
|---|---|
| `createAccessRule`, by the admin routes or a page's | `InsertRule`, `ClearExclusions`, `AddExclusions` |
| `updateAccessRule`, `updateAccessRuleForPage`, `applyUpdate` | `SetActions`, `ClearExclusions`, `AddExclusions`, those the call asks for |
| `deleteAccessRule`, `deleteAccessRuleForPage` | `DeleteRule`, with its exclusions |
| `setGlobalPermissions` of a user or a group | `ClearGrants`, `AddGrants` |
| `GroupsService.setMembers` | `ClearMembers`, `AddMembers` |
| `UsersService.setGroups` | `ClearGroups`, `AddGroups` |
| `GroupsService.create` | `InsertGroup`, `ClearMembers`, `AddMembers` |
| `GroupsService.delete` | `DeleteGroup`, with all that names the group |

A write fails when a row it refers to is gone, as the foreign keys make it; what
its handler wrote before stays. `EditTree` is the part of the page store these
tables depend on: moves, removals and publications. `spent` holds the ids ever
given out (they are UUIDs: none comes twice), and `before` is a history variable:
what every user held when the handler checked its call.

Abstractions: the reads of one check are one step, and so is TypeORM's
save of new rows (one insert for all of them). A group's name and
description, the audit log, the creation and deletion of users and the groups
given at creation are left out; users, their roles and their `isActive` are
constants.

### Properties

- `AnswersAgree`: `Can`, `EffectiveActions`, `Readable` and `Explained` answer alike.
- `SubtreeReachSound`: who may hand out a subtree without exclusions may do the
  action on every page of it.
- `SearchFindsReadableBelow`: `ReadableIds` and `Can` agree unless a move has put
  an excluded page above the page of its rule (`ExclusionsBelow`). Without that
  premise it is `SearchFindsReadable`, which `access_search` refutes.
- `RulesWellFormed`, `ReferencesHold`: what the readers rely on, whatever ran between
  a handler's check and its writes.
- `GrantsWithinReach`: no statement of a call gives a user more than the user
  and the caller held together when the call was checked. It speaks of
  `Holdings`, so it sees every indirect effect: a member joining a group, an
  exclusion dropped, a rule without its exclusions yet. It holds of calls served
  one at a time with the tree at rest; interleaved it fails, since an assertion
  on a group's grants, a rule's exclusions or the tree may be stale at the write.

## Identity

| Module | What it is |
|---|---|
| `Sessions` | one account's password, its lock, its sessions |
| `Accounts` | the table of accounts and who changes whom |
| `OAuthFlow` | codes, refresh tokens and their rotation |
| `MCIdentity` | the three side by side, and the accounts and calls TLC checks |
| `IdentityProofs` | theorems about every part of `MCIdentity` |

**`Sessions`.** `user` is the row of one account: the password, `passwordChangedAt`,
`failedLoginAttempts`, `lockedUntil`. `now` counts half seconds, the coarsest
clock on which a JWT's `iat` (cut to the second) and a `datetime` column
(rounded to it) differ. A login is `Begin`, `Find` (the row, and whether it is
locked), `Compare`, then either `Increment`, `Reread`, `LockAccount` or `Clear`
and `Sign`; a change or reset of the password ends in `Write`, an unlock in
`Clear`; a refresh is `Find` and `Sign`. `Fail` breaks off any of them.

- `PasswordsGuarded` (run `identity`). Interleaved (`GuessesPerLock`): until a
  lock ends, the wrong guesses are at most one less than the limit and one per
  handler. In turn (`LockMatchesCounter`, `PasswordEndsSessions`): a locked
  account has the failures for it, and a session is refreshed exactly when it was
  opened with the present password, but for the second of the change.
- Interleaved, `LockMatchesCounter` fails: a right login that found the row before
  it was locked clears a lock others have just earned.

**`Accounts`.** `users` is the table, `token` the role in each account's access
token, which may be older than the row: `Refresh` renews it. A call is `Begin`,
`Guard` (by the token's role), `Find`, `CheckEmail`, `Count` (of the active
administrators), `Insert` or `Write`. `boot` is `ensureDefaultAdmin` of a
starting backend; `register` is the public form.

- `AdministratorsKept`. Interleaved (`AdminsMadeByAdmins`): nobody becomes an
  administrator but by a call of one, or by the first start. In turn
  (`AdminRemains`, `AdminsChangedByAdmins`): an active administrator remains,
  and only administrators change one. Three backends that start together
  (`OneDefaultAdmin`) make one default administrator.
- Interleaved, `AdminRemains` fails: two administrators who remove each other both
  count two before either write. `AdminsChangedByAdmins` is relative to the
  token: who was demoted acts by an old token for as long as it lives.

**`OAuthFlow`.** `pending` is the map of codes in the memory of the process,
`tokens` the table of refresh tokens; `granted` remembers what a user consented to.
`Authorize` hands out a code, `Exchange` takes it out of the map and checks it in
one step (no await between), `FindForRefresh`, `Revoke`, `Create` are the
rotation, `FindForRevoke` and `Revoke` the revocation by the client, and the
administrator's goes straight to `Revoke`. `Restart` empties the memory and ends
every handler, `Fail` breaks one off, `Tick` lets codes and tokens expire,
`DeleteUser` cascades to the tokens.

- `TokensSound` (every interleaving): a code yields one token at most, a token is
  that of its grant and of a user there is.
- `GrantsEnd` (in turn, any call broken off): one live token per grant, and none
  after the last was revoked. Two refreshes with one token at once pass
  the check together, and yield two live tokens.

## Content

| Module | What it is |
|---|---|
| `MediaStore` | attachments: a table and a bucket |
| `AvatarStore` | avatars: a column and a bucket, and the backfill |
| `CommentThreads` | the comments of a page, and a viewer of them |
| `PageTags` | tags, their links, and the panels of the editor |
| `MCContent` | the four side by side, and the instances TLC checks |
| `ContentProofs` | theorems about all four |

**`MediaStore`.** `rows` is the table, `stored` the bucket. An upload is
`BeginUpload`, `Put`, `Insert`, `Sign`; a deletion `BeginDelete`, `Find`,
`CheckReferences`, `Remove`, `Forget`. Every call of a store may fail, with or
without its effect, and `Restart` stops every handler. `Edit` and `DeletePage`
are the pages that embed attachments, by the id of the row or, as the check
looks for them, by the object.

- `MediaSound`: an object is missing for a row only after a deletion asked for it
  (`ListedIsStored`), and one a deletion asked for is in the bucket only with its row, so
  that what lies there without a row is of uploads that failed
  (`LeftoversAreUploads`). A deletion that broke off can thus be asked again.
- `FilesKept`, its part of media, in turn: no deletion takes an object whose URL a live
  page embeds. A page that embeds it between the look and the removal loses it.

**`AvatarStore`.** `Erase` (one file each), `Put`, `SetRow` are an upload, without
`Put` a removal; `BackfillList`, `BackfillSelect`, `BackfillUpdate`,
`BackfillEnd` restore rows from the files. `Fail` and `BackfillFail` are a failing
store or a crash.

- `FilesKept`, its parts of avatars: beside running calls, the backfill replaces
  nothing somebody set; in turn, a row names a missing file only after a call
  that failed (the old file goes before the new one is stored); in turn and without failures, the
  bucket holds exactly the file each row names. Interleaved uploads of one user
  erase each other's file, so the last two are of calls in turn.

**`CommentThreads`.** `rows` is the table; a handler of `calls` holds the entity it
read and saves all of it (`BeginCreate`, `BeginChange`, `SaveContent`,
`SoftDelete`; `FindReplies` and `DeleteMany` for the deletion of a thread;
`BeginPurge` for a user's comments). `events` are the broadcasts on the way,
`loads` the lists asked for (`Reload`, `List`, `Show`), `shown` what the viewer
sees. The lists are served and shown in the order they were asked for; the code
does not see to that
([below](#disagreements-without-a-run)).

- `ThreadsSound`. Interleaved: two levels, though a save may bring a deleted
  comment back, and a viewer who shows what is stored once nothing is on the way. In turn: no reply
  without its parent.

**`PageTags`.** `tags` and `links` are the tables; `panel` is the state of each
`PageTagsPanel`: its two lists, the tag it is busy with, the load it belongs to.
A call is in a slot of its panel and does one query a step: `FindName`,
`InsertTag`; `FindTag`, `FindLink`, `Link`; `Unlink`; `RemoveRow`; `Fault` is a
query that fails or a right withdrawn. `Open`, `ReadList`, `LoadFails` load a panel,
`Attach`, `Detach`, `Delete`, `Create` press its buttons, `Answer` applies an answer to
the panel that is open then.

- `TagsSound`: the primary key keeps a tag on a page once; a loaded panel is right
  about every tag but those it still awaits an answer about (`PanelTells`), and a
  tag is locked only while its call is under way (`LockedWhileAsking`). Two
  kinds of tags are exempt, both recorded as they arise: `stray`, which others or
  two crossing calls of the panel changed after it had read its lists, since
  nothing tells it; and `halved`, made by a call that then failed to put it on
  the page, since the panel learns only of the failure.

## Service

| Module | What it is |
|---|---|
| `SchemaHistory` | the migrations, as statements |
| `ContentSeed` | the entry point and the content seed |
| `ApiRoutes`, `ApiGate` | every way in, as data; the guards and the audit that all of them pass |
| `ClientRefresh` | the API client of a tab |
| `VersionCheck` | the look for a newer release |
| `MCService` | all of these and the editors, side by side, and the instances TLC checks |
| `ServiceProofs` | theorems about the releases, the tab, the gate and the seed |

**`SchemaHistory`.** Each of the 28 migrations is a sequence of statements; `Applies`
says when MySQL accepts one and `Done` what it does to the columns, the foreign
keys and the rows the properties tell apart (roles, grants, visibility). A
statement on the schema commits by itself, `Record` notes a migration after its
last statement, `Crash` and `Refused` roll back what is not committed, and the
container starts again. A behaviour begins on the database of any release, with
rows of its time.

- `SchemaSound`: a server that serves has every column that its entities name and
  that its queries name for a reader of everything; a page nobody could see stays
  hidden; editors keep their rights, and nobody gains any. A crash inside a migration
  that MySQL will not run twice keeps the container down, so `SchemaSound` speaks of
  when it serves.
- `EveryoneSearches` is the same of the queries for everybody else. `Search` and
  `Library` name the columns of either kind of reader (`PublicOnly` is the clause a
  restricted one adds), and run `service_search` refutes it: see the
  [findings](#findings).

**`ContentSeed`.** `Start`, `SeedTags`, then for each page of the tree `FindPage`,
`CreatePage`, `InsertVersion`, `SetCurrent`, `TagPage`. While the server is up, people move,
edit, create and delete pages and tags; `Upgrade` changes the texts of the release, and
`Crash` stops the container anywhere.

- `ContentSeeded`: a start that gets through shows the tree of its release, and
  writes to no page outside of it. A page of the seed that was deleted keeps
  every later start from coming up: `findOneBy` passes over it, the unique
  index does not (`CreateRefused`). `SeedShown` speaks of starts that end; for
  `Answers` the bound of people's changes excludes that one (`KeepingNext`).

**`ApiGate` and `ApiRoutes`.** `ApiRoutes` lists every route with its guard and the
rights its handler looks up, every tool with its scopes, and what each operation
needs (`Needs`), from the documentation of the API. A request passes `Request`
(a guard) or `Call`, `ValidateKey`, `AssertUserActive`, `ExecuteTool` (the
session), then reads the account (`ReadUser`), its rights (`LoadRights`), acts (`Act`,
`CreateKey`, `RevokeKey`), and for a tool writes `LogSuccess` or `LogFailure`. Each read
is a step; `ChangeUser`, `Expire`, `ExpireToken` and other requests change what was read.

- `GateSound`: who acted held, at some moment of the request, every right the
  operation needs (the account's activity and its grants are two reads, so they
  may be of different moments); a tool's key was live when the call came; and a
  call that acted has its line, unless two writes failed. A call that was done and
  whose line fails is logged and answered as a failure. The key that opened
  a session lends it its scopes: a client that then presents a key with
  fewer keeps them, and only the revocation ends that.

**`ClientRefresh`.** `Send`, `Answer` with a 401, `AnswerUnauthorized` (start or
join the one refresh), `Refreshed` (all who wait send again, once),
`RefreshRefused`, `LoggedOut`; around them `Expire`, `RefreshFails`, `SessionEnds`, `SignIn`
and `SignOut`.

- `SessionRenewed`: while nothing fails, a living session has every request served
  with its rights, stays signed in and keeps its socket; whatever fails, who waits
  waits for a refresh that is under way.

**`VersionCheck`.** `cache` and `pending` are the service's; `offered` are the releases
that were last at some moment of the request (`Publish`), `previous` how the last
request ended. A tab asks once per user (`Check`), shows a notice, and `Dismiss`
hides it for all tabs. `Restart` empties the memory.

- `ReleasesAreWatched`: the release server is asked again only when the last
  answer, or the lack of one, has been kept for its time; a cached release was
  the last one at most that time and a request ago; a notice tells of a version
  later than the running one, by its numbers.

**Liveness.** `Answers` is one property of five parts: a container that is down
comes up (the seed in place, the schema without a crash), a call of a tool and a request of
a tab are answered, an editor told of a version comes to stand on it or on a later
one, or is left. The fairness is under [runs](#runs).

## Browser

| Module | What it is |
|---|---|
| `EditorSession` | people who edit one page at once |
| `PageRooms` | a tab that views pages |
| `PageTree` | the sidebar |
| `AccessTree` | the tree of boxes of one subject's rules |
| `ListScreens` | every screen that lists rows |
| `Forms` | every form, dialog, tab and switch |
| `TabScreens` | rooms, editors, lists and forms of one tab, in general |
| `MCBrowser` | those and the two trees side by side, and the instances TLC checks |
| `ScreenProofs`, `BrowserProofs` | the invariants of `TabScreens`; theorems about `MCBrowser` |

**`EditorSession`.** A content is a set of texts, each typed once. `versions` is the page;
an editor has a text and the version it is based on. `Load`, `Join`, `Type`,
`Erase`, `Receive` (an event: ask for a merge), `AnswerPreview`, `ApplyPreview`,
`Submit`, `Commit` (the save, merged on the server), `Settle`; `Reconnect`,
`LosePreview`, `LoseSave` are the failures. `PageStore` has the handlers of the
server interleaved; here each is a step and the network is what takes time.

- `TextKept`: whatever is late, lost or reordered, a version drops no text of the
  one before that nobody erased (`OthersTextStays`). With answers in turn and
  nobody typing meanwhile, no text leaves an editor either (`TextStays`). What is
  typed while a preview is under way is lost when it is applied, which is why the second
  has that premise.

**`PageRooms`.** The address, the requests for the page and its comments, the socket
with its joins and leaves, the checks the gateway awaits, the events. `PageIsTold`:
a settled tab is in the room of its page, and shows the last version and
comments or a banner. `unheard` records the changes no event could tell: those
between the answer of the page and the end of the join, and those while the
socket is down. The property speaks of the others.

**`PageTree`.** The sidebar's pages and their titles. `ListPages`, `Filter` and
`Answer` serve the tree query by query; a page is moved, created, deleted, published
or renamed in between. `Signalled`, `OwnAnswered` (the editor's own move, a page one
has created) and `Recognised` (a sign-in) ask for it again.

- `TreesTell`, its part, at every moment and whatever is under way: a tree that was
  asked for since the last change (`Current`) is the one the user has on the server,
  titles included; after every change the application tells of, with the connection
  up, a new tree was asked for (`TreeIsCurrent`); in a current tree a link leads to the
  page it stands for, marks it, and the parents offered for a page are ones a move
  accepts (`LinksLead`).
- `Rename` emits nothing: `updatePage` compares the new title with that of the entity
  `merge` has already put it into. So no tree is asked for, and run `browser_rename` refutes
  `SidebarFollowsRenames`: see the [findings](#findings).
- Nobody is told of a change of rights either; a signal is lost with the socket; and the
  answers are shown in the order they arrive, so that an older one may come last and stay.
  `TreeIsCurrent` says nothing of the sidebar in these three cases (`untold` records the first
  two): the code repairs none of them.

**`AccessTree`.** A click computes one request from the rules shown (`Check`, `Uncheck`,
`ChangeActions`, `ToggleScope`, `ToggleWholeWiki`), the server serves it with the
handlers of `AccessRules` as steps, and the answer is merged into what is shown
then. The boxes stand on the pages the administrator may read (`Listed`): `chain`, `Children`
and `Boxes` are of that tree, in which a page whose parent is hidden is a root, while
`Up` and `Subtree` are the server's.

- `TreesTell`, its parts: a box tells what the server grants on the rules shown
  (`ShownIsGranted`, `BoxTellsAccess`), for every page no rule about a hidden page bears on
  (`Seen`); what is shown is stored, or about to be. The tree keeps its own copy of the
  coverage rules (`utils/access-rule-coverage.ts`), translated separately from
  `AccessEvaluation`'s: `ShownIsGranted` is their comparison. Of a rule or an exclusion on
  a hidden page above, the tree sees nothing, and its boxes below that page tell less,
  or more, than the server grants.
- `ClicksStayBelow`: one click at a time changes nothing outside of its subtree, hidden
  pages included; the second of two quick clicks sends the list of exclusions of before
  the first, and overwrites it.
- The search box of the selector filters the tree (`filterTree`); boxes told by the
  filtered children alone are not in the model.

**`ListScreens`** describes 23 screens by how they treat a filter, a page, a selection
and a change of their own (`Description`), with the requests as one set: `Filter`,
`Timeout`, `GoToPage`, `LoadMore`, `Tick`, `Change`, `Serve`, `AnswerLoad`,
`AnswerEdit`, `Fail`. `ScreensTell`, its part: at rest the rows shown are those of the
filter and the page the screen names, and what is selected is shown. `crossed` and
`disturbed` record answers that overtook each other on screens that drop none, and
changes of others.

**`Forms`** describes each kind of form by what it locks, guards, keeps and
reveals: `Open`, `Close`, `Type`, `Press`, `Choose`, `Serve`, `AnswerOk`, `Fail`,
`CloseSecret`, `Remount`. `ScreensTell`, its part: one request at a time where the code
promises it, what is known is stored, no form that hangs, no secret replaced
unread. `TextKept`, its part: an answer takes away nothing it did not send, in forms
that lock their inputs.

## Runs

| Run | Shows | Distinct states |
|---|---|---|
| `pages_serial` | the serial properties of the page store, the refinement and liveness | about 278,000 |
| `pages_concurrent` | the interleaved properties of the page store | about 249,000 |
| `pages_edit_race` | refutes `NoEditOverwritten` | about 1,000 |
| `pages_reserved` | refutes `NoReservedSlug` | about 57,000 |
| `access` | the answers agree; rows stay well-formed and refer to rows; grants within the caller's reach | about 171,000 |
| `access_search` | refutes `SearchFindsReadable` | stops at the first |
| `identity` | passwords, administrators, tokens | about 938,000 |
| `content` | attachments, avatars, comments, tags | about 1,190,000 |
| `service` | migrations, seed, guards and audit, sessions of a tab, releases, and that answers come | about 693,000 |
| `service_search` | refutes `EveryoneSearches` | stops at the first |
| `browser` | editors, open pages, sidebar, boxes, lists, forms | about 962,000 |
| `browser_rename` | refutes `SidebarFollowsRenames` | stops at the first |

A run passes when TLC finds no error; the passing runs fire every action and every
disjunct of the next-state relations they use. Deadlock is not checked: every
run has bounds on its calls, faults and changes, and a behaviour may end there.

### Bounds

**Page store.** Five page ids and five version ids, three of each used by the seeds, so
two calls can create two more; two handlers, each serving one call; three seeds
(a chain, a fork, two roots). Two handlers suffice for a race, and two calls in
sequence for an operation on the result of another; a chain of three pages is
the shortest with a grandchild, which a cascade must reach. `MaxDepth` bounds
the depth of a descent: interleaved handlers can close a cycle, and then the
code descends forever. Serially the rows stay a forest of at most five pages
with at most two created, and no reachable descent exceeds four levels
(otherwise `HandlersFinish` would fail). Symmetry is not used: the seeds
distinguish the ids.

**Access.** Three pages, two groups (one may be created), three rule ids
(one may be created), a manager who holds `user.manage`, an administrator, a
member, and an inactive member; three actions, of which one is neither `page.read`
nor `page.manage_permissions`. Run `access` has three parts. Part `answers` enumerates
states rather than handlers: a chain of three pages, all rules on any page or on the
whole wiki with any set of exclusions below it, one held directly and one through a
group, and one change of the tree after that. Two rules suffice because every answer is
a disjunction over rules: two show one rule hiding or implying what another grants.
Three pages are the least with a page between an excluded page and the rule's. Parts
`inTurn` and `interleaved` serve two calls each, with one change of the tree; two
handlers are the least for a race between a check and a write, and symmetry over them is
sound as no property tells them apart. In `interleaved` every statement that a foreign
key can refuse is refused on some path. The invariants are checked in all three parts,
`GrantsWithinReach` in `inTurn`. `access_search` allows two tree changes: the excluded
page moves out, the rule's page moves below it.

**Identity.** Logins: a lock after two failures and of two seconds. At once
(`WithinOneLock`): two handlers, one password, and as many half seconds as no lock can
end in, so that every guess counts. In turn: five half seconds and two passwords, so
that a lock ends and the account is locked again, and a password changes in the second of a session
and in another. Accounts (`AtTwoHandlers`): two administrators, the second active or not, a manager, a free
id, two handlers. Starts (`OnlyStarting`): no administrator, and three backends, since a third is
the least that can find what a first made after a second looked. OAuth: one
code, three tokens (a grant, its rotation, one more), two clients, users and
proofs, two handlers, a code's life of one and a token's of two in a time of two. Ids that
only their equality tells apart are permuted by symmetry.

**Content.** Media: three handlers, two attachments and objects, two pages.
Avatars: two users, two extensions, one backfill beside two calls (`CalledOnly`
keeps the third handler idle), or
three calls in turn.
Comments: three comments (a root, a reply, one more of either), two users of whom one
moderates, two handlers, two changes of what is there, one list at a time.
Tags: one page, two names, two tags ever made, two panels with one call each, or
one panel with two calls at once that is opened again, and one fault.

**Service.** Seed: three pages one below the other and twelve ids, over three
upheavals (crashes, upgrades, changes by people); two pages for the liveness. Schema: two
users and a page with one crash, one user without. Gate, one instance in three parts: one
request through every route and tool by an account with all rights but one (`PastDoors`),
which is what a forgotten check would let through; two requests while an account or key
is withdrawn (`Withdrawing`); a tool called with a key or an OAuth token while up to two
writes of the log fail (`Auditing`).
Tab: three requests and two expiries while nothing fails, two of each and two mishaps.
Editors: two, when nothing is lost. Versions: three releases of which the second runs, one with
greater digits in lower places (`1.9.5` and `1.10.0` compare otherwise as texts), two tabs, answers kept for two and
failures for one, a patience of one, a time of four.

**Browser.** Rooms: two pages, three requests, two reloads, one change, one drop. Editors:
two, with two texts to type, three versions, two previews and one erased text, of which each
part takes less (`EditWithin`). Boxes: a chain of three pages with a click at a time; of
two with two requests at once, opened again or beside the panel of a page; and a chain
of three of which the administrator may not read the middle one, opened on any one rule
for the first page, the hidden one or the whole wiki with any exclusions below
(`hiddenPage`). Sidebar: three pages, two of one slug, two titles, two changes, two
requests, one trouble: a tree asked for before a change and one after it can cross. Lists: three rows of two
kinds, one per page, three requests, one change by others. Forms: two values, three requests.

### Fairness

`SerialSpec` of the page store assumes weak fairness of each handler's step. An await on
the database settles (an answer or an error) and Node's event loop resumes the
handler; nothing else can disable the step meanwhile, as the handler runs alone.
`MCService` assumes weak fairness of `Works`: Docker's restart policy starts what has
ended, and a start takes its next step; the server goes on with a request it serves;
a request of a tab is answered, by the browser's timeout at worst. For the two
editors, of `Serves` and `Arrives`, each editor's own: what one waits for is served, and an answer
or event that was sent arrives, in the part where nothing is lost. No fairness is
assumed of clients, of people or of faults, and none in the other specifications.

### Findings

- `NoEditOverwritten`. The changelog promises a three-way merge of concurrent
  saves instead of the last writer winning. The base version is compared with
  the version loaded at the start of `updatePage`; two saves that both load
  before either commits are not merged, and the second replaces the first.
  Both versions stay in the history.
- `NoReservedSlug`. The changelog says slugs that collide with API routes are
  refused at creation and at a move. A move checks the page that moves; its
  children come along unchecked, so a page named `stats` can end up directly
  below a root page.
- `SearchFindsReadable`. `getReadablePageIds` removes everything below an excluded
  page from what a rule grants; `can()` only looks at exclusions between the page
  asked about and the rule's page. They agree as long as exclusions lie below the
  page of their rule, which `validateExclusions` checks when they are written and
  no move checks later: once the excluded page is above the rule's, `can()`
  grants the whole subtree, and the ids lack all of it.
- `EveryoneSearches`. For a reader who may not read every page,
  `search/persistence/typeorm.search.repository.ts:56` and
  `media/persistence/typeorm.attachment.repository.ts:66` filter by `is_published`, a column
  that migration `1789400000000-MergeIsPublishedIntoVisibility.ts:11` drops. MySQL refuses both
  queries once it has run. The changelog promises such readers the public pages and what
  was granted them. The run starts from an empty database and applies the migrations.
- `SidebarFollowsRenames`. The changelog says that the sidebar follows a page that is renamed.
  `pages.service.ts:484` signals a change of the tree when `dto.title` differs from
  `page.title`; by then `typeorm.page.repository.ts:87` has merged the new title into that very
  entity, so they never differ and nobody is told. The unit test of it
  (`pages.service.spec.ts:398`) replaces the repository by one that returns a copy. The
  run shows a sidebar at rest, nothing lost on the way (`Settled`), with the old title.

## Proofs

### The page store

`PageStoreProofs` proves, for every set of pages, versions, handlers, calls and
seeds that satisfies the assumptions of `PageStore`:

- `TypeCorrect`: `Spec => []TypeOK`
- `CurrentVersionIsOwned`: `Spec => []CurrentVersionOwned`
- `HistoryAppendOnly`: `Spec => VersionsAppendOnly`
- `SlugsUniqueUnderParent`: `Spec => []SlugUniqueUnderParent`
- `MergeKeepsBoth`: `Spec => MergeKeepsBothSides`

Assumptions: `Null` is none of the ids, rows, calls or contents; the calls are
well-formed; each seed is a well-typed database whose pages own their current
versions and whose slugs respect the index; `MaxDepth` is a natural number.

The argument. `CurrentVersionOwned` is not inductive: a save may write back the
current version its entity was loaded with, however old. So `Inv` says it of
every entity a handler holds: the one to be saved (`Holds`) and those waiting in
the frames of a cascade (`StackOwned`). Versions are only added, so what a
handler holds stays owned while others run. `Control` ties each step to
the call it serves and to what it has loaded (a handler at `select` holds an
entity of its cursor; one with a version to save has its text). `TypeOK`,
`CurrentVersionOwned`, `StackOwned` and `Control` are inductive together, with
one lemma per action. Slug uniqueness is inductive on top of `TypeOK`, since every
write passes the index. For merges, `MergedText` says that a handler past
`MergeWithBase` holds a text that keeps both sides relative to the version it
loaded; the version rows it speaks of never change.

### The page store, one call at a time

`PageSerialProofs` proves, for the same constants and the schedule of
`PageProperties!SerialSpec`:

- `MovesCloseNoCycle`, `ParentsOfLiveAreLive`, `PathsNameOnePage`:
  `SerialSpec => []Acyclic`, `[]LiveParent`, `[]LiveSlugsUnique`
- `TitleIsCurrent`: `SerialSpec => []TitleOfCurrentVersion`
- `VisibilityReachesSubtree`: `SerialSpec => VisibilityCascaded`
- `VisibilityOnRequest`, `DeletesOnlyDeletable`:
  `SerialSpec => VisibilityChangesOnRequest`, `OnlyDeletableDeleted`
- `HandlersAreAtomic`: `SerialSpec => ImplementsDocument`

The argument. The invariant says what the handler under way has read at each of
its steps (`Fresh`: the row it loaded is the row; `Intended`: what it saves differs
from the row only as its call asks). Since no other handler writes, it is still
true at the write, which is exactly what fails when they interleave. For
cycles, `MovePath` has the set of ancestors the walk of `movePage` has seen: they
lead from the new parent to the next page of the walk, and the moved page is not among them.
When the walk ends they are closed under parents. Acyclicity is stated the same way (among
any pages there is one whose parent is not one of them), so the proof needs no induction
over the tree. `BuiltSeedsAssumption` says that a behaviour starts from a forest with unique paths.
For a cascade, the frames account for every child: a page below the
one being deleted is deleted, in a frame, or still to be read; and (`Reached`) a live child of
a page whose visibility was changed has it too, or is in a frame, or will be read. When
the frames are empty nothing is left, so the whole subtree follows without an induction over it.
For the refinement, each step maps to a stutter but the one that serves
the call, and there the merged text of the handler is the document's, because the
version it merged with is still current.

Only model-checked: `HandlersFinish` (liveness).

### Access

`AccessProofs` proves, for every set of pages, users, groups, rules, handlers and
calls and for every seed that `SeedsAssumption` admits:

- `AccessTypeCorrect`: `Spec => []AccessTypeOK`
- `RulesAreWellFormed`: `Spec => []RulesWellFormed`
- `ReferencesAlwaysHold`: `Spec => []ReferencesHold`
- `AnswersAlwaysAgree`: `Spec => []AnswersAgree`
- `SubtreeReachIsSound`: `Spec => []SubtreeReachSound`
- `SearchFindsWhatCanReads`: `Spec => []SearchFindsReadableBelow`

Assumptions: `Null` is none of the ids, rows, calls or sets; users, groups and
pages are apart; the calls are well-formed, and one on a page's route names that
page; a seed is a well-typed database whose rules are normalized, whose rules
for one page have no exclusions and whose rows refer to existing groups;
`MaxTreeEdits` is a natural number.

The answers. `Chain` is a least fixpoint, so what is needed of it (it is closed,
transitive, and linear: of two ancestors of a page one is above the other) follows
from its definition without induction. Linearity is the
heart of `SubtreeReach` and `CoversAsIds`: an exclusion above a page in the
subtree is above or below the page the rule was tested on, and the code tests
one of these cases only. `SubtreeReachSound` needs nothing of the tables.
`AnswersAgree` needs only their types. `SearchFindsReadableBelow` needs
`RulesWellFormed` and its premise, and is where the finding comes from: the proof
does not go through without it.

The handlers. `RulesWellFormed` and `ReferencesHold` are not inductive: a handler
writes what it checked some steps before. The invariant `IInv` adds `Control`,
what a handler still knows of its call and its target at each step (exclusions
are pending for a one-page rule only if they are empty), and `IdsSpent`: an id in
use was given out. Since no id is given out twice, the rule a handler looked up
is at its write the same rule, with the same scope, or gone (`RulesStable`), and
then the foreign key refuses the write. One lemma per action; `ControlAfter`
carries what the other handlers know across the step.

Only model-checked: `GrantsWithinReach`, for its serial schedule: what a write can
add to `Holdings` is a case of every statement over every way to hold an
action, through exclusions of a tree whose ancestors are a least fixpoint.

### OAuth

`IdentityProofs` proves of `OAuthFlow`, for every set of clients, users, codes, tokens, handlers
and every expiry:

- `TokensAreSound`: `Spec => []TokensSound`
- `GrantsRevokedForGood`: `Spec => [][RevokedForGood]_vars`
- `OneLiveTokenInTurn`: `SerialSpec => []OneLiveToken`

`OAuthAssumption`: the times are natural numbers and `Null` is none of the ids, rows or
calls. `CodeYieldsOnce` is not inductive: the invariant says where a grant is,
waiting as a code, with one handler that will create its token, or in the
table (`PendingIsGranted`, `IssuedIsGranted`), and `Exchange` moves it from the first to the
second in one step. That is why the code's order, taking the code out
before anything is awaited, is what makes it serve once. For the rotation, in turn, a
handler between `Revoke` and `Create` has revoked the only live token of its grant.
`GrantsRevokedForGood` holds under every interleaving: what can still come
alive is in the hands of a handler that found it live before.

### Identity

`IdentityProofs` proves, of `MCIdentity`'s behaviours:

- `PasswordsAreGuarded`: `Behaviour => PasswordsGuarded`, for every limit of failures,
  length of a lock, number of passwords and set of handlers
- `AdministratorsAreKept`: `Behaviour => AdministratorsKept`, for every set of accounts,
  addresses, managers, backends and calls and every table to begin with
- `GrantsDoEnd`: `Behaviour => GrantsEnd`, for the constants of `OAuthFlow`

`SessionsAssumption`: the limit, the lock and the sessions' life are positive numbers, the
handlers are finitely many, and `Null` is no number, row or call.
`AccountsAssumption` says the same of the table's ids, rows and calls, and that the seeds are
well-typed tables in which no address occurs twice. The parts keep the schedules they have in
the run: `WithinOneLock`, `AtTwoHandlers` and `OnlyStarting` are part of what is proved. So of logins
at once, the theorem speaks of the time a first lock may last.

Passwords, at once. That a lock lets through at most one guess less than the limit and one
per handler is not inductive: `registerFailedLogin` increments first and reads the
count later. `FailuresCounted` counts handlers. Before the lock, each failure past
the limit has a handler that has incremented and will lock (`Counted`); under it, whoever
may still fail compared a row it had read before (`Guessing`), and nobody can start to.
Each step moves one handler from one kind to another, and the lemmas on
cardinalities (`OneMoreOrLess`, `KindsMove`) say what that does to the sums.

Passwords, in turn. A lock has the failures for it because whoever is about to
lock has counted them (`LocksEarned`) and none else writes. For the sessions, each token
tells of the password it was opened with (`TokenTells`): of an older one, it is of the second of
the change at the latest. What is left is arithmetic: `iat` is cut to the second and
`passwordChangedAt` rounded to it (`HalvesOfSeconds`, `LaterSecond`).

Administrators. A handler decides by what it read some steps before, so `CheckedCall` keeps with each of its
steps what was checked by then, about the row it read. That suffices, under every
interleaving, for `AdminsMadeByAdmins`, which speaks of the role a call names.
In turn the row that was read is the row there is, and when the write
comes another active administrator was counted (`StillTrue`). That two
starting backends make one administrator rests on the unique index: `Starting` says that an
administrator then has the default address, and `OneEmailEach` that only one account has it.

Grants. One half is `OneLiveTokenInTurn`, the other `GrantsRevokedForGood`; both invariants are carried
through the composite.

### Media

`ContentProofs` proves of `MediaStore`, for every set of attachments, objects, pages and handlers:

- `MediaIsSound`: `Spec => []MediaSound`
- `EmbeddedObjectsStayInTurn`: `SerialSpec => [][EmbeddedObjectsStay]_vars`

`UuidAssumption`: `Null` is no id, and the ids of rows and objects are apart, as drawn uuids
are. The invariant is about who has an object: an upload's is in no
row and with no other handler (`UploadsOwn`); a deletion's is that of its row, or gone
from both stores (`DeletionsFollowRows`). In turn, nobody edits a page
between the look for references and the removal.

### Avatars

`ContentProofs` also proves `FilesAreKept`: `Behaviour => FilesKept`, of the composite, for every set
of users, extensions, handlers and every number of backfills. For its part of media it is
`EmbeddedObjectsStayInTurn` again. For the avatars the invariant `AvatarsInv` depends on the part.
At once, types suffice (`AvatarsKnown`): the update of the backfill asks again whether the
row is empty. In turn, there is one call or one backfill (`OneCall`), the files it lists are
there (`FilesListed`), and while no call is about a user, a row names a missing file only after one
that failed (`BrokenByFailure`). Without failures (`OneFileEach`), the bucket holds what a call has yet
to erase, then nothing, then the new file.

### Releases

`ServiceProofs` proves of `VersionCheck` `ReleasesWatched`: `Spec => []ReleasesAreWatched`, for every set of
versions, users and tabs and every length of the caches. What the release
server answers was its last release at some moment of the request, so the invariant
relates the cache to the request it came from (`CacheIsPrevious`,
`RequestsWait`) and that to the last publication (`OfferedIsRecent`, `KeptIsRecent`). That
`isNewer`'s comparison of three numbers is an order is a lemma about
digits (`GreaterDigit`), which needs only that they are below `Radix`.

### Service

`ServiceProofs` proves, of `MCService`'s behaviours and under its `ServiceAssumption` (those of the
components, and that the request of the parts `doors` and `audited` is one of `Entrants`):

- `SessionIsRenewed`: `Behaviour => []SessionRenewed`
- `GateIsSound`: `Behaviour => []GateSound`
- `SeedGetsThrough`: `Behaviour => ContentSeeded`

The tab, for every finite set of requests and every number of expiries and failures. That who
waits waits for a refresh under way is inductive by itself: the answer of a refresh, whatever it is,
lets all go on in one step. In calm (`CalmSession`), a request goes with the cookies of
the living session, one that is sent again with an access token too, so it is served.

The gate, for every set of accounts, keys, sessions, rights, routes and tools. `RightHeld` speaks of
what was so at some moment of a request, so the invariant `GateKnown` has two halves: what a
request recalls of its account, its rights and its key was so at a moment since it
came; and each right its operation needs is one it recalls, or one the handler will
still look up before it acts. The second half is where the list of routes and tools is used:
each has to ask for what `Needs` says. The audit's part is about what a request
at each step has written, or failed to.

The seed, for every set of pages and every part of the release's tree that has the parents of its
pages; the argument follows that tree's three levels. A start writes page by page, people change pages before
and after. The invariant `SeedKnows` says that the pages the start has visited stand in their
place and have the text of the release, but for the one the start is at, whose step says how
much of it is written. Nobody else writes until the server is up, and what the start writes to one
page leaves the others where they are (`SamePlaces`).

### Browser

`BrowserProofs` proves, of `MCBrowser`'s behaviours, from the invariants of `ScreenProofs`:

- `PageTold`: `Behaviour => []PageIsTold`, for every set of pages and every number of requests,
  changes and dropped sockets
- `ScreensShow`: `Behaviour => []ScreensTell`, for every set of rows, kinds, page size and values, over
  the screens and forms there are
- `TextIsKept`: `Behaviour => TextKept`, for every set of editors and texts, within the bounds of
  `EditWithin`

`ScreensAssumption` is that of the editors, the lists and the forms; `RoomsAssumption` that of the
rooms; `BrowserAssumption` is about the trees of boxes, of which nothing is proved.

An open page. A change is stored, then told, then asked for. `RoomsInv` follows it: what is
shown is what is stored, or an event about it is in the inbox, or an answer that has it
is on the way, or nobody told the tab (`unheard`). A join or leave that is on its way is the one
the address asks for.

Lists and forms. Of a list (`ListsInv`), one request is awaited, and what its answer says, or the rows shown,
are those stored, but for the screen's own change under way. Of a form (`FormsInv`), what the server carried
out is known, or its answer is on the way or lost; who waits, waits for an answer
that lets the form go.

Editors. Several hold texts of different versions. `EditInv` says of each place a text can be
in (an editor, a preview asked for, a save on the way) that it lacks nothing of the version
it came from but what was erased, so the merge, which takes out only what was taken away
from that base, drops nothing of others. In turn (`TurnInv`), what an editor shows and the
preview it waits for differ by what is in the page only.

### What is only model-checked

- Liveness (`HandlersFinish`, `Answers`), as `ENABLED` and fairness are beyond the provers.
- `GrantsWithinReach`, for the reason above.
- `SchemaSound`: what the 28 migrations do to sets of rows, statement by statement, from the database
  of every release. It is one fixed sequence, which the run goes through whole; only
  the sets of users and pages could be more general.
- `TreesTell` and `ClicksStayBelow`: the boxes, the breadcrumb and the links are walks over a tree,
  recursive functions whose facts need an induction over data.

## Disagreements without a run

Each of these was met while modelling; the runs above state what holds beside
them. All paths but the frontend's are relative to `src/backend/src`.

**Media and avatars**

- `media/services/media.service.ts:115` looks in pages for the uuid of the object's
  key, but what the editor and the MCP tool write into a page is
  `/media/<attachment id>/raw`, with the row's id. The check never matches those: an attachment
  that pages embed is deleted, though `media.controller.ts:236` documents a 409.
  `EmbeddedObjectsStay` is of links by object.
- `users/services/users.service.ts:599` swallows every storage error, not only a missing
  file: a removed avatar may stay stored, and the backfill brings it back.

**Identity**

- `users/services/users.service.ts:498` counts before it writes, outside a transaction: two
  administrators who remove each other at once leave none.
- `auth/services/auth.service.ts:164` compares a rounded `passwordChangedAt` with a truncated
  `iat`: a session opened in the second in which the password is then changed
  passes for its seven days.
- `mcp/services/oauth-flow.service.ts:109`: two uses of one refresh token at once both
  pass, and leave two live tokens.

**Comments and tags**

- `comments/services/comments.service.ts:264`: a reply created between the look for replies and
  the removal stays without its thread; the table has no foreign key.
- `comments/persistence`: `save` of an entity whose row is gone inserts it, so
  a comment a moderator has just removed comes back with its author's edit.
- `comments.service.ts:216` purges without an event, so that open pages keep showing
  the comments; the interleaved part of the model has no purge for that reason.
- `comments.service.ts:103` edits deleted comments, and their words are sent to every reader.
- `frontend/src/hooks/useComments.ts` applies its lists in the order they arrive, whatever order they
  were asked in.
- `tags/services/tags.service.ts:40`: a name taken between look and insert is
  answered 500 instead of the documented 409.

**Start and schema**

- `database/content-seed.ts:1127`: a deleted page of the seed keeps every start
  from coming up (see `ContentSeed`).
- A start broken off inside that migration, and others whose statements MySQL refuses
  twice, keeps the container down, though `docs/deployment.md:13` calls every step
  idempotent.

**Guards and audit**

- `mcp/interceptors/mcp-audit.interceptor.ts:33`: a call that was done and whose line, or whose key's
  date, could not be written is logged and answered as a failure.
- `mcp/persistence/typeorm.mcp-audit-log.repository.ts:31` joins lines with API keys: calls by OAuth
  tokens are never listed.
- `mcp/mcp.controller.ts:66`: a session keeps the scopes of the key it was opened with.

**Browser**

- `frontend/src/pages/PageEditor.tsx:101` replaces the text by the merge of what stood there
  when the event came: what was typed meanwhile is lost. `usePageRealtimeSync.ts:45`
  applies previews in any order. `PageEditor.tsx:163` sends the title of the form with
  every save, which undoes another's change of the title.
- `frontend/src/lib/api-client.ts:35`: the 401 of a login with a wrong password starts a refresh, and
  the form shows the refresh's error. `AuthProvider.tsx:48`: signing out leaves the socket
  connected as the user; registering does not connect it anew, nor does anything after
  the server has ended it with an expired token.
- `PageAccessTreeSelector.tsx:169` sends the exclusions of before the click: a second quick click
  undoes the first. A box excluded by an ancestor's rule keeps the exclusions
  below it when it is checked (`:140`); one with a rule of its own, when it is unchecked, loses the rule and
  stays readable if another covers it (`:158`).
- `frontend/src/components/AdminGroups/MembersTab.tsx:69` sends the whole list of members: an
  addition during a pending removal adds the removed member again.
- A version saved between a page's answer and the end of the join, or while the socket is
  down, shows no banner (`realtime/pages.gateway.ts:87`); a leave that
  arrives while the join is being checked is undone by it; a reload that is answered after its page was left
  clears the banner of the next (`PageView.tsx:111`).
- `frontend/src/components/PageTreeProvider.tsx:31`: the sidebar shows its answers in the order they
  arrive, an older one last, and asks for nothing when the socket is back, so that what
  changed meanwhile stays unseen.
- The boxes of `PageAccessTreeSelector.tsx:47` stand on the pages their administrator may read: a
  rule or an exclusion on a hidden page above is not told by them, while the server goes by it.
- `findNodeByPath` of the sidebar finds the wrong page when a page whose parent is hidden is listed as
  a root beside another with its slug.
- `MediaLibraryPicker.tsx`: after one's own deletion "load more" skips a row (`:105`), and after a failed reload
  it appends rows of the new filter to those of the old (`:66`). `AdminUsers.tsx`: with the
  last row of the last page deleted the list is empty without a pager, and a selection made in the 300 ms of
  the debounce outlives its rows (`:74`).
- `frontend/src/hooks/useComments.ts:21` and `CommentThread.tsx:17`: a reload takes away the thread, and
  with it a comment being typed.
- The answer of a request of a closed dialog closes or blanks the dialog opened
  again; `CreateUser` forgets that it is waiting, so that a second creation replaces the first's
  temporary password before it was read.

## What the models leave out

- The view counter, follows, timestamps, authors and change summaries: no
  decision of a handler depends on them.
- The activity and audit logs of the site: one insert each that nobody awaits. The audit of
  the tools is `ApiGate`'s.
- Errors of the database other than keys and indexes in `PageStore` and `AccessRules`. A step
  that fails ends the handler there, which the interleaved runs cover as a handler that takes no
  further step: those specifications have no fairness.
- The text of merges, diffs and Markdown; the contents of seeded pages.
- The SQL of search and of the library but for the columns they name
  (`SchemaHistory`) and the ids they filter by (`AccessEvaluation`).
- Throttling, exception filters, the captcha and the check for breached
  passwords: they only refuse. What `tools/list` shows, and the consent screen of OAuth.
- In `ApiGate` one page stands for all; what an operation then does is its own module's.
- In `AccessTree` the filter of the selector's search box, and the panel of a page as a list of its own; rules are a set.
- The title, the moves and the switches of the editor's form; the text and the login in
  `Forms`; membership screens of groups, whose server side is `AccessRules`.
- Statistics, meta previews, configuration, security services: they keep no state.

## Plan

Done: every module above; the theorems of eight proof modules.

Next:

1. `GrantsWithinReach` of the serial schedule, proved: a lemma per write on how `Holdings` can grow.
2. `SchemaSound` proved for every set of users and pages, with a lemma per kind of statement.
3. The boxes' parts of `TreesTell`, with ancestors as a least fixpoint, as `AccessProofs` has them,
   in place of the recursive chain.
4. A composition of `PageStore` with `AccessEvaluation`, in which a handler's `Authorize` is
   decided by rules instead of a choice. It would relate the two largest models; every answer it
   could give is among the choices `Authorize` already has.
