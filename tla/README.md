# Verification of Filterest

TLA+ models of the stateful parts of Filterest: of its server (`src/backend`, Go, on PostgreSQL) and of
its single page application (`src/frontend`, JavaScript), the TLC configurations that check them on
small instances, and theorems about them proved with TLAPS. Paths of server code below are relative to
`src/backend/core_components/`, those of front-end code to `src/frontend/core_components/`, unless they
start with `src/`.

1. [The system](#the-system)
2. [Plan](#plan)
3. [What the modules model](#what-the-modules-model)
4. [What the runs check](#what-the-runs-check)
5. [What is proved](#what-is-proved)
6. [What is not modelled, and why](#what-is-not-modelled-and-why)
7. [Findings](#findings)

To check a run: `tlc -config RowMedia.cfg RowMedia` (the module and the configuration of each
run are in `PROJECT.json`). To check the proofs: `tlapm RowMediaProofs.tla`, and likewise
`Payments.tla`, `Otp.tla`, `TableView.tla`, `ServerProofs.tla`, `FilterBar.tla`,
`FrontProofs.tla` and `Desk.tla`.

## The system

Filterest is a multilingual data platform: user-defined tables with their media, search, roles
and permissions, sign-in with e-mailed codes and TOTP, payments, and administrative tools. A Go
process serves a vanilla JavaScript front end. All durable data is in one PostgreSQL database, used
at READ COMMITTED, and in two directory trees, `storage/` and `storage_deleted/`. Several replicas of
the process may run against the same database; inside one, each request is a goroutine.

### Components of the server that keep state

| Component | State | Operations | Interacts with | Hard behaviours | What makes it correct |
|---|---|---|---|---|---|
| Request transaction: `dbutils/tx_context.go`, `middlewares/with_transaction.go` | one lazily opened transaction and two hook lists per request | `RequireTx`, `AddAfterCommitHook`, `AddAfterRollbackHook`, commit on 2xx/3xx, else rollback | every mutating handler | response written before COMMIT; COMMIT fails or its reply is lost; hooks run after locks are gone; crash between commit and hooks | files and events follow what the database did |
| Row mutations: `dynamic_table_tools/dtt_1_row_crud` | rows, files, cached previews | add with files, update, delete, delete of a parent | request transaction, asset linking, storage archive, event bus | plans read without locks, cascades, file operations outside the transaction | a committed row keeps its file, no medium is destroyed, no rolled-back upload stays |
| Asset linking: `dynamic_table_tools/dtt_asset_linking` | `cached_image` of the parent | recompute the preview, resolve a storage location | row mutations | read of the preferred image and write of the parent are separate statements | a preview is an image that was committed, and one of the parent's own |
| Storage archive: `storagecleanup` | `storage_deleted/` | move a path, prune, archive unknown paths | commit hooks of deletions | destination exists, copy fallback between file systems, crash in the middle of a copy | nothing is lost between the two trees |
| Event bus and SSE: `event_bus` | subscriber channels (32), connection counts (64) | `Publish`, `Subscribe`, stream | commit hooks; front end refresh | slow subscriber's channel is full and events are dropped; unsubscribe during publish | subscribers are told of what is true, and a dropped event is not the last word |
| Payment gateway: `payment_gateway` | payment rows; the provider's orders | create, webhook, status request with poll, completed callback | external provider, external application | webhooks late, twice, reordered, overlapping creation; callback refused; crash between statement and callback | the row never runs ahead of the provider; a completed payment is told, in the end and not before |
| One-time passwords: `otp/otp.go` | the challenge of a user and purpose, send slots | reserve a send, create, revoke, verify | login, password reset, profile handlers; mail server | concurrent guesses and sends on several replicas, `NOW()` older than the lock, late mail failures | a code is used once, in its budget and time; sends stay within the limit |
| Sign-in: `auth`, `sessions` | session cookie with the pending login, login attempts | password, code, promotion, reset | one-time passwords | the steps of a login come as separate requests, in any order | no promotion without each step of the same login |
| First administrator: `auth/first_run_admin.go` | users, roles, the setup flag | create the first administrator | sign-in | requests race on an empty database | one administrator, with all the grants or none |
| Rate limiting: `src/backend/pipeline/rate_limiting` | timestamps per route and client, cached limits, clean-up goroutine | admit, clean up, reload limits | request pipeline | the limiter's map is shared by all requests and the clean-up; the time is taken before the lock | never more than the limit in a window |
| Firewall and maintenance mode: `middlewares` | special-request counters, a cached flag | count, block, toggle | request pipeline | counters shared with a reset; flag stale on other replicas | a block lasts as long as configured |
| Load balancer: `src/backend/cloud` | node states, health counters, round robin counters, replica pool | pick, route, drain, health check, replica for reading | external nodes | state of a node changes while a request is routed, counters wrap around, data race on failure counts | no request goes to a drained node, the primary is unique |
| Metadata caches: `dtt_1_row_read/get_results_cache.go` | TTL caches of columns, types and keys | read through, invalidate | row mutations and table administration | invalidated inside a transaction that has not committed; a slow reader stores an old value after the invalidation | a stale value disappears after its TTL at the latest |
| Migrations: `migrations/migrations.go` | the table of applied migrations | run the pending ones | startup | crash between a migration and its record, two runners | each migration applied once, in order |
| Queen sessions: `dev_tools` | registry of subprocesses | start, stop, send, list | operating system | exit races stop | no session without its process, none twice |

### Components of the front end that keep state

JavaScript runs a piece of code up to its next `await`, timer or event without interruption; what is
hard is the order of these pieces, since almost no request carries a generation number and few are
aborted. The state is in closures, in the DOM, in `localStorage` and in the URL.

| Component | State | Operations | Hard behaviours | What makes it correct |
|---|---|---|---|---|
| Rows of a view: `table_views`, `infinite_scroll`, `general_tables`, `filterbar/text_search` | rows per container, offset, loading flag, observer, search cache, notices | refresh, scroll, search, open an article | refreshes, fetches, streamed lines and late card batches overlap | pages in order, scrolling never stuck, notices true |
| Open article: `table_views/card_view` | media sections, tabs, the requests a load session shares | hydrate, upload, delete, comment, make primary | sections drawn in awaited steps while others refresh them | what is shown is stored; a primary image stays |
| Grid: `table_views/table_component_builder.js`, `cell_editor.js` | rows, the cell being edited, a range | edit, sort, append, copy | rows are counted anew while a cell is edited | the edited row is the saved one |
| Free layout of cards: `table_views/experimental_free_layout_card` | template in `localStorage`, its working copy, cards, a drag | draw, move, resize, reset, toggle the designer, draw again | cards are drawn across awaits from a copy that a drag changes and the next card replaces | a block has one place, the stored one |
| Filter bar and filters: `filterbar` | panel, chat dock, layout, filters kept in the table state and the URL, tags, field sets | show, hide, collapse, filter, drag sections | animation frames and timers meet later clicks | the panel settles as asked; both stores agree |
| Forms: `gt_1_1_row_create`, `gt_2_column_crud`, `notification_triggers.js` | a shared object of child rows, options of lists | open, fill in, send, cancel | sections of a closed form arrive late | what is sent belongs to the form |
| Navigation and menus: `navigation`, with the server's `dataset_routes` for aliases | the view shown, history, tabs, aliases, folder tree | click, back and forward, drag, rename | a history step asked for and one made by the user; menus built twice | the address and the page agree |
| Session: `auth`, `pipeline`, `route_permission_checker.js`, `user_tools` | phase of the form, token, cached rights, shell, another tab | sign in and out, call, refresh | answers for a session that has ended | what is shown and allowed is of one session |
| Live updates: `endpoints/sse_subscriber.js` | one stream, reconnect timer, delayed refresh | subscribe, reconnect, refresh | page hidden or left between them | what was told is shown in the end |
| Chats: `admin_tools/queen_chat_view.js`, `ai_features/table_chat` | conversation, transcript, streams, saved history | select, send, follow, clear | transcript of a conversation that is not selected any more; unordered saves | one conversation at a time, nothing said is lost |
| Administration: matrices, tabs, triggers, lists, cloud management | drafts, rows drawn with their buttons, questions, leases | choose, change, save, read again, claim, execute | the answer belongs to what was chosen before | saved where shown, run as claimed |
| Views of days and places, languages, dialogs, animated elements | period, markers, texts, questions, heights | move, select, translate, answer, fold | calendar arithmetic, texts in any order, timers against transitions | what is shown is what was asked for |

### Components without state of their own

The router, the request pipeline's checks (CSRF, device, fingerprint, access), registration and
permissions, reading and searching rows, table administration, data retention and consistency
tools, languages, e-mail and start-up do their work in one statement, one transaction or one pass over
their arguments. In the front end, the product cards and charts draw what they are given. Server tools and end-to-end tests surround the program.

`PROJECT.json` lists all of them under `components`, with what is modelled of each, and under
`hazards` what is hard to test, at the line where it bites, with the properties that cover it.

## Plan

The order is that of the damage a mistake does: data and files, money, accounts, availability.

| # | Module | Composes | Abstract specification | Runs and theorems | State |
|---|---|---|---|---|---|
| 1 | `LazyTx`, `RowMedia` | `RowMedia` extends `LazyTx` | properties over rows and files | 5 runs; every safety property of the passing runs | done |
| 2 | `Payments` | | `PaymentLifecycle` | 3 runs; types, row and callback, what is shown and acknowledged, refinement | done |
| 3 | `Otp` | | properties over codes and slots | 1 run; types and every safety property of the run | done |
| 4 | `EventBus`, `MetadataCache`, `RateLimiter`, `LoginFlow` | part of `Desk` | what was published, committed, admitted and proved | run `desk`; `ServerProofs` proves each promise, `Desk` that the server keeps them all | done |
| 5 | `TableView` | | properties over rows, flags and notices | 2 runs; types, the loading flag, the notices, pages in order, scrolling that is not stuck | done |
| 6 | the modules of the front end below | composed by `Desk` | | run `desk` | done |
| 7 | proofs about the front end: `Navigation` with `Aliases` | `FrontProofs` extends both; part of `Desk` | the address names what is shown, and leads back to it | `NvUrlIsShown`, `AlLeadsBack`, and in `Desk` `UrlsLedBack` | done |
| | the same for `ArticleMedia` | `FrontProofs` extends it; part of `Desk` | the open article shows what is stored | `AmStoredIsShown`, and in `Desk` `ArticleStaysAsStored` | done |
| | the same for editing in place: `AdminMatrix`, `Grid`, `TabConfig` | `FrontProofs` extends them; part of `Desk` | what is edited is stored where it was edited | `MxSavesWhereShown`, `GrEditsHit`, `TbOwnTabsStored`, and in `Desk` `EditsHit` | done |
| | the same for the filters: `FilterBar`, `FilterControls`, `Pickers` | proofs in `FilterBar` and in `FrontProofs`, which extends the others; part of `Desk` | what is shown is what is filtered | `FbShowsWhatIsWanted`, `FcFiltersAgree`, `PkShowsTheChoice`, and in `Desk` `FiltersAgreed` | done |
| | the same for the session: `Session`, `LoginForm`, `Permissions`, `ApiClient`, `UserProfile` | `ServerProofs` extends them; part of `Desk` | what is shown and allowed is of one session | `SeTabsShowTheSession`, `LfShowsItsPhase`, `PmRightsAreTheSessions`, `ApRecoversToken`, `UpShowsTheAccount`, and in `Desk` `SessionsAreOne` | done |
| | the same for what a page tells: `LiveUpdates`, `Languages` | `ServerProofs` extends them; part of `Desk` | what is shown is what was told or asked for | `LuTellsWhatIsShown`, `LnShowsTheChosen`, and in `Desk` `ShownAsTold` | done |
| | the same for choices and for what is drawn | part of `Desk` | | `ChosenIsCarriedOut`, `DrawnAsStored` lifted to `Desk` as the server's promises are | planned |
| 8 | `LoadBalancer`, `HealthChecker`, replica choice at wrap-around | `LoadBalancer` extends `HealthChecker` | requests go to a node that was eligible when picked | states changed during routing; the eligibility theorem | planned |
| 9 | `StorageArchive` | refines the atomic move that `RowMedia` uses | one atomic move | crash in the copy fallback; refinement | planned |
| 10 | `Migrations`, `FirstRunAdmin`, `QueenSessions` | | each step once | crash and races at start-up | planned |

## What the modules model

### `LazyTx`: the request transaction

One record of variables per request goroutine. `phase` is where `WithLazyTransaction` is with the
request (handler running, response captured, hooks running), `status` what `StatusCapture` saw, `tx`
what became of the transaction *at the database*, and the two hook lists are `LazyTx`'s own. The
actions follow `tx_context.go`: `Commit` drops the rollback hooks and runs the others; `CommitFails`
has already dropped the commit hooks and the middleware then rolls back; `CommitReplyLost` is the same
path when the server did commit; `Rollback` covers non-2xx answers and panics; hooks run one at
a time, with other requests in between; `ProcessDies` loses every hook.
`RowMedia` conjoins each operator with what it does to the database.

### `RowMedia`: rows, files, previews and events

The committed database is `row` (the parent of each asset), `parents` and `cached`
(`cached_image`); the file system is `live` and `archived`, with `home` saying in whose folder a file
lies. What a transaction has written but not committed is not stored: it follows from the
request's operation `op` and the last statement it executed, `step`. `RowView(r)` is what the
transaction reads, and `AssetLocked`, `ParentUpdated`, `ParentDeleted` and `ParentReferenced` are
the row locks PostgreSQL holds for it. One action per statement or file operation:

| Code | Actions |
|---|---|
| `AddRowMultipartHandler`, `add_row_files.go`, `row_cache_saver.go` | `InsertAsset`, `SaveFile`, `FinishUpload` |
| `UpdateRowHandler` | `UpdateAsset`, `FetchPreferred`, `UpdateCached` |
| `DeleteRowsHandler` on an asset | `PlanDelete`, `DeleteAsset`, `FetchPreferred`, `UpdateCached` |
| `DeleteRowsHandler` on a parent | `DeleteParent` |
| hooks | `RunCleanup`, `RunArchiveFile`, `RunArchiveFolder`, `RunPublish`, `FileHookFails` |
| errors, refusals, deadlock victims | `Fails`, and the refusing branch of each action |

Choices worth knowing: asset ids come from a sequence, so they are not used twice even after a
rollback; asset tables refer to their parent with ON DELETE CASCADE, as the bootstrap schema
declares (tables made at run time say NO ACTION, and there `DeleteParent` would fail while there are
assets); FOR UPDATE and the UPDATE behind it are one step, because the row stays locked between
them; the preferred image is the one with the lowest id, as with default `is_primary` and
`sort_order`; `MovePathToDeletedStorage` is a rename that refuses an existing destination.

### `Payments` and `PaymentLifecycle`: the payment gateway

`Payments` has the provider (`providerState`, and in `outbox` the events it has not seen
acknowledged), the payment row (`status`, `paidAt`), the application (`told`) and the goroutines of the
gateway (`creating`, `handler`). Every SQL statement commits on its own, so a handler is a chain of
places, and any other handler may run between two of them. `CanMove` is the SQL predicate
`paymentStatusTransitionPredicateSQL`. Webhooks are repeated until acknowledged, in any order;
callbacks may be accepted although their answer is lost; the process may die at any place.
The provider and the application are not in this repository: the model has of them what the handlers
rely on.

`PaymentLifecycle` is the abstract specification: a payment opens, may be authorised, ends
once, and its application is told only after completion. `Payments` implements it with
`stage <- status`.

### `Otp`: one-time passwords

The challenge row of one user and profile, the send slots of its bucket, and the goroutines that send
or verify. `bucketOwner` is the advisory lock, `rowOwner` the row lock of SELECT ... FOR UPDATE.
`job[j].began` is PostgreSQL's `NOW()`, fixed when a transaction begins; `MaxDelay` bounds how long a
transaction stays open, and `Tick` may not pass it. A verification that waits for the lock finds, at READ
COMMITTED, the row as it was last committed, or nothing if it was deleted, even when another was
inserted since: so the row has an identity (`challenge.row`) beside the code it holds. `Revoke`
deletes only the code whose e-mail failed. `issued`, `reservedAt`, `tried`, `fate`,
`acceptedAt` and `delivered` are history: what an observer remembers. Nothing reads them but the
properties and the choice of a fresh code.

`OtpAssumption` says that a send window is at least as long as the longest delay of a transaction. The
profiles of `otp.go` have windows of 5 and 15 minutes, and a transaction waits for nothing but
other transactions of two or three statements.

### `EventBus`: the bus and its streams

`ebSubs` and `ebChan` are `EventBus.subscribers`; per stream, `ebHand` is the event each forwarding
goroutine holds and `ebStream` the channel of 64. `Publish` copies the subscribers under the lock; `Send`
is one turn of its loop, a non-blocking send (`Offer`). `Subscribe`, `Take`, `Forward`, `Write` and
`Leave` follow `SSESubscribeHandler`; the channel of an unsubscribed stream stays, for publishers that
copied it. A stream of several tables may lose the last event of one of them to the events of the others:
`LossIsNotLast` speaks of the connection, and `sse_subscriber.js` asks for one table. Order is
kept for each table, not across tables.

### `MetadataCache`: the metadata that each process keeps

One entry of a cache in each process. A load reads by several statements (`LoadFirst`, `LoadSecond`), and
stores with the time of storing. A change writes, invalidates the entry in its own process and commits
(`Change`, `Invalidate`, `Commit`): at `update_row.go:262`, `card_visibility.go:276`,
`crud_workflows.go:308`, `:652`, `:767` and `drop_table_handler.go:97` the invalidation comes before the
commit of the middleware. `meInvalidated` distinguishes the schema and existence caches from those that
wait for their TTL. An entry may therefore mix two versions and outlive a commit;
`ServedIsRecent` says by how much, `TakesEffect` when not at all. The comment at
`system_table_tools/card_visibility.go:274` ("take effect immediately") holds only in the latter case.

### `RateLimiter`: routes, sign-in and the firewall

One client at one limiter. On a route, `Stamp` reads the clock before the lock and `Count` filters,
appends and compares under it; `CleanUpRequests` drops a whole list by its first stamp. `Attempt` counts in
the windows of `checkLoginRateLimit` and `incrementSpecial`, which read the clock under the lock.
`NeverTooMany` shortens the span of a route by the delay between stamp and lock: with the full span
it fails, since a request with a later stamp may have dropped two stamps that still count for a
delayed one. What a list keeps is told by the places its requests have in `rlLog`, the history of all. `RlCleanAge` stands for the 24 hours: the property needs them to be at least two windows and
a delay, which a `rate_limit_minutes` above 720 would break.

### `LoginFlow`: signing in, resetting a password and signing out

The session is a cookie: a handler works on the copy its request brought, and what it saves reaches the
browser with the answer. `lgJar` is the browser's copy; `lgReq` holds the requests under way, each with its
own (`cookie`), the place of its handler (`at`) and, when answered, the session it saves (`reply`). Answers
arrive in any order or get lost (`Arrive`, `Lose`), so a session may be replaced by an older one. `lgCodes`
is the challenge of each user and purpose, told by what `Otp` promises of it: one code, a few guesses, accepted
once. `lgIssued` and `lgProved` are ledgers of what codes did and which steps users passed, `lgLine` is the
sign-in as the answers told it. `handleLoginCredentials`, `completeLogin`, `setPendingLoginState` and the
others follow `login_credential_handler.go` and `password_reset_handler.go`, one action per statement or
check that another request may come between.

Left out: refusals for a missing token, a rate or a session that waits for nothing, which change
nothing; the sign-in by a posted form, which calls the same functions; the change of an e-mail
address (`UserProfile` sees it from the page); a cookie that is too large to be saved. Fingerprint and role
appear as the outcome `session_error` of `completeLogin`.

### `TableView`: the rows of a dataset on the screen

The code between two awaits is one action. `refresh`, `fetch`, `late` and `stream` hold the
calls under way (`refreshTableUnified`, `fetchMoreData`, card batches that wait for permissions and comment
counts, `do_intelligent_search`), with what each captured before its await; `els`, `host` and `notice` are
the containers of the DOM; `observer` and `isLoading` are `scrollState`; `article` is the flag that
pauses scrolling under an open article. Rows are numbers and an answer is the page that follows an
offset, so that `PagesInOrder` can tell a page that was appended twice or out of place.

### `Desk`: the parts of the front end, and the server's memory, in one run

Each part below is a module with its own constants, variables, `Init`, actions and property, named with
a prefix of two letters. The parts share no variables: what they have in common is the server, which each
models as far as it needs it. `Desk` therefore composes them by choice: a behaviour picks one part
(`tool`), keeps that part's variables in the slots `s1`, `s2`, ... and takes only its steps, so that the
states of one run are the sum of the parts' states and not their product. Nothing is claimed about two parts
at once, except where a module holds both sides itself: the two tabs in `Session`, two operators in
`CloudManagement`, article and history in `Navigation`. `FilterPanel` holds two parts, the field sets and the order of
the sections, which share no variables either.

| Module | Code | State | Actions |
|---|---|---|---|
| `ArticleMedia` | `card_view/big_card_opener.js`, `big_card_image_gallery.js`, `big_card_attachment_list.js`, `big_card_child_tabs.js`, `row_article_load_session.js` | server rows, shared requests, operations under way, the sections drawn | hydrate, build, refresh, upload, delete, make primary, comment, close; answers and failures |
| `Grid` | `table_component_builder.js`, `cell_editor.js`, `table_row_printer.js` | cells with text and value, pending updates, ranges | edit, blur, sort, append, render, copy |
| `Calendar`, `MapView` | `calendar_view`, `map_view` | period and mode; markers, list and selection | previous, today, next, open, back; draw, select, change the language |
| `FilterBar` | `filter_bar_builder.js`, `filterbar_engine`, `shared_topbar_builder.js` | window and panel with its timers and frames | resize, toggle, collapse, maximise the chat |
| `FilterControls`, `FilterPanel`, `Pickers` | `filter_list`, `filterbar_section_order_handler.js`, `multiselect_dropdown`, `vanilla_dropdown` | filters in both stores, tags, search boxes; sets and hidden fields; open lists | type, choose, remove, history; store, update, select |
| `FreeLayout` | `experimental_free_layout_card_view.js`, its helpers and its store, `card_view_printer.js` | stored template, working copy, cards drawn and drawings under way, the drag | draw, fail, move, resize, release, reset, toggle the mode, change the style or the language, more rows, reload |
| `ProductCards` | `product_card_view_field_resolver.js`, `product_card_view_printer.js`, `lang_value_reader.js` | the row, the card drawn from it, the view shown and the one stored | draw, change the language, open a row, choose the view |
| `RowCreate`, `ColumnManager`, `TriggerForm` | `gt_1_1_row_create`, `column_manager.js`, `notification_triggers.js` | forms, child rows, names chosen, options fetched | open, pick, submit, cancel; rename, remove, add |
| `Navigation`, `NavTabs`, `NavTree`, `Aliases` | `navigation`, `vanilla_tree`, `dataset_aliases.js`, `dataset_routes` and `dataset_alias_handler.go` | page, history entries, tabs and outlines, tree and boxes, registry and stored aliases | navigate, traverse, open and close articles, drag, rename, tick, store an alias |
| `Session`, `LoginForm`, `Permissions`, `ApiClient`, `UserProfile` | `auth`, `login_modal_printer.js`, `route_permission_checker.js`, `api_pipeline.js`, `user_profile_printer.js` | tabs, phases, cached rights, token, fields | sign in and out, submit, expire, recover, change the account |
| `LiveUpdates` | `sse_subscriber.js`, with the searches of `dataset_search_executor.js` and the refresh of `table_refresh_handler.js` it calls | stream, timers, versions told, attended to, cached and shown, reads under way | tell, fail, reconnect, hide, navigate, type and run a search, refresh; answers, failures |
| `QueenChat`, `TableChat` | `queen_chat_view.js`, `table_chat_printer.js` | conversation, transcript, streams; messages here, in `localStorage` and at the server | select, send, follow, finish; send, clear, reload |
| `AdminLists` | `foreign_keys_view.js`, `empty_rows_view.js`, `asset_linking_view.js`, the consistency check, media folders and header of a dataset | rows drawn with their buttons, readings and requests under way, a question, a form, the banner | read, add, change, remove, fix all, ask, save; answers and failures |
| `AdminMatrix`, `TabConfig`, `CloudManagement` | `card_visibility_view.js`, `permission_editor.js`, `child_tab_config_view.js`, `child_tab_config.go`, `cloud_management_view` | base and draft rows, unsaved changes, stored tabs, leases | choose, change, save, answer; claim, confirm, execute |
| `Languages`, `Dialogs`, `Disclosure` | `lang`, `modal_builder.js`, `collapsible_height_controller.js` | texts and page, questions and focus, heights | choose, translate, edit; ask, answer, close; click, frame, end |

The properties of these modules say what holds *at rest* (with nothing under way) and name the
overlaps that the code does not survive, which are conditions kept as history variables. TLC showed
the main ones to be needed; they are listed under [Observed races](#observed-races).

## What the runs check

Bounds are named in the modules; each `.cfg` gives them values.

| Run | Instance | What it shows |
|---|---|---|
| `row_media` | two requests, two parents, two assets, failures and crashes anywhere; `LostCommitReply = FALSE` | `LiveRowHasFile`, `MediaNeverDestroyed`, `RolledBackUploadLeavesNoFile`, `EventsTellTheTruth`, `PreviewWasCommitted` |
| `row_media_lost_reply` | the same with replies to COMMIT lost | what remains true: `RolledBackUploadLeavesNoFile`, `EventsTellTheTruth`, `PreviewWasCommitted`. The two others do not: the rollback hooks then remove the files of a committed upload |
| `row_media_repoint` | one request at a time | a counterexample to `PreviewIsOwnAsset` (finding 1) |
| `row_media_preview_race` | two requests, one parent | a counterexample to `PreviewIsOwnAsset` without any re-parenting (finding 2) |
| `row_media_orphan` | one request at a time | a counterexample to `NoFileWithoutRow` (finding 3) |
| `payments` | one order, three goroutines, one crash, early events | `RowFollowsProvider`, `ToldOnlyWhenCompleted`, `ShownIsPersisted`, and `LifecycleSafety`: the gateway implements the lifecycle |
| `payments_live` | one order, two goroutines, one crash, no early events, under `FairSpec` | `AckedCompletedIsTold`, `CompletedIsTold`, `RowCatchesUp` |
| `payments_early_webhook` | one goroutine, early events | a counterexample to `AckedCompletedIsTold` (finding 4) |
| `otp` | two goroutines, two codes, one send per window of two ticks, two guesses, transactions delayed by one tick, four ticks | `CodeEndsOnce`, `AttemptBudget`, `SendsInWindow`, `AcceptedInTime`, `DeliveredIsNotRevoked` |
| `table_view` | three rows in pages of two, one query, two refreshes, two fetches, one search of one line, views table and card | `PagesInOrder`, `ScrollNotStuck`, `LoadingMeansInFlight`, `NoticeIsTrue` |
| `table_view_search_race` | the same with the map as second view | a counterexample to `NoFetchDuringSearch` (finding 5) |
| `desk` | one part at a time, with the bounds of `Desk.cfg`: one to three inputs of the user and operations of each kind (up to eight in the forms); for the server's parts, channels of one event and three events, two processes and two changes, windows of two requests, two users with three requests and two codes | `ArticleAsStored`, `EditsHitTheirTarget`, `ChatsKeepTheirThread`, `FiltersAgree`, `UrlsLeadBack`, `ChosenIsCarriedOut`, `DrawnAsStored`, `SessionIsOne`, `ShownIsTrue`, `ServerKeepsItsWord`: each the promises of several parts about one subject |

Why the bounds are enough. *RowMedia*: locks and hooks relate two requests at a time; two assets are
needed for a folder with more than one file and for a preferred image that changes, two parents for
moving an asset. Requests are reused, so a late hook meets the next request. *Payments*: orders do not
share state, so one is enough; three goroutines let a webhook, its repetition and a status request
overlap. *Otp*: the locks relate two goroutines; two codes let a resend replace a code under
verification; four ticks let a slot leave the window and a code expire while a transaction waits.
*TableView*: the second
refresh, fetch or page is the one that meets the first; a search of one line already replaces rows that a
fetch appends to. *Desk*: a late answer meets one later input, or two where a promise is about the order of
two answers; the bounds let every action of every part fire, late answers
and failures included. *EventBus*: channels of
one event are full after one; of three events the middle one can be lost. *MetadataCache*: a second process is not
told; two changes let an old value be overtaken twice. *RateLimiter*: a limit of two is the
smallest with which a delayed request finds two stamps dropped. *LoginFlow*: two users at one browser, one of whom
signs in with a code by e-mail; two requests overlap, and three make a sign-in with a wrong guess beside another
request; of two codes the second replaces the first. *FreeLayout*: a second drawing meets the first, or a drag; one move of
the pointer already sets a place apart from the stored one. *ProductCards*: the second input meets a view that is
not drawn yet; rows are enumerated, so every combination of hidden, empty and filled columns is a state. *AdminLists*: the second reading overlaps the first; of two
things one is not the one that was meant. *ApiClient*: three tokens and three inputs let a call's token be replaced by another
session or by an overlapping fetch. *Calendar*: of the days chosen the first and the last are 60 days apart, two more than
`CaMaxRange`, so a range is cut off.
The proofs remove the bounds for the properties they cover.

Each property of a passing run has a *mutant* in `PROJECT.json`: a definition of a module (usually marked
"A bug:" there) that makes a plausible mistake, such as a dropped lock, a hook in the wrong list or an
event acknowledged too early. With the mutant in place of the definition the property is violated.

Symmetry is used for requests (`RowMedia`) and for goroutines and codes (`Otp`), in runs that check
invariants only. Deadlock is checked in the runs of `RowMedia` that must pass and in `otp`, where a
goroutine can always take another request. The payment runs allow it: every order may be finished. So do the
runs of the front end, where the user and the requests are bounded.

A property of `Desk` is the conjunction of the promises of several parts, and has a mutant for each of
these promises: each breaks one definition of one part.

### Fairness

Only `Payments` has liveness properties. In the front end a request may never be answered and a user
never come back, so the promises are about what holds at rest instead. The `Fairness` of `Payments`
says
- weak fairness of each goroutine's next step: goroutines are scheduled, the requests to the
  provider and to the application have timeouts of 30 and 15 seconds, and a statement on one payment
  row waits for other statements only, never for a handler;
- strong fairness of the arrival of an order's final event: the provider repeats it until it is
  acknowledged, as the comment at `payments_handlers.go:544` expects. A provider that gives up is not
  modelled;
- strong fairness of the statements' and the callback's success for a final event: the database and
  the application do not fail every time for the same order.

Nothing is assumed of the customer, of status requests, or of how often the process dies
(`MaxCrashes` bounds it in the runs).

## What is proved

All theorems hold for any number of requests, parents, assets, orders, goroutines and codes, of moves, inputs
and entries of the history. `Navigation` has two datasets and a custom view, `Aliases` the names its rules tell apart.

| Module | Theorem | States |
|---|---|---|
| `RowMediaProofs` | `TypeCorrect` | `Spec => []TypeOK` |
| | `RowsKeepFiles` | `~LostCommitReply => (Spec => []LiveRowHasFile)` |
| | `MediaIsKept` | `~LostCommitReply => (Spec => []MediaNeverDestroyed)` |
| | `EventsAreTrue`, `PreviewsAreCommitted`, `UploadsAreCleaned` | `EventsTellTheTruth`, `PreviewWasCommitted`, `RolledBackUploadLeavesNoFile` |
| `Payments` | `TypeCorrect`, `RowCorrect`, `ToldCorrect` | `TypeOK`, `RowFollowsProvider`, `ToldOnlyWhenCompleted` |
| | `ShownCorrect` | `ShownIsPersisted` |
| | `AckedCorrect` | `~EarlyEvents => (Spec => []AckedCompletedIsTold)` |
| | `Implements` | `Spec => LifecycleSafety` |
| `Otp` | `TypeCorrect`, `CodesEndOnce`, `GuessesInBudget`, `SendsLimited`, `AcceptedOnTime`, `DeliveredStays` | all the invariants of run `otp` |
| `TableView` | `TypeCorrect`, `LoadingCorrect`, `NoticeCorrect` | `TypeOK`, `LoadingMeansInFlight`, `NoticeIsTrue` |
| | `PagesCorrect`, `ScrollCorrect` | `PagesInOrder`, `ScrollNotStuck` |
| `ServerProofs` | `EbTypes`, `EbLastIsTold`, `EbInOrder` | `EbTypeOK`, `LossIsNotLast`, `ArrivesInOrder` |
| | `MeTypes`, `MeRecent`, `MeTakesEffect` | `MeTypeOK`, `ServedIsRecent`, `TakesEffect` |
| | `RlLimits` | `RlLimitsHold` |
| | `LgProvenSignIn` | `LgSignsInWhoProvedIt` |
| | `ApRecoversToken` | `ApSpec => []ApTokenRecovered` |
| | `PmRightsAreTheSessions` | `PmSizes => (PmSpec => []PmRightsAreOfTheSession)` |
| | `LfShowsItsPhase` | `LfSpec => []LfFormShowsItsPhase` |
| | `SeTabsShowTheSession` | `SeSizes => (SeSpec => []SeShellIsOfTheSession)` |
| | `UpShowsTheAccount` | `UpSpec => []UpPageIsOfTheAccount` |
| | `LuTellsWhatIsShown` | `LuSpec => []LuToldIsShown` |
| | `LnShowsTheChosen` | `LnSpec => []LnShownAsChosen` |
| `FrontProofs` | `NvUrlIsShown` | `NvSizes => (NvSpec => [](NvTypeOK /\ NvAtRestUrlIsShown))` |
| | `AlLeadsBack` | `AlSizes => (AlSpec => [](AlTypeOK /\ AlRoutesLeadBack))` |
| | `AmStoredIsShown` | `AmSizes => (AmSpec => [](AmTypeOK /\ AmShownIsStored /\ AmPrimaryKept))` |
| | `MxSavesWhereShown` | `MxSpec => []MxSavedWhereShown` |
| | `GrEditsHit` | `GrSpec => []GrEditsHitTheirRow` |
| | `TbOwnTabsStored` | `TbSpec => []TbStoredForItsTable` |
| | `FcFiltersAgree` | `FcSpec => []FcStoresAgree` |
| | `PkShowsTheChoice` | `PkSpec => []PkListsAsChosen` |
| `FilterBar` | `FbShowsWhatIsWanted` | `FbSpec => []FbSettledIsWanted` |
| `Desk` | `ServerKeptWord` | `ServerSizes => (DeskSpec => []ServerKeepsItsWord)` |
| | `UrlsLedBack` | `UrlSizes => (DeskSpec => []UrlsLeadBack)` |
| | `ArticleStaysAsStored` | `ArticleSizes => (DeskSpec => []ArticleAsStored)` |
| | `EditsHit` | `DeskSpec => []EditsHitTheirTarget` |
| | `FiltersAgreed` | `DeskSpec => []FiltersAgree` |
| | `SessionsAreOne` | `SessionSizes => (DeskSpec => []SessionIsOne)` |
| | `ShownAsTold` | `DeskSpec => []ShownIsTrue` |

**RowMedia.** `LiveRowHasFile` is not inductive: a hook that waits in a list may be about to remove
the file. The inductive invariant says what each waiting hook may do. A clean-up hook, registered or
chosen, names an asset whose insert was or will be rolled back, and no other request has that asset,
because ids are never reused. An archive hook in a chosen list names a row that is gone, and rows do not
come back. Hooks of the chosen list were right when they were registered, and stay right because
the locks of the transaction excluded other writers of the same rows until it ended: that is the part on
the exclusion of two open transactions. With `LostCommitReply` the first claim fails (`Spared`), which is
why the assumption is stated in the first two theorems. All the other parts hold all the same (`Base`),
and the other three theorems need no more. An event that waits in a list of the handler is about what its
transaction has written (`Announced`); the commit makes it true, and it stays true because rows that are
gone do not come back (`ToTell`, `Told`). A chosen preview was committed, or is the upload of the same
transaction (`Chosen`). As long as nothing died or failed, a file that is not of a committed row has a
clean-up in one of the two lists of some request (`FilesWatched`), and an idle request has none.

**Payments.** The invariant adds that every event still in the provider's outbox, and every status a
goroutine is about to write, is one the order has reached; that a callback is under way only for a
completed row; and that there is no row before its INSERT. The refinement follows: a step that moves
the row is `Open`, `Authorise` or `End`, one that changes `told` is `Tell`, and all others stutter.
A status that was shown was the row's, and a row with an event only moves from authorised to an end
(`RowMovesForward`). `AckInv` is about webhooks: without early events an order moves only once its row is
there, so the UPDATE of a completed webhook leaves a completed row, and the webhook reaches its 200 only
through a callback that was delivered. With early events the UPDATE may find no row and the event is
acknowledged untold, which is why the assumption is stated in the theorem.

**Otp.** `IInv` has a part per mechanism. The advisory lock: a reservation holds it alone, so
what it counted is still true when it inserts (`Reservations`). The row lock: a decision is about the
challenge as it is (`Decisions`). Time: an open transaction began at most `MaxDelay` ago (`Clock`), so one
that prunes the slots with its old `NOW()` keeps each slot of the last `Window - MaxDelay`
(`RecentSlots`); that is the bound `SendsInWindow` states. The codes: each code has one sender
(`Issue`, `Senders`), and the code in the row has not ended and has been guessed at as often as
the row counts (`Held`). The assumptions are `OtpAssumption`: limits and times are natural
numbers, `Window >= MaxDelay`, and there are finitely many codes.

**TableView.** `LoadingMeansInFlight` needs that a fetch under way belongs to the scroll state that set
its flag. `NoticeIsTrue` is not inductive: a notice is true because its view is the current one, has its
element, and the cache of the search is empty (`NoticeInv`). It is stated for the times when no refresh
has been asked for or has failed; `Waiting` in between, a notice may stand beside rows.
`PagesInOrder` and `ScrollNotStuck` are about calm views, which met one refresh and nothing else. There
`CalmInv` holds: while the refresh is under way no fetch is (`RefreshAlone`); afterwards at most one fetch
is, and it asks for the page that follows what is shown (`FetchAlone`); and there is one element, whose
rows together with the batches still to come are the first `offset` rows, each once (`OnePlace`). An
answer of no rows means that `offset` has reached the end, so an observer that is gone hides no row.

**EventBus.** What is owed is kept for each table of each connection. While a subscription is owed an event, one of its table
is on its way: in a publisher that has not sent it yet, in the table's channel, in the hand of its goroutine or in the
stream. A full channel of a table keeps other events of it (`TablesOfAChannel`), so a step only moves that something on; the
channel of the stream is shared, and one that is full of other tables' events drops the last event of this one. That
is the exception in `LossIsNotLast` (`"crowded"`), and it is proved to need a connection of more than one table
(`OwedToOne`). The theorem assumes channels with room for an event (`EbSizes`).
Order needs a stronger invariant, `LineInv` (`EbInLine`): for each table of a connection, what was written, what waits
in the stream, what a goroutine holds, what waits in its channel and what publishers have still to send
stand in one line, in which no event was published after a later one. Two publishers under way
may overtake each other because neither began after the other had ended (`PublishersOverlap`), and
the goroutines of two tables because order is promised for each table only (`OtherTable`).

**MetadataCache.** `AllRecent` adds to what is stored what is being loaded: a load that began at some
time holds versions that were committed then or later, and ends within `MeMaxDelay`. For `TakesEffect`,
`NotCaughtCurrent` says that where a process was not caught, its loads and its entry hold the committed
version, and that between the invalidation and the commit its entry is empty unless a reader has stored.
The sizes are assumed to be natural numbers (`MeSizes`).

**RateLimiter.** For a route, `RlInv` says that the list holds every request of the window before now
(`ListIsComplete`) and nothing but requests of one window before its last (`ListIsOfAWindow`). The first makes
the count of a request at least the number of those in its own window; the second is what a delayed request may
have lost, by no more than the delay. The clean-up drops a list whose first stamp is so old that with the
second its last is older than a window (`RlCleanAge >= 2 * RlWindow + RlMaxDelay`). For sign-in and the
firewall the requests of the present window are the last ones of the log (`WindowIsTheEnd`), and those before it
that are near enough to count are of one window (`WindowBefore`), so two windows that meet admit twice the limit and not more.
The list is a set of places in the log, so that counting is `Cardinality` and no induction over sequences is needed.

**LoginFlow.** `LgInv` follows a code from its issue: a live challenge is of a code issued for its user and
purpose, which has done nothing yet and has been compared with as many guesses as the challenge counts
(`Live`); a code that was accepted is in no challenge and has done nothing until its one request has gone on
(`Spent`, `Apart`). Each request has passed what its place asks for, and every session on its way has earned what
it says (`Placed`, `Earned`); a step may replace a session by an older one, but what was earned stays earned
(`Grows`). The last part, that the browser waits for the code it was told of, needs `LineKept`: as long as
requests do not overlap and answers arrive, the request under way works on the browser's own session, and
its answer saves what the browser makes of it. Assumed are natural numbers as bounds, at least one
guess, and that no user is called `Nobody` (`LgSizes`).

**Navigation.** Closing an article goes one step back in the history and trusts that this leads to its dataset.
It does because an entry of an article always stands on one of the same dataset (`NvStacked`): entries are
pushed and cut off at the end only, and an article is opened where its dataset is shown. A step back that was
asked for is under way exactly while the flag that the popstate consumes is set, and starts from the article's own
entry (`NvResting`). One navigation runs at a time, for the address that is current or will be pushed at its
end (`NvUnderWay`). All this holds until one of the overlaps is met that the promise leaves out.

**Aliases.** That a route leads back is not inductive for the stored aliases: what one dataset takes by itself
depends on what all others have. `KeepsApart` says what `ValidateExplicitDatasetAliasAvailability`
has let through: no stored alias is the name, the stored alias or the candidate of another dataset. From it follows
`LeadsBack` for the registry served in full, and for each of the parts served when something cannot be read
(`Degraded`). `EntriesKept` is the view's side: its entries are what is stored and served, but for the dataset
that is being saved; the alias of one dataset never changes the public name of another.

**ArticleMedia.** What is shown is compared with what is stored only when nothing is under way, so the invariant
`AmInv` says what is true in between. As long as no two activities overlapped and none failed there is at most one:
the hydration, the load of a tab or one operation (`AmAlone`). Each section is then as stored, but for what that
operation has changed and not drawn yet (`AmSectionsStored`, `AmTabsStored`). That the refresh draws what is stored needs
`AmAnswersFresh`: an answer that is waited for was read of the rows as they are, because nothing changed them since it
was asked for, and so was a cached answer of a tab; the one step that may leave a stale one, the deletion of a related row,
is followed by a forced request, which forgets it. The primary image has its own invariant, which holds after failures too
(`AmPrimaryStays`): the image chosen is in the gallery, it is not one of those to be cleared, and while they are cleared
it is primary already. The bounds are assumed to be natural numbers (`AmSizes`).

**AdminMatrix.** The two views keep their promise in different ways. That of the permissions never has a table that is not
built on the selection, and an answer that comes after the table was replaced finds it gone (`MxBuiltOnSelection`). That
of the cards still refers to the table of before while the next dataset is loaded, and what is sent is taken from there
and sent to the dataset that is current. It is right because a table that is no longer shown has nothing to save, and
neither has the layout (`MxTableOfCurrent`), which in turn holds because a dataset is left only when its save was answered
or its changes were discarded (`MxSavesOfShown`). The rows the server has for a dataset are of that dataset
(`MxServerApart`), so those that arrive are too.

**Grid.** A cell hands the array of its batch and an index in it to the editor, and a sort replaces the array;
`GrEditorOnItsRow` says that both still lead to the row of the cell. For a row whose edits did not overlap there is an
open editor or one update, never both (`GrOneEdit`): the cell shows what is on its way, and the text the update would put
back is what the row object has. A render of the rows counts as an overlap for the rows with an update under way.

**TabConfig.** As long as nothing overlapped, a load is alone under way, and no tabs are shown until it is answered
(`TbLoads`); a save carries the table and the tabs that are shown (`TbSaves`). Tabs that are not marked as changed are
those the stored rows give, and so are those kept to go back to, unless a save that was stored has not been answered
(`TbShownIsStored`). The lemma under it is that a table's own tabs, stored row by row, are read back in
their order, whatever the rows were before (`TbStoredIsMerged`).

**FilterBar.** The promise speaks of the times when nothing is pending, so `FbInv` says where each pending frame,
timer or animation leads. A frame of the bar is pending only for a bar that is to be shown, its timer only for one that
is to be hidden, and a bar that is neither shown nor hidden as it should be has the one or the other (`FbBarLeads`). A
body that slid out with a hidden panel has its timer (`FbBodyLeads`). The animation that holds the token of the chat is the
one asked for last, and without one the chat is as it was asked for (`FbChatLeads`). Between the steps of one handler only
`FbLoose` holds, for the handler changes the panel before the bar; `FbFits` and the place of the panel are brought
back by its last calls, and the place waits for the timer of a resize (`FbPlaced`).

**FilterControls.** Every handler changes the filters of the table state and those of the address together; what differs is
whether it draws the tags or asks for a refresh that will. `FcInv` says, with the types, that the tags are current unless a
refresh is on its way or failed (`FcUiAgrees`), and that the search boxes hold the text they share (`FcBoxesAgree`). A
commit that waited for a position runs the search of then, but draws the tags of the table state of now (`FcRendered`).

**Pickers.** `PkInv` is the promise with the types of the two lists, and is inductive as it stands. The lemmas follow the
calls of a handler (drawing the rows, opening, closing, setting a value and telling the owner) for a list that is open,
closed or destroyed, because each leaves something for the next to bring up to date.

**ApiClient.** The token is part of the cookie, and the cookie changes when another session begins or when the answer to a fetch
sent without a token sets a new one. A call that was refused has a token that was replaced, and the one it fetches is not older
than the call; so a second refusal means that the token was replaced since the call began, or since its own fetch
made one (`ApWriteFits`).

**Permissions.** A request of the present generation of the cache was decided in the present session or later, and only
such a request is shared by callers (`PmRequestFits`); a caller waits for no request that was decided before it asked
(`PmCallFits`). The clear of the cache raises the generation and unshares every request, so that late answers belong to a
former generation and are not kept. The requests are finitely many, which gives a new one an id of its own.

**LoginForm.** While one submission is awaited, what is displayed may belong to the phase before or after it
(`LfAwaits`); when its answer has set the phase, the calls behind it bring the parts, the button and the identifier
in line (`LfReady`). Both hold as long as there is one call of the form at most (`LfFits`).

**Session.** `SeFits` says for each kind of job what it has done of the session (`SeJobFits`), and that each tab
shows the session, or has a job under way that will, or will be told of it by a message or by the job of the other tab
that has still to tell (`SeFollows`). While a job has still to tell, no message is on its way and nothing else is
carried out (`SeAnnouncing`). A tab that gets the same event over a second transport has seen it, so a message leads to
one job. It holds until a session begins or ends while something else is carried out (`seSpoiled`). The session is a cookie that every
answer may set again, so an answer that comes late can bring a former session back (`seBack`); that counts as such a change.

**UserProfile.** One save or the load after it is under way at a time, and a dialog asks before one (`UpAlone`); while no
save has been carried out that the page was not told of, each load brings the account as it is, and without a load the
page shows it (`UpKnows`). An address reaches the server only from a save whose form had it twice (`UpAddresses`).

**LiveUpdates.** The stream and the refresh that is due are of the dataset shown; while the session lasts and the page stays,
there is a stream or the timer of the next one (`LuOfThePage`). A change that was told has been attended to, or its refresh is
due, or one that began since is under way (`LuAttends`). What attending to it brings depends on the way: a read at the server
brings rows at least as new as what was told when it began (`LuReadsSound`), so rows that were shown that way
(`how = "read"`) are not older than what was attended to. When a read ends, both are kept (`LuEndSound`). Nothing is
claimed of the rows when they were only drawn again from cached results, when the refresh failed or was cancelled, or when
its answer was overtaken or merged with that of another search: the other values of `how`.

**Languages.** The newest request is for the language wanted, and is under way until the page is in it or its texts
failed (`LnWanted`). One request renders at a time, in the language the page is in, and when none does all parts are in
that language (`LnRenders`). The texts fetched and in memory are those stored, unless a text is being saved; a save that
met another save, an answer of the AI or a change of language is remembered in `spoiled`, and so is an answer of the AI for a key
whose stored text the server has kept (`LnFresh`).

**Desk.** A behaviour of `Desk` that uses a part is a behaviour of that part (`EbUsed`, `MeUsed`, `RlUsed`,
`LgUsed`, `NvUsed`, `AlUsed`, `AmUsed`, `MxUsed`, `GrUsed`, `TbUsed`, `FbUsed`, `FcUsed`,
`PkUsed`, `LfUsed`, `PmUsed`, `ApUsed`, `SeUsed`, `UpUsed`, `LuUsed`, `LnUsed`), and the part in use does not
change. So the theorem of the part holds for `Desk`: the four of the server together are `ServerKeepsItsWord`, those of navigation and aliases
`UrlsLeadBack`, that of the open article `ArticleAsStored`, under the sizes the parts assume (`ServerSizes`, `UrlSizes`,
`ArticleSizes`), those of editing in place `EditsHitTheirTarget`, of the filters `FiltersAgree` and of what is told
`ShownIsTrue`, which assume nothing of the bounds, and those of the session `SessionIsOne` (`SessionSizes`).

Only model-checked: the liveness properties (under fairness, beyond the prover); of `Desk`, the types
of all its parts together (`DeskTypeOK`), and what is promised of the chats, of choices and of what is drawn
(`ChatsKeepTheirThread`, `ChosenIsCarriedOut`, `DrawnAsStored`). `TableChat` compares what was said with filtered
sequences, whose recursion needs an induction over data that the prover cannot do; for the parts of the other two no
inductive invariant has been worked out yet.

## What is not modelled, and why

- Of the modelled components: permission predicates, many-to-many links, triggers, search vectors and
  batches of ids (they add statements to the same transaction); the return of the middleware on
  `ErrTxDone` without running rollback hooks (no modelled handler ends its transaction itself); the copy
  fallback of the archive (planned); signature checks of webhooks; generation and hashing of codes (two
  generated codes are taken to differ); `CleanExpired`, which nothing calls.
- Of the front end: how rows, cards, charts, tiles, transcripts and inputs look; the curves of
  animations; column widths and context menus; table creation; registration forms and QR codes; deep links
  of the service catalogue. Of the administration
  lists: the storage-root tools, and the names of tables fetched before a form opens.
- Limits that change while requests are counted, and the exemptions from the limiters, which return
  before anything is counted.
- The components planned above, until their turn.
- The stateless components: there is no state for a property to be about.

## Findings

1. `row_media_repoint`: an asset row moved to another parent is recomputed for the new parent only; the
   old parent keeps the image as its preview.
2. `row_media_preview_race`: `ResyncSharedAssetParentCache` reads the preferred image before it locks
   the parent, and may write an image whose row another request has deleted in between.
3. `row_media_orphan`: after one asset was deleted, the parent's folder exists under
   `storage_deleted/`, the move of the whole folder is refused when the parent is deleted, and the
   other files stay under `storage/`.
4. `payments_early_webhook`: a completed webhook whose UPDATE precedes CreatePayment's INSERT and whose
   SELECT follows it is acknowledged without telling the application.

5. `table_view_search_race`: a search of the URL starts while `generate_table` still builds its view;
   the build then starts infinite scroll again, so that ordinary fetches race with the streamed results,
   which `dataset_search_executor.js:547` says are kept apart.

Each is in `PROJECT.json` with the line of the code and the comment that says otherwise.

### Observed races

These are overlaps that a property of a part leaves out, because the code loses there; the module says so
at its history variable.

- `TableView`: a refresh that fails leaves a notice beside rows of another view.
- `TableChat`: saves of one conversation are not ordered, the older may be kept by the server.
- `EventBus`: a stream that was opened for several tables may lose the last event of one of them while its channel is full
  of the others' (`sse_handler.go`). The front end opens streams of one table.
- `LiveUpdates`: a change told during a text search is answered by drawing the cached results again, without the rows that
  changed. The test at `endpoints/sse_subscriber.test.js:107` wants this of a search that was run; it also happens when a text
  was only typed, and then shows the results of the last search. Leaving the dataset within the delay of 180 ms cancels
  the refresh. Answers may overtake one another, and two searches that overlap share one cache.
- `ColumnManager`: columns named `x_from` or `x_to` are taken for the ends of a range filter; two columns that
  swap their names lose what was kept for them. The answer of success is written before a COMMIT that may fail.
- `FilterPanel`: a set of fields is deleted by the id of its row, and a save is answered before it is committed, so the set
  that is deleted, or the one that is listed, may be another than the one stored.
- `UserProfile`: the name is changed although the e-mail change after it is refused
  (`auth/user_profile_handlers.go:161`, `:192`), a code is spent although the address is then found taken, and what was typed
  during a reload is overwritten.
- `Dialogs`: a second dialog replaces a question that has not been answered.
- `Aliases`: an alias that is stored within a minute of the last refresh is not read again. While
  `app_service_catalog` has a stored alias, a dataset `service_catalog` may be created (which is not modelled); the alias
  in the code shadows it once the stored one is cleared.
- `TabConfig`: tabs of the table chosen before may arrive under the one chosen now, and be saved for it.
- `AdminMatrix`: a cell of the cards that is changed, or a dataset that is left, while a save is under way may leave
  the table changed when the next dataset is loaded; the question asked then saves its rows under that one
  (`card_visibility_view.js:320`, `:484`).
- `Calendar`: a range across the night in which the clocks go forward loses its last day
  (`calendar_view_helpers.js:604`).
- `AdminLists`: two readings of a list that overlap append both tables; the texts of a header are saved under the dataset
  chosen since, or after a reading that failed; rows without an id leave the table although they were not deleted;
  the radio button of a form is found by an index that another table may use. A single fix, drop or
  registration is shown as done although the answer, a success, lists an error (`database_consistency_view.js:177`,
  `consistency_check.go:149`); folders that could not be made are only logged; a new banner that is refused has already
  taken the old one away, and the texts of the answer are read outside the transaction that stored them.
- `NavTabs`: two menus built at once mix their tabs. `LoginForm`: a resend that fails leaves the button
  disabled. `Permissions`: a denial of the former session may be cached by a caller that asked before the
  clear. `Session`: a logout told late clears what a new login has stored; a late answer to the
  question for the sign-in modes sets the cookie of the session before. `ApiClient`: first calls that overlap each make a token,
  and the cookie keeps that of the last answer, so that one of three may be refused after its retry. `RowCreate`: a form may be sent
  twice. `Languages`: an AI translation that arrives late is shown under the language chosen since, and is shown
  although the server has kept the text that was stored already.
