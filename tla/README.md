# TLA+ models of Synculariti Core

This directory holds TLA+ models of the parts of Synculariti Core in which several requests, workers, tabs or failures meet over shared state, the TLC configurations that check them, and TLAPS proofs of what matters most for any number of actors. All paths below are relative to the repository's root; `api/` stands for `apps/ims/api/src/` and `web/` for `apps/web/src/`.

    tlc -config po_orders.cfg MCProcurement.tla      # one run
    tlapm ProcurementProofs.tla                      # one module of proofs

`PROJECT.json` maps every definition to the lines it models, and lists the runs, the hazards, the disagreements found and the theorems.

## 1. The system

Synculariti Core runs restaurants' stock and spending. It has three parts that execute:

- the **IMS API** (`apps/ims/api`): NestJS, Kysely on Postgres, and a BullMQ queue on Redis. Several processes may run; every `await` of a query is a point at which another request can come in between;
- the **web application** (`apps/web`): a single-page application with a list of offline mutations in localStorage that all tabs share, and the server actions of the WhatsApp workflow;
- the **database functions** of Supabase (`supabase/migrations`): expense tracking, event store, sagas, quarantine, notifications.

### Components

| Component | State | Operations | Interacts with | What is hard | What makes it correct |
|---|---|---|---|---|---|
| Stock counting (`api/inventory/inventory-count.*`) | batches with `status` and `version`, rows with expected and actual quantity | start, submit, import, close, reads, export | ledger, in the transaction of the close | check-then-act over several queries; a start is two INSERTs and can die between them; the close reads its rows before its transaction | an item is corrected once per count, together with the CLOSED status; one OPEN count; a closed count keeps its rows |
| Ledger (`api/inventory/ledger.*`) | append-only entries, stock is their sum | record, reports | every service that moves stock | refuses 0, which rolls its caller back; NUMERIC(12,2) rounds after the check | entries appear only with the operation they belong to |
| Purchase orders (`api/procurement`) | orders, lines, stock batches | create, submit, cancel, receive; vendors and vendor items | ledger; a second pooled connection inside a transaction | status checked outside the transaction; status written by another connection; waiting for a connection while holding one; NUMERIC as text | an order is received once, with its stock; drafts get none |
| Database access (`api/common/kysely`, `api/core`) | pool of connections, tenant context of each | acquire, release, transaction | every repository | a context that cannot be set leaves a connection unreleased | every connection comes back, with the right tenant |
| Sales imports (`api/sales`) | import batches, BullMQ jobs with locks | upload for the queue, upload and process a POS file, worker run | queue, ledger | jobs are redelivered; workers die, or lose a lock and go on; status marks are outside the import's transaction | COMPLETED means imported; imports bounded by deliveries; jobs reach an end |
| Offline queue (`web/lib/offlineQueue.ts`, `web/modules/finance/hooks`) | entries in localStorage, the Web Lock, calls under way per tab | submit, flush on `online`, retry, evict | database functions | many tabs, reloads, lost answers, browsers without Web Locks where two tabs read and write one list, a lock requested by its holder | what is queued is not lost, not saved twice, and a flush ends |
| Stock operations (`api/inventory/inventory-operations.*`) | transfers, waste, preparations | create and complete a transfer, record waste, preparation, opening balance | ledger, recipes | completion without a condition on the status; values the schema refuses | stock moves once per transfer |
| Recipes (`api/recipe`) | recipe graph | CRUD, `expandBOM` | sales imports, preparations | cycles, yields stored as 0, edits between the queries of an expansion | expansion ends and is the sum over all paths |
| Item catalogue (`api/item`) | items, categories, SKUs | CRUD, bulk import, SKU generation | everything | two items get the same next SKU | SKUs are unique |
| WhatsApp outbox (`web/modules/whatsapp`, `web/modules/logistics/actions/poApproval.ts`, `web/modules/operations/actions/posDiscrepancy.ts`) | outbox records, inbox, workflow decisions | claim, send, set result, decide, webhook | sidecar, database functions | a fallback and a caller that send without claiming; a claim whose answer is lost; crash between send and result; two decisions | a message goes out, and a decision is executed, at most once |
| Event store and sagas (`supabase/migrations/20260612000400_phase10_cqrs.sql`) | events with versions per aggregate, saga instances and steps | append, start, advance, fail | every writer of events | MAX + 1 read before the insert; duplicate and early events | versions without gaps; steps in order; compensation |
| Expense tracking functions (`supabase/migrations/20260609100724_et_schema.sql`) | transactions, quarantine, graph sync queue | bulk insert, quarantine, release, resolve, sync | offline queue, outbox | release of what was rejected; resolve without a condition | a decision is final |
| Authentication, permissions, audit (`api/auth`, `api/common/guards`, `api/common/interceptors`) | profiles, roles, grants, assignments, `audit_log` | guards and interceptors of every request; CRUD of roles and assignments; `sudo-tenant` | every handler, the pool of connections | what authorised a request is read by queries before the handler's; writes that nobody awaits | a handler runs for someone who was authorised; the audit log says what was answered |
| Tenants and settings (`api/tenant`, `api/settings`) | franchise groups, restaurants, feature flags | CRUD | the guards read restaurants | a restaurant removed while a request runs | references hold |
| Dashboard list (`web/modules/finance/hooks/useTransactions.ts`) | the list on the screen, fetches under way, a subscription, a timer | fetch by pages, follow events, refresh after a mutation | database, realtime channel | fetches overlap and land in any order; rows change between pages, and tied rows their places; the channel drops | once nothing is under way, the list is the table's |
| Review of purchases (`web/modules/finance/components/NeedsAttentionCard.tsx`, the quarantine functions) | status of purchases, queue of anomalies; counts, list, calls under way | count, list, decide, release what is 30 days old | database functions, other tabs | decisions without a condition; one slot for the row acted on; reads that land late; columns that do not exist | a decision closes its anomalies and is not overturned by who made it; the card counts what is there |
| Analytics, reporting, external integrations | none | reads | | little | |
| Rest of the web UI, web libraries, packages, scripts, deployment | none of their own | | | | |

### What is modelled

| Component | Status | Modules |
|---|---|---|
| Stock counting | modelled | `InventoryCount`, `CountBook`, `InventoryProofs`, `MCInventoryCount` |
| Sales imports | modelled | `SalesImport`, `SalesImportProofs`, `MCSalesImport` |
| Offline queue | modelled | `OfflineQueue`, `OfflineQueueProofs`, `MCOfflineQueue` |
| Stock operations | modelled | `StockOperations`, `InventoryProofs`, `MCStockOperations` |
| Recipes and BOM | modelled | `Recipes` (over `ItemCatalogue`), `RecipesProofs`, `MCRecipes` |
| Audit | modelled | `ApiRequests`, `ApiRequestsProofs`, `MCApiRequests` |
| Ledger | partly: `record` inside the closes, receipts, transfers and logs that call it; its reports are reads | `InventoryCount`, `Procurement`, `StockOperations` |
| Purchase orders | partly: orders; not vendors and vendor items, which are plain inserts and updates | `Procurement`, `PurchaseOrderBook`, `ProcurementProofs`, `MCProcurement` |
| Database access | partly: pool, transactions, tenant context and the leak when it fails; row-level security is Postgres' own | `Procurement`, `ApiRequests` |
| Item catalogue | partly: items, categories, overrides, the upload; not the conversions of units and `generateSku` | `ItemCatalogue`, `Recipes`, `RecipesProofs` |
| Authentication and permissions | partly: guards, interceptors, roles, permissions, assignments, `sudo-tenant`; tokens are verified by Supabase | `ApiRequests` |
| Tenants and settings | partly: franchise groups, restaurants and feature flags as handlers of a request | `ApiRequests` |
| WhatsApp outbox and decisions | partly: the outbox; not what a decision then does to a purchase order or a POS batch | `WhatsAppOutbox`, `WhatsAppOutboxProofs`, `MCWhatsAppOutbox` |
| Expense tracking functions | partly: those that the offline queue, the outbox and the review of purchases call | `OfflineQueue`, `WhatsAppOutbox`, `PurchaseReview`, `DashboardProofs` |
| Web UI | partly: the dashboard's list of transactions and its review of purchases | `TransactionList`, `MCTransactionList`, `PurchaseReview`, `MCPurchaseReview`, `DashboardProofs` |
| Other schema migrations | partly: the keys, defaults and CHECKs that handlers rely on | with the handlers |
| everything else | not: section 7 | |

`Recipes` EXTENDS `ItemCatalogue`: the upload of recipes creates items and categories, which the catalogue's own endpoints rename and delete meanwhile. The other modules stand on their own; where two meet, one represents the other by what it can do: `InventoryCount!Movement` is whatever else posts to the ledger (receipts, transfers, waste, imports), `SalesImport!Import` is an expansion of recipes that succeeds and `Refuse` one that throws, and an `import` of `ApiRequests` is `SalesImport`'s request as the pool of connections sees it.

## 2. Modules and the code

**Grain.** An action is one query (autocommitted) with the code up to the next `await`, or one whole transaction when Postgres shows nothing of it before its commit. The position of a handler is `pc[r]`, its local variables `task[r]` (in StockOperations `step[r]` and `call[r]`, in SalesImport `batch[a]`, in OfflineQueue `work[h]` and `rest[h]`). A `Fail`, `Die` or `Cut` action stops a handler at any query: a failed query and a process that dies leave the same tables behind. A handler that throws before it has changed anything is not an action: it leaves no trace. In TransactionList and PurchaseReview the queries are actions, and so are the callbacks that the browser runs.

**Faulty variants.** Some operators carry the comment *Faulty variant of X: used by no action*. Each is X with a plausible mistake in it, and stands before X. Replacing X by its variant makes TLC report the property that `PROJECT.json` lists with it under `mutants`: so it is known that every property can fail.

**Histories.** `alone`, `raced`, `rewired`, `disturbed`, `refused`, `overwritten`, `seen`, `history`, `claims`, `fresh`, `orders`, `undisturbed`, `last`, `dirty`, `told` (of PurchaseReview), `left`, a recipe's `file`, the paths of an expansion and the bounded counters are history: no guard but that of a bound reads them. `alone` says for which orders or batches (in InventoryCount, OfflineQueue and Recipes: whether at all) no two requests have overlapped so far; `raced` is its complement for transfers. It lets a property say *this holds as long as requests do not race*, where the code takes no care of races: the property then still covers crashes, failures, retries and any sequence of requests. The other histories record in the same way the one event after which the code promises no more, so that a property says where exactly it stops to hold.

### InventoryCount

Stock counting of one restaurant. `batches`, `rows` are the two tables; `adjustments` are the ledger's COUNT_ADJUSTMENT entries by batch and item; `stock` and `tracked` are what `getCurrentStockBulk` reads. The operations are

- `startBatch`: `StartFind`, `StartCheck`, `StartReap`, `StartSnapshot`, `StartCreate`, `StartFill`. The reap is the UPDATE by version of an OPEN batch without rows, which an earlier start left behind;
- `submitActualCount` and `importBatch`: `SubmitCheck`, or `ImportCheck` and `ImportMatch`, then `WriteCount` once for each row, by the row's id alone. The path of a submit names a batch and a row, and nothing compares the two: `SubmitCheck` picks any OPEN batch and a row of any batch (`rowsOf`), so that a CLOSED count is written to through an OPEN one;
- `closeCountBatch` of the controller and `closeBatch` of the service: `CloseCheck`, `CloseVerify`, `CloseReadRows`, and the transaction `CloseCommit`;
- `Movement`: any other service posts to the ledger.

The transaction is one action although it has many statements: its only guarded statement, `UPDATE ... WHERE id = .. AND version = ..`, waits for the row's lock and evaluates its condition on the committed row, and it throws when no row matches.

`CountBook` is the abstract specification: a count is opened, and later closed; closing books at most one amount, not 0, for each item, in the same step. `ImplementsCountBook` maps `status` to the status of the batches and `booked` to `adjustments`.

### Procurement

Purchase orders. `receipts[p]` holds one element for each committed `receivePO`: its lots (stock batches, each with its PO_RECEIPT entry). `createDraftPO` is one transaction, `CreatePO`. `submitPO` and `cancelPO` read and check the order (`SubmitCheck`, `CancelCheck`) and then set the status, whatever it has become (`SubmitWrite`, `CancelWrite`). `receivePO` is `ReceiveCheck`, `ReceiveBegin`, `ReceiveLots`, `ReceiveStatus`, `ReceiveCommit`: `updatePOStatus` is not given the transaction, so `ReceiveStatus` takes a connection of its own and commits at once. `ConnectionFree` guards every action that needs a connection; a transaction keeps one.

The data that matters is kept: lines are matched by item (`Finds`: any line for the item, because the rows come in no order), a delivery may name an item twice, amounts of 0 are refused by the ledger. `LandedUnitCost` is the expression `rawUnitPrice + proratedFreight / quantityOrdered` as it runs: the pg driver hands out NUMERIC as text, so that `+` concatenates.

`PurchaseOrderBook` is the abstract specification of one order: DRAFT, SUBMITTED, RECEIVED or CANCELLED on the way, and one receipt, booked when it is RECEIVED. `ImplementsOrderBook` says that each order takes only steps of the book for as long as its requests have not overlapped, whatever happens to the other orders.

### SalesImport

`uploadSalesFile` inserts a batch and then adds a job (`UploadSalesFile`, `Enqueue`); `uploadPosFile` inserts one with a storage path (`UploadPosFile`), and `processPosBatch` imports it in a request (`PosCheck`, `PosMark`, then `Import` or `Refuse`, `Complete` or `MarkFailed`). `SalesImportProcessor` is `Take`, `Mark`, the same middle, and `Ack`. `QueryFails` is a query that fails, or did its work although its answer is lost (`Effect`); it then goes where the code's `try` sends it. The first statement of a worker's run is inside its `try`, that of `processPosBatch` is not; the update in the `catch` is inside no `try`.

The queue is external and modelled as the code uses it, with BullMQ's defaults (`attempts` 1, `maxStalledCount` 1): a job waits, is taken with a lock, and ended by its holder. When the lock runs out because the worker is gone (`StalledDead`) or too busy to renew it (`StalledAlive`, the worker goes on), the job is delivered again, or given up after MaxStalls times.

What a file contains is abstracted to whether its import succeeds (`Import`) or throws (`Refuse`); `imported[b]` counts the import transactions that committed, each of which depletes the stock.

### OfflineQueue

`store` is the list in localStorage, as a set of entries with growing ids. A user's call (`Submit`) reads `isOffline` once and then sends (`Send`) or queues (`Enqueue`). When the browser comes back online every tab gets the event (`GoOnline`), asks for the lock (`FlushAsk`), reads the list (`FlushRead`) and for each entry runs `FlushItem`, `FlushSend` (or `FlushEnqueue`, when it has gone offline again: the callback is the same function that queues), then `Dequeue` or `IncrementRetry`, which evicts the entry at MAX_RETRY. `Reload` closes a tab: its calls are gone, a lock they held is released.

`webLocks` says what the browser has, one of `Browsers`. With Web Locks, `LockFree` guards the body of every `withLock`, and each body, which never awaits, is one step. A request by the holder waits like any other, as the Web Locks specification says. Without them (`navigator.locks` exists in secure contexts only) bodies just run, and the tabs run in parallel: each body is then two steps, `getItem` (`Read`, which leaves the list in `copy`) and `setItem` (`Writes` or `Rewrites`), between which another tab may write the list; nothing else of the same tab comes between them (`TabFree`). What a `setItem` drops because its tab had read the list before it was queued is recorded in `overwritten`.

A full localStorage makes `enqueue` swallow an error: `Push` may put the mutation into `refused` instead of the list, and `QueuedIsKept` speaks of the others, but for those in `overwritten`. A scan taken offline is queued without a receipt to save: every flush fails on it.

`saveReceipt` retries three times with one transaction id, and the procedure inserts or updates by it: `Fails` therefore adds at most one transaction for one call.

### ItemCatalogue and Recipes

`ItemCatalogue` holds the tables `categories`, `items` and `item_restaurant_overrides` and the endpoints of `ItemController`: `CreateItem`, `UpdateItem`, `DeleteItems`, `CreateCategory`, `UpdateCategory`, `DeleteCategories`, and as steps of a task the item upload (`CategoryMaps` read once, then `UploadRow` for each row), `upsertItemOverride` (`PutOverride`) and the two INSERTs of `ensureItemDependencies` (`EnsureCategory`, `EnsureItem`). Foreign keys and unique indexes of the schema are guards, and so is its CHECK of an item's type: `EnsureItem` inserts 'INGREDIENTS' only where `ItemTypes` has it, which the CHECK of `00001_initial_schema.sql:174` does not; `EnsureCategory` and `CreateCategory` need the columns that `createCategory` names (`TypedCategories`), which no IMS migration gives the table. Where they are missing nothing is uploaded (section 5); the run takes tables that accept the rows, the theorems hold for both.

`Recipes` adds `recipes` with their lines and `menu_item_mappings`, which clients edit by `CreateRecipe`, `UpdateRecipe`, `DeleteRecipe`, `CreateMenuItemMapping`, `DeleteMapping`, and the requests of several queries: the item upload, the override, and `bulkCreateRecipes`, which walks through the groups of its file and in each through `Lookup`, `LookupCategory`, `InsertMissingCategory`, `InsertMissingItem` for the produced item and each ingredient, then `CheckExisting` and `CreateFromFile`; `GroupFails` ends a group at any query and leaves what it inserted.

`expandBOM` runs outside any transaction, so that each of its queries is an action of a request that imports a sale: `ExpandBOM` begins with a recipe that was resolved just before, `FindRecipe` reads a recipe's row, `FindIngredients` its lines, which take the recipe's place at the head of `todo` as the recursion goes depth first, `PushItem` lists an item, `Return` ends it; `ExpansionThrows` is the throw on a quantity that is not positive, a recipe that is gone, or a failing query. Amounts are fractions, not reduced. Clients send positive quantities and yields, but NUMERIC columns can round them to 0, so that 0 is among those stored: a quantity of 0 makes the next recipe down throw, a yield of 0 an amount that is Infinity or NaN, as a fraction over 0 is here. `MaxDepth` bounds how far down an expansion is followed.

Its reference definition is `Paths`: what is consumed is, with multiplicity, the product of quantity over yield along each path from the recipe sold down to an item. `ExpansionFollowsPaths` says of every expansion that has come to its end that it has one entry for each path and no other, each with that product, whatever is created, uploaded, renamed or deleted meanwhile, unless a recipe was updated or deleted under way (`disturbed`): what is read before and after such an edit may add up to no path of either graph. The service keeps no set of visited recipes, so that on a cycle it never returns: `AcyclicUnlessRewired` says that only `updateRecipe` can make one.

### StockOperations

Transfers, waste, preparation and opening balances, and the `LedgerService` they book with. `createTransfer`, `createWasteLog`, `createPrepLog` and `recordOpeningBalance` are one transaction each and one action each; `completeTransfer` reads the row (`ReadTransfer`) before its transaction (`CompleteTransfer`), whose UPDATE has no condition on the status.

Quantities are what a client sends in thousandths and `NUMERIC(12,2)` keeps in hundredths (`Stored`): the guard against 0 looks at the one, the tables hold the other, of either sign, so that a change of 0.004 is booked as 0.00 (section 5). Under `00001_initial_schema.sql` every transfer and opening balance is refused (section 5); `GroupNullable` and `ReasonCodes` switch that, so that the run checks what the service would do over a schema that accepts its rows, and the theorems hold for both.

### ApiRequests

What every mutating request goes through: `SupabaseAuthGuard` (`Profile`, `Group`, `Authorise`), `PermissionsGuard` (in `Authorise`), `TenantContextInterceptor` and `TenantContextDriver` (`Acquire`, `ReleaseTo`, `ContextFails`), the handler (`LookupsEnd`, `Handler`, `ReadBack`, `Sudo`, `Import`), `AuditInterceptor` (`AuditWritten`, `AuditFails`). `db` holds the tables the guards read, and the handlers are those that change them: roles, grants, assignments, franchise groups, restaurants, flags. A request and the writes nobody waits for (`last_login_at`, the audit row) are processes of their own, and so are the lookups that `deleteFranchiseGroupsBulk` makes side by side, one for each group and each on a connection of its own (`GroupRead`).

`ContextFails` is a `set_tenant_context` that throws after the connection was taken: nothing gives that connection back. `LoginFails` is the rejection of `updateLastLogin`, which nothing catches: Node ends the process with every request in it. An import holds the connection of its transaction while it asks for a second one; nothing limits how many imports or leaks there are, so that the pool can run dry (`Dry`), after which no request ever ends.

`set_tenant_context` as `00001_initial_schema.sql:23-33` defines it is local to a transaction; the models rely on nothing it sets.

### WhatsAppOutbox

`triggerWorkflow` inserts a record (`Insert`). An invocation of `processOutboxQueue` begins with `Start`: it claims a batch (`Claim`); or the claim finds nothing or fails (`NoClaim`), or commits although its answer is lost (`LoseClaim`, which leaves the batch PROCESSING with nobody), and the invocation selects records without marking them (`SelectUnclaimed`); or its caller gives it the records, and it looks at nothing (`ProcessGiven`). For each record it sends (`Send`), reports (`Report`) and completes a text (`CompleteText`); `Cut` ends it anywhere. `dispatchDecision` is `Decide`, then `FireWebhook`, whose fetch may reject after the decision was committed and then is answered with an error, with `CutDecision` between them. `set_outbox_delivery_result_v1` is defined in no migration: it is external, and what it does to a record that is COMPLETED by then is left open (`Report`).

### TransactionList

`useTransactions` of the dashboard: each run of its effect (`RunEffect`) fetches page by page (`StartFetch`, `Read`, `Arrive`, `PageFails`) and subscribes (`Join`); the channel may drop, with the events on their way, and join again (`Drop`). Events (`Signal`, `Deliver`) set a timer that fetches again (`TimerFires`). A fetch belongs to the run of the effect that started it and nothing cancels it. `Mutate`, `Commit`, `Refresh`, `LoseAnswer` and `MutationFails` are this user's own mutations, `Change` is anybody else's. `Read` and `Arrive` are apart because a page is what the table was when the database ran its query, not when its answer arrives: an offset into a table that changes can skip a row or bring it twice.

The query orders by date and `created_at` only. `SortKey` is the place these give a row, and rows may tie: each query then runs in any one of `Orders`, so that two pages of one fetch may be read in different orders, and skip a row or bring it twice although nothing has changed.

### PurchaseReview

A purchase arrives in quarantine (`Insert`, `AddAnomaly`: external, as no code of the repository but its seed and its tests inserts one) and is decided by `resolve_purchase_quarantine_v1` (`ResolvePurchase`) or, when it is older than 30 days, by `release_expired_quarantines_v1` (`ReleaseExpired`; how old purchases and anomalies are is left open). The card is one tab: `fetchItems` (`FetchItems`, `Query` for each count, `FetchLands`), `openReviewModal` (`OpenReviewModal`, `ReadReview`, `ReviewLands`), `handleResolve` (`HandleResolve`, `Resolve`, `Answer`), and the ways in which each fails. `Elsewhere` is every other tab: the function has no condition on the status, so that from the database's side a tab with an old list may decide anything.

Both functions write columns, `resolved_at` and `released_at`, that the tables do not have in any migration. `Schemas` gives the columns for which the model is run: with none a call fails and, being one transaction, changes nothing; with both it does what it is written for. The run takes both cases: `OpenAnomalyAwaitsDecision` holds in the first only because nothing of a failed call is kept.

Next.js happens to send the server actions of one tab one after the other; the model does not rely on it and lets two be under way in any order. The card also counts data gaps and approvals, which may keep it on the screen when nothing waits for a decision: `Shown` lets it stay.

## 3. Runs

Passing runs.

| Run | Instance | Distinct states | What it shows |
|---|---|---|---|
| `count` | 2 requests, 2 batches, 2 items, 1 posting by others | 242,232 | `ImplementsCountBook` under every interleaving; `OneOpenUnlessRaced`, `WrittenWhileOpen`, `CloseBooksTheCounts` until requests have overlapped |
| `po_orders` | 3 requests, 2 connections, 1 order, 3 forms, 2 deliveries | 29,003 | `DraftsGetNoStock`, `LinesShowReceipts` under every interleaving; `ImplementsOrderBook` until requests overlap; `EveryRequestEnds` unless the pool runs dry, which it does here |
| `sales` | 3 requests, 2 workers, 1 batch, 2 errors, 2 outages, 1 redelivery | 36,418 | `CompletedMeansImported`, `RedeliveriesBoundImports` always; `PosImportedOnceUnlessRaced` until requests overlap; `JobsDecideTheirBatch` under fairness |
| `offline` | 2 tabs, 2 calls, a transaction and a scan, with and without Web Locks, 2 entries, 2 drops, 1 reload, 2 failures | 566,758 | with Web Locks `OneTabFlushes`, `DuplicatesTakeReloads`; with and without, `QueuedIsKept`, `EvictedAfterFailures`, `SavedOnceUnlessRaced`; without, `FlushEnds` under fairness |
| `recipes` | 2 requests, 2 items, 2 categories, 2 recipes, 2 recipe files, 3 calls, quantities and yields of 0 among them | 4,606,182 | `AcyclicUnlessRewired`; `ExpansionFollowsPaths` while uploads and other edits interleave with its queries; `UploadedOnceUnlessRaced`, `OneCategoryUnlessRaced` until uploads overlap |
| `stock` | 2 completions, 2 restaurants, 1 item, 2 transfers, 2 logs, quantities 0.004, 0.005, 1.505 | 190,190 | `TransferredOnceUnlessRaced` |
| `access` | 2 requests, one of every operation, 2 connections | 570,162 | `OnlyAuthorised`, `AuditAgreesWithReply` under every interleaving, failures and a process that ends; `EveryRequestEnds` under fairness unless the pool runs dry, which it does here |
| `outbox` | 2 records (a poll with two options and a text), 2 invocations with a batch of 1, claims up to 2 failures, 1 incident | 5,853,561 | `ProcessingIsHeld`, `SentOnceUnlessUnclaimed`, `WebhookOnceUnlessOverwritten`, `AcceptedIsDecidedUnlessFailing`, `ClaimsAreBounded` |
| `list` | 3 rows of which 2 tie, pages of 2, 2 selections, 2 fetches at once, 3 changes, 1 failure | 785,654 | `SettledIsCurrentUnlessDisturbed`; `ComesToRest` under fairness |
| `review` | 2 purchases, an anomaly of one, counts of the purchases and the anomalies, 2 fetches, 1 read of the list, 2 decisions under way, 1 disturbance, tables with and without the columns | 5,004,257 | `OpenAnomalyAwaitsDecision` and `OverturnedUntold` under every interleaving; `CountsHoldUnlessDisturbed` |

Runs that find what the code does against what it says of itself (`findings` in `PROJECT.json` quotes the lines; section 5 has the others):

| Run | Property | What TLC finds |
|---|---|---|
| `po_status_first` | `ReceivedMeansBooked` | RECEIVED is committed by another connection before the transaction of the receipt, which then fails and rolls back: no request is at work on the order any more, and it is RECEIVED without stock |
| `offline_nested` | `NestedLocksAreFine` | a flush that has sent its first entry asks, inside the Web Lock, for the same lock, and waits for itself for ever, although every promise that can be settled is (`FairSpec`) and no tab is reloaded |

### Bounds

Every bound is a constant of its module or the size of a set in the cfg.

- **Two requests, or three.** A race of check-then-act code is between two handlers; a third lets another request work on what a race has left (`po_orders`, `sales`). Requests, calls, invocations and fetches are slots: a slot that has finished takes the next one, so that histories of any length are explored, up to the bounded ids. In ApiRequests a request is sent once: nothing it keeps outlives it but the tables, and the second request is what changes them.
- **One order, two count batches, one import batch.** Orders and import batches do not interact: no handler touches two. Count batches do, through the search for an OPEN one, hence two. Once all ids are used no more can be created, but the requests on those that exist go on.
- **Two of each in `recipes`.** Two recipes that use each other are the smallest cycle, and a recipe that names a sub-recipe twice has two paths to one item; the two rows of a file are the group that finds what the group before it made. MaxCalls = 3 makes two recipes and edits one between the queries of an expansion of the other, or starts two uploads with an edit between theirs. MaxDepth = 3 lists every path of a graph of two recipes without cycles, and one level more of one with a cycle.
- **Quantities 0.004, 0.005, 1.505** are the boundary of the rounding: a number the guard against 0 lets through and the column rounds to 0, one it rounds up, and one whose negative must round away from zero alike.
- **PoolSize = 2** in `access` and in `po_orders`: what two requests, or three, need to exhaust it, by an import and a receipt that wait for their second connection and, in `access`, by a leak. Nothing else bounds leaks and waiting transactions, as nothing in the code does; `EveryRequestEnds` says that a pool which has run dry is the only reason for a request never to end. Two, not one: with one connection every receipt and import is stuck alone.
- **Two records, BatchSize = 1, RetryLimit = 2** in `outbox` (10 and 5 in the code): a record that keeps failing is claimed again, stands before a younger one, and is then out of every claim's reach; the fallback has one to take in either case. MaxIncidents = 1 is one lost answer, lying send, cut or given record, in any place; each by itself is what a property exempts.
- **MaxRow = 3, PageSize = 2** in `list`: a month of a full page and a part of one, or of a full page and an empty one, while rows come and go, and another month of one row; the two rows that tie (`SortKey`) stand where the first page ends. MaxChanges = 3 is a change during the fetch that answers a change, and a switch of the month.
- **Two fetches, one read, two decisions, one disturbance** in `review`: two counts whose answers come in either order, and two rows whose decisions cross, so that the buttons of the first are enabled again while it is under way. One read of the list suffices for a row that comes back: the review is closed and opened again while a decision is under way. A disturbance is another tab's decision, a purchase or an anomaly that arrives, a change of the month or a call that fails; the release is bounded by nothing. Of the counts, `rejected` is left out (`Kinds`): it is read and shown as the other two are.
- **MaxMoves = 1, Deltas = {1}, Counts = {1}.** One posting moves the expected quantity away from 0, and one count value different from it, or equal to it, gives each kind of variance.
- **Versions = {1, 2}**: the right version of an OPEN batch, and a wrong one that is right after the close.
- **MaxErrors, MaxOutages, MaxFailures, MaxIncidents, MaxDrops, MaxReloads**: two of each suffice for a fault in the handling of a fault. Where fewer are used (one reload in `offline`, one of each in `outbox` and `list`) the others make up the interesting case; the proofs cover all values.
- **MaxRetry = 2** instead of 5 in the runs of OfflineQueue: the first failure is counted, the last evicts. `EvictedAfterFailures` is about the count, whatever the limit, and proved for every limit.
- **MaxStalls = 1** is BullMQ's default.
- Counters of sends and webhooks stop at 2, which is what their properties tell from 1.

**Deadlock** is checked in `count` and `outbox`. It is off elsewhere because the system may stop there: in Procurement when all orders are final or the pool has run dry, in SalesImport, StockOperations and Recipes when ids and calls are used up, in OfflineQueue when every mutation has been made or each tab's flush waits for its own lock, in ApiRequests when every request is answered or the pool has run dry, in TransactionList when the screen has come to rest, and in PurchaseReview when nothing is left to decide.

**Symmetry** is used in safety runs only: in `recipes` over requests, in `stock` over requests and ids, in `outbox` over invocations and options, in `review` over the calls under way and the anomalies, and in `count` over requests, batches and items, whose properties are invariants and action properties. `ImplementsCountBook` is a safety property, without fairness on either side, and its mapping treats batches and items alike. No run with a liveness property uses symmetry.

### Fairness

- `Procurement!FairSpec`: strong fairness of `Proceed(r)` for each request. A handler in flight is run by Node's event loop whenever its query is answered; the connection or the row lock it waits for is granted in the order of the requests by the pool and by Postgres, so that a handler that could go on again and again does. Nothing says that a request arrives, nor that one fails.
- `SalesImport!FairSpec`: weak fairness of `Take` and of the steps of a run for each worker, which polls for ever, and of `StalledDead` for each batch, because BullMQ checks for stalled jobs every 30 seconds. None for requests, which clients may never send, and none for faults.
- `OfflineQueue!FairSpec`: strong fairness of `TabFree(h) /\ Proceed(h)`: promises are settled, a tab's thread comes to each of its calls, and the lock is granted in the order of requests. The network need not come back, and no user has to act.
- `ApiRequests!Spec`: weak fairness of all the work together: some process that can go on does. That is enough because each request makes finitely many queries and requests are finitely many; no order of the pool is assumed. No fairness of arrivals, of a context that fails, or of a deactivation.
- `TransactionList!ListSpec`: weak fairness of `GoOn`, all that is under way together: pages, timer, events, subscription and the user's committed mutation. The browser runs what is due, in whatever order. Nobody has to change anything.
- `InventoryCount`, `Recipes`, `StockOperations`, `WhatsAppOutbox` and `PurchaseReview` state none: their properties are about safety. What invokes `processOutboxQueue` is not in the repository (section 5), so that nothing says that it runs again.

`JobsDecideTheirBatch` exempts executions in which a query failed, because then the `catch` itself can fail and leave the batch PROCESSING, and those in which more runs died than a job is delivered again. A batch whose `Enqueue` failed stays PENDING with no job: the code has no path that finds it.

## 4. What is proved

`tlapm` checks all obligations of eight modules. The constants are arbitrary there, under the assumptions of the modules (`CountAssumption`, `ProcurementAssumption`, `SalesAssumption`, `OfflineAssumption`, `RecipesAssumption`, `StockAssumption`, `PoolAssumption`, `OutboxAssumption`, `ListAssumption`, `ReviewAssumption`), which give types, say that null values are not ordinary ones, that the workers of SalesImport, the calls of OfflineQueue, the recipe ids of Recipes and the purchases and anomalies of PurchaseReview are finitely many. None limits how many requests, leaks or waiting transactions there are.

| Module | Theorem | States |
|---|---|---|
| `InventoryProofs` | `Invariance`, `TypeCorrect` | `IInv`, `TypeOK` of InventoryCount |
| | `AdjustedAtMostOnce`, `BookedWithTheClose` | `AdjustedOnce`, `BookedByItsClose` |
| | `ClosedForGood` | the action property `ClosedIsFinal` |
| | `Refinement` | `Spec` implements `CountBook` |
| | `AloneInvariance`, `OneOpen` | `AloneInv`, `OneOpenUnlessRaced` |
| | `WritesHitOpenBatches`, `ClosesBookTheCounts` | the action properties `WrittenWhileOpen`, `CloseBooksTheCounts` |
| | `StockInvariance`, `TransferredOnce` | `StockIInv` (with it `LogsAreBooked`: each log has one entry, of the amount its row was rounded to), `TransferredOnceUnlessRaced` of StockOperations |
| `ProcurementProofs` | `Invariance`, `TypeCorrect` | `IInv`, `TypeOK` |
| | `DraftsStayUnbooked` | the action property `DraftsGetNoStock` |
| | `AloneInvariance` | `AloneInv` |
| | `Refinement` | orders implement `PurchaseOrderBook` until their requests overlap |
| | `LinesAgree` | `LinesShowReceipts` |
| | `StandstillIsThePool` | `OnlyThePoolDeadlocks` (*) |
| `SalesImportProofs` | `Invariance`, `TypeCorrect` | `IInv`, `TypeOK` |
| | `CompletedWasImported`, `ImportsBounded` | `CompletedMeansImported`, `RedeliveriesBoundImports` |
| | `AloneInvariance`, `PosImportedOnce` | `AloneInv`, `PosImportedOnceUnlessRaced` |
| | `JobsAreNotGivenUp` | the action property `NoJobIsGivenUp` (*) |
| `OfflineQueueProofs` | `Invariance`, `TypeCorrect` | `IInv`, `TypeOK` |
| | `QueuedIsNotLost`, `OneFlushAtATime`, `EvictedJustly` | `QueuedIsKept`, `OneTabFlushes`, `EvictedAfterFailures` |
| | `FlushWaitsForReload` | the action property `FlushNeedsReload`: why `NestedLocksAreFine` fails |
| | `DuplicatesBounded`, `SavedOnce` | `DuplicatesTakeReloads`, `SavedOnceUnlessRaced` |
| | `CallsWaitForFlushes`, `FlushesComeToTheirEnd` | `WaitsOnlyForAFlush` (*), the action property `FlushesShrink` (*) |
| `RecipesProofs` | `Invariance`, `References` | `IInv`, `Intact` |
| | `UploadedOnce`, `OneCategory` | `UploadedOnceUnlessRaced`, `OneCategoryUnlessRaced` |
| | `Acyclic`, `Expansions` | `AcyclicUnlessRewired`, `ExpansionFollowsPaths` |
| `ApiRequestsProofs` | `RequestInvariance`, `RequestTypes` | `IInv`, `TypeOK` |
| | `Authorised`, `AuditAgrees` | `OnlyAuthorised`, `AuditAgreesWithReply` |
| | `PoolMoves` | `SomeConnectionComesBack` (*) |
| `WhatsAppOutboxProofs` | `OutboxInvariance`, `ProcessingHeld`, `SentOnce`, `WebhookOnce`, `AcceptedDecided`, `ClaimsBounded` | `IInv` and the five invariants of the run `outbox` |
| `DashboardProofs` | `Invariance`, `OpenAwaits`, `CountsHold` | `IInv`, `OpenAnomalyAwaitsDecision`, `CountsHoldUnlessDisturbed` of PurchaseReview |
| | `OverturnsAreKnown` | the action property `OverturnedUntold` |
| | `ListInvariance`, `SettledIsCurrent` | `ListIInv`, `SettledIsCurrentUnlessDisturbed` of TransactionList |

The properties marked (*) are the safety behind a liveness property that a run checks (`EveryRequestEnds` of both modules, `JobsDecideTheirBatch`, `FlushEnds`): what must never happen for it to hold under the fairness of section 3. They are stated next to the invariants their proofs need, at the end of their modules, and no run lists them: the run's own property is the liveness.

`InventoryProofs` and `DashboardProofs` each hold the proofs of two components and extend both; the names of StockOperations and TransactionList that the other component has too carry a prefix (`StockInit`, `ListSpec`). The two share no state, and no theorem is about both.

The arguments:

- **InventoryCount.** That an item is adjusted at most once is not inductive: a second handler could hold a version that still matches. `IInv` adds that the version tells the status (0 absent, 1 open, 2 closed), that an adjustment exists only for a CLOSED batch, and that a handler about to reap or close holds version 1. A stale handler then holds a version that no CLOSED batch has, so that its UPDATE matches nothing. The refinement follows: only `StartCreate` and a matching UPDATE change what the book sees. Until requests have overlapped, `AloneInv` adds what the one handler at work knows: that the OPEN batch it found is the only one, that the batch it checked is still OPEN, and that the rows it read for the close are the table's. `WrittenWhileOpen` says of a row of another batch than the one checked only that the request named an OPEN one.
- **Procurement.** `IInv` says that a handler has seen an order that exists, and that one on the way through `receivePO` works on an order that is no DRAFT; nothing writes DRAFT again. For orders whose requests never overlapped, `AloneInv` adds what the single handler knows between its queries: the status it read still holds, and before the receipt is committed there is none. The step lemma says that `alone` only shrinks and that a handler of another order changes nothing of this one.

  For `OnlyThePoolDeadlocks`, `PoolInv` adds that the transactions are finitely many, never more than the pool has connections, and hold no row lock before their loop. Suppose nobody goes on. If a connection is free, every request in flight is in the loop of a transaction and waits for a row lock; a lock is held by a request past its loop, which does not wait for one. If none is free, the transactions have them all, and one that is past its loop waits for the connection of `updatePOStatus`, which is the way out the property leaves; were none of them past it, no row would be locked and the others would go on.
- **SalesImport.** The count behind the bound on imports is `imported + runs yet to import + (1 if the job is still to be delivered) <= 1 + stalls`, for a batch uploaded for the queue: taking a job moves the last 1 into a run, importing moves a run into `imported`, and a redelivery adds 1 to both sides. `YetToImport` is a finite set, and lemma `Leaves` says that a worker that goes on leaves its cardinality no larger. For a POS file `AloneInv` says that a batch PENDING, or read as PENDING by the one request on it, has not been imported. For `NoJobIsGivenUp`, `StallsHaveCauses` counts the redeliveries of a job, and the one that is due when its worker is gone, against the outages so far: BullMQ gives a job up only when it was redelivered as often as it may be and stalls again, which takes one outage more.
- **OfflineQueue.** The danger is that a flush removes an entry it read long before. `RemovedIsKept` says that at that point the mutation has been saved, evicted, refused, or queued again under a *later* id; the later id is what makes it inductive, since the removal of one entry can then not take away what keeps another. `KeptAfter` only grows, except for removals, which that argument covers. For `EvictedAfterFailures`, `FailuresCounted` bounds the tries of an entry together with the calls about to count one more by the failures there were: a failing call adds 1 to both sides, counting it moves a call into the tries, and reloads only take calls away. For duplicates, `CallsOwnMutations` says that a user's call works on a mutation nobody has saved or queued, so that only entries of the list can be saved again. With Web Locks a flush waits for ever at its second request of the lock (`FlushNeedsReload`: whoever flushes is the owner of the lock, so that nobody's `LockFree` holds), so it saves one entry at most and a reload must free the lock before the next one is saved: `SavedByHolders` counts that. Until calls overlap, `LiveEntries` says that a mutation has one entry that is not about to be removed, unsaved so far: queueing again makes a new entry live and condemns the old one in the same step, and saving condemns the one that is live.

  Without Web Locks a call writes back a list it read before, so that the invariants speak of every list, the stored one and those in `copy` (`Listed`, `Seen`): an id stands for one mutation wherever it was read, and what a list has lost that the writer never saw is in `overwritten`. While calls do not overlap, what was read is what is stored (`ReadsAreStored`).

  That a flush ends is a matter of its steps and of what it waits for. `Left` bounds the steps by six for each entry it has still to do and fewer within one, and every step of the flush, its reads of the list included, lowers it: the list was read once, so that entries queued meanwhile do not count. `FlushInv` says that what is left is finite, is not empty while the flush runs, and that only a flush holds the lock between two steps; a finite set of entries has a next one (`NextExists`), so that the only waits there are are the one for the lock and the one for another call of the same tab that is in the middle of a body, which waits for nothing.
- **Recipes.** `Intact` alone is almost inductive: a foreign key is a guard of the step that inserts a reference and of the step that deletes its target. What it needs is the shape of what requests carry between queries (`TasksFit`): that a row about to be inserted has the types of its table. For the uploads, `AloneInv` says what the only upload at work knows from a query it made earlier: from `CheckExisting` on, that no stored recipe is one it would make again (`Made`), and between the two queries of `ensureItemDependencies`, that no category is (`Ensures`). Every other step preserves this because it makes nothing an upload could make (`NoneMade`, `NoneEnsured`); that a client may create a recipe of the same name, rename a category or delete either in between does not matter.

  That no recipe uses itself is about paths of any length, and the library's induction theorems cannot be instantiated here. `Below(x)` is therefore defined as the least set of recipes that contains what `x` uses and is closed under using, and the invariant is `Grounded`: in every set of recipes there is one that uses none of the set. It gives the property, because the recipes that are below themselves are a set without such a recipe, unless there are none: each uses another of them (`BelowThrough`). A recipe that is created is used by none so far, so that a set with it is grounded by what grounds the rest of the set, or is the new recipe alone; deletions leave fewer sets. Only an `updateRecipe` that changes ingredients may break it.

  `ExpansionFollowsPaths` is inductive as `ExpansionsSound`. Every entry that an expansion has listed or has still to do came down the lines of the table, with the product along them (`CameDown`); no two of them came the same way or one on the way of the other; and every path goes on from one of them (`Begins`). When a recipe's lines take its place, an entry becomes those one line further (`LinesSound`, with `ConsumedGrows` for the product), and each path that went on from it goes on from exactly one of these (`LineDown`). At the end nothing is left to do and the entries listed use items: a path that goes on from one of them is that one. Between two queries the table only grows, as long as no recipe is updated or deleted (`TableGrows`), and a new recipe is on no path from one that was there, because nothing stored uses it (`PathsStay`). `SetInduction`, proved from the well-foundedness of the naturals with a set in place of the predicate, serves to show that `Product` satisfies its recursive equation (`ProductIs`). Nothing in the argument needs a graph without cycles: on a cycle the expansion just never comes to its end.
- **StockOperations.** `ReadRows` says that a completion in flight carries the row that is there, up to its status; `StillPending` that, for a transfer that never raced, the status too is what was read. `RacesAreSeen` connects the history with the calls in flight.
- **ApiRequests.** `PassedTheGuards` says of each position behind a guard that what the guard read was so at some instant since the request came in; the history `seen` only grows, so that a role taken away later does not matter. `AuditedWhenOver` says that the audit row is written when the answer stands. For the pool, `ConnectionsAddUp` says that the connections idle, lost and held are those there are, and `PoolInv` that only an import inside its transaction ever holds one while it waits for a second. If none is idle and nobody has all that his query takes, each connection is lost or held by such an import, which is `Dry`: requests, logins, lookups and audit writes never wait for each other's connections.
- **WhatsAppOutbox.** `OneHolder` is the core: a record that was always claimed has one invocation that holds it, is in a status out of every claim's reach as long as it is held, and has been sent only if that invocation is past the send. `DecidedStaysCompleted` does the same for the webhook. For `ClaimsAreBounded`, `EachClaimIsCounted` bounds the claims of a record by its failures, and by one more while no claim can take it: a claim takes it out of every claim's reach, and only a failure that is counted gives it back. A claim whose answer is lost counts like any other, and so does what is sent beside the claims.
- **TransactionList.** Nothing cancels a fetch, so that the one that matters is the one started last, as long as it is `fresh`: no change was missed since. `NewestIsAbreast` says that, unless another fetch is due, such a fetch has read, page by page, what it would read now, if it read its pages in one order (`Abreast`), and that once it has filled the list, the list is the table's. A change either sets `events`, so that a fetch is due and the invariant is asked again of the next one, or is missed, and so no fetch under way stays fresh. `Abreast` adds up pages: the lemmas about `Before` and `Page` say, for any order of the rows, that pages are disjoint and that the pages before one and that page together are the pages before the next, for any page size; that a page which is not full has no row behind it, so that the fetch may stop there, is a fact about cardinalities (`EveryRankTaken`, `PageFull`), proved from the finiteness of `Rows`.
- **PurchaseReview.** `OpenAnomalyAwaitsDecision` is inductive with the types of the statuses: both functions close what is open in the step in which they decide. `ToldAreOff` is what `OverturnedUntold` needs: a row whose decision the card has been told of is not listed, and a decision is sent for a listed row. `NewestCountsHold` is the argument for the counts: a count of the fetch started last is either still to be asked or what the table holds now, because a change in between is either a disturbance, which `dirty` records, or this card's own decision, whose answer is still to come and starts another fetch. The cardinalities do not need to be computed: a step that leaves `status` and `queue` alone leaves every `Count`.

Only model-checked are the liveness properties (`EveryRequestEnds` of both modules, `JobsDecideTheirBatch`, `FlushEnds`, `ComesToRest`): they need fairness and ENABLED, which are beyond these provers. Of the first four the safety behind them is proved (marked * above). Every other property of a passing run is a theorem. No module declares a RECURSIVE operator.

## 5. Disagreements met while modelling that no run shows

They follow from the models, or from lines the models stand for; a run of their own would ask the question of another run again.

Of races and failures that the properties named *UnlessRaced* and the like exempt:

- two starts of a count both find no OPEN batch, and each inserts one (`api/inventory/inventory-count.service.ts:37`); a count is checked against an OPEN batch and written after its close, so that the row changes and the ledger does not (`:76`), and, with no race at all, a row of a CLOSED batch is written through the path of an OPEN one (`:63-77`);
- two receipts of one order both read SUBMITTED and both book (`api/procurement/procurement.service.ts:59`); `cancelPO` over an order that is received meanwhile writes CANCELLED over RECEIVED, although the test says that a RECEIVED order cannot be cancelled (`api/procurement/__tests__/procurement.service.spec.ts:220`);
- two `processPosBatch` requests that both read PENDING import the file twice (`api/sales/__tests__/sales.service.pos.spec.ts:250` expects the second to be refused); and when the update to COMPLETED fails after the import was committed, the batch is FAILED and the stock is depleted (`api/sales/sales.processor.ts:116`);
- two completions of one transfer move its stock twice (`api/inventory/inventory-operations.service.ts:66`);
- two recipe uploads create a recipe, or a category, twice (`api/recipe/recipe.service.ts:155`, `api/item/item.service.ts:201`); an `updateRecipe` can make a recipe reach itself, whose expansion then never ends (`api/recipe/recipe.service.ts:67`), and one between two queries of an expansion makes it a sum along no path;
- the fallback of `processOutboxQueue` takes records that nobody claimed, so that two invocations send the same message, as often as it fails; a record whose invocation was cut, or whose claim's answer was lost, stays PROCESSING for ever; a decision that meets its record FAILED, between two tries, is answered with success and not stored, and so is one that differs from the decision stored before it;
- without Web Locks two tabs read the list of offline mutations and write it back, and what one of them queued in between is lost, although the user was told that it is queued (`web/lib/offlineQueue.ts:53-62`, `:82-87`, `:97-113`);
- the pool runs dry when every connection is lost to a failed `set_tenant_context` or held by an import or a receipt that waits for a second one: nothing limits either, and from then on no request ends (`api/common/kysely/tenant-context.driver.ts:18`, `api/sales/sales.service.ts:137`, `api/procurement/procurement.service.ts:108`);
- an older fetch of the dashboard that lands last overwrites a newer list; a page that fails leaves a shorter list without a word; a deletion that fails leaves its row off the list; what changes while a subscription is being confirmed, or while its channel is down, is not seen; two pages that order rows of one date and `created_at` differently skip a row or show it twice (`web/modules/finance/hooks/useTransactions.ts:92-94`);
- a purchase that one tab has decided is decided again by another that listed it before, and by the same tab when another row was clicked in between or a read of the list from before the decision lands late (`web/modules/finance/components/NeedsAttentionCard.tsx:113`, `:99`); a rejected purchase is released after 30 days (`supabase/migrations/20260609100724_et_schema.sql:3848`), and its younger anomalies stay OPEN, counted by the card and listed nowhere; a count that fails reads as 0 and may hide the card.

Of the values that pass:

- the freight's share of a purchase order's line is concatenated to the price, because the pg driver hands out NUMERIC as text (`LandedUnitCost`); a fraction makes the receipt fail;
- a change of 0.004 passes the ledger's guard against 0 and is booked as 0.00, although the guard says 'no-op entries are not allowed' (`api/inventory/ledger.service.ts:24-26`) and its test that zero is rejected (`api/inventory/__tests__/ledger.service.spec.ts:85`);
- a yield of 0.004, or a quantity of 0.00004, passes the validation of a recipe, and its column stores 0: the expansion divides by 0, or throws at the next recipe down (`api/recipe/recipe.service.ts:40-42`).

Of schema and code that do not fit:

- `createTransfer` inserts null into `franchise_group_id`, which is NOT NULL (`00001_initial_schema.sql:413`), and `recordOpeningBalance` uses a reason code that the CHECK of the ledger does not list: both always fail over the migrations;
- `assignUserRestaurantRole` inserts the body's camelCase keys as column names (`api/auth/permission.repository.ts:159`): it always fails, and is no action;
- `deactivateRestaurant` passes a `deleted_at` that `updateRestaurant` drops (`api/tenant/tenant.controller.ts:110`, `api/tenant/tenant.service.ts:57-64`): no restaurant is ever deactivated; and the bulk deletion of franchise groups compares what it found with null (`:74`), which a missing row is not: only the foreign key refuses anything;
- `upsertUomConversion` names a conflict target for which there is no unique constraint (`api/item/item.repository.ts:365`);
- the CHECK of `items.type` lists RAW and not INGREDIENTS (`00001_initial_schema.sql:174`), the type `ensureItemDependencies` gives an item (`api/recipe/recipe.service.ts:137`, `:182`): an upload of recipes makes no item; `createCategory` inserts `item_type` and `category_group` (`api/item/item.repository.ts:303-304`), columns that the categories of `00001_initial_schema.sql:148` and `20260609100555_ims_schema.sql:99` lack and that `20260611120004` adds to another table, `item_categories` (`:32-35`): no category is ever created; `idx_items_sku` is unique across restaurants, while the lookups are by restaurant; two calls of `generateSku` propose the same SKU;
- `processOutboxQueue` has no caller in the repository apart from its tests, and `set_outbox_delivery_result_v1`, which it calls, is defined in no migration;
- `resolve_purchase_quarantine_v1` sets `purchase_anomaly_queue.resolved_at` (`20260609100724_et_schema.sql:3924`), a column that neither the table (`:2953`) nor any later migration has: every decision of the review fails and its purchase stays PENDING, although the feature says that its status is then RELEASED (`apps/web/features/db-triggers.feature:26-27`);
- `release_expired_quarantines_v1` writes `purchases.released_at` and `purchase_anomaly_queue.resolved_at`, which no migration adds: it reports an error for each tenant and releases nothing; `approve_purchase_v1` and `reject_purchase_v1`, as `20260611120001_transition_unified.sql:308-319` redefines them, write `is_quarantined` and `reviewed_at`, which the tables of the expense schema lack;
- `domain_events` exists with other columns (`20260611120002_event_store.sql:7`) when `20260612000400_phase10_cqrs.sql:14` would create it, so that its index on `occurred_at` fails; `start_saga` orders by `ordinality`, which no WITH ORDINALITY provides (`:297`); the triggers of `20260612000401` test 'cancelled', 'paid', 'discrepancy' and 'failed' (`:82`, `:90`, `:201`), which nothing writes or a CHECK refuses (`20260612000100_phase7_domain_expansion.sql:111`);
- a notification rule may have the channel 'both' (`20260612000500_notification_routing.sql:16`), an attempt may not (`:83`).

Of the browser:

- behind a flush that waits for its own Web Lock (`offline_nested`) every later `enqueue` of every tab waits, until the tab is reloaded; then the entry is sent again (`FlushNeedsReload`, `DuplicatesTakeReloads`);
- a queued scan fails in every flush and is evicted; `apps/web/tests/features/scanner.feature:34` promises that it is processed later;
- a full localStorage: `enqueue` drops the mutation and the user is told that it is queued (`web/modules/finance/hooks/useScannerState.ts:65`);
- `reset` of the statement scanner empties neither `transactionsRef` nor stops the scan under way, whose rows come back when it ends (`web/modules/finance/hooks/useStatementScanner.ts`).

Of the process:

- `updateLastLogin` is neither awaited nor caught: when it rejects, Node ends the process with all its requests (`api/auth/auth.service.ts:77`);
- each `set_tenant_context` that throws costs the pool a connection for good (`api/common/kysely/tenant-context.driver.ts:18`).

## 6. What the models leave out, of what they model

- Several restaurants and tenants, in InventoryCount, Procurement and SalesImport: every table is seen by one. Lists and searches are filtered by restaurant; `findBatchById` and `findPOById` are by id alone, so that a request of one restaurant that names a batch or an order of another is one more request on it.
- Fractions of units outside StockOperations, which models them: the others use whole quantities.
- Lock order of rows: `Fail` covers Postgres breaking a deadlock of two receipts with several lines each.
- The franchise group as the owner of items: the interceptor lets no request through without a restaurant, so that no row of the catalogue gets a group.
- Sort orders, search and filters of lists; the dates of months; exports and the formats of files.

## 7. What is not modelled, and why

- **Event store and sagas**: triggers on purchase orders, goods receipts and matches call them, but they cannot run over the tables of the earlier migrations (section 5): there is no behaviour to be faithful to.
- **POS batches of the expense schema, the queue of the graph sync, `approve_purchase_v1` and `reject_purchase_v1`**: SQL functions that no TypeScript of the repository calls. Several are redefined by later migrations, and no caller says in which order they are meant to run.
- **What a WhatsApp decision does** to a purchase order or a POS batch (`poApproval.ts`, `posDiscrepancy.ts`): each calls a database function that later migrations replace or drop.
- **Analytics and reporting, external integrations**: read-only queries, formatting, and reads behind an API key.
- **Notification routing**: a lookup of recipients inside one insert into the outbox, which `WhatsAppOutbox!Insert` is.
- **The tables and dialogs of the web application**: they fetch when mounted and after their own mutations; what they show is rendering. Web libraries and shared packages are formatting, types, schemas, translations and clients without state.
- **Generated types** (`packages/shared-supabase`, `packages/types`), **scripts, end-to-end tests, deployment**: not part of the running system.
- **Vendors and vendor items, unit conversions, profiles, names and time zones**: one row, one statement, nothing that reads it in between.

The map covers about a sixteenth of the implementation's lines. Most of the rest is JSX, generated types, SQL that nothing calls, and seed scripts: no state that two actors share, and so nothing these models could say about it.

## 8. What could come next

1. The server actions of a decision, once the functions they call are settled in the migrations; composed with `WhatsAppOutbox!Decide`.
2. The event store and its sagas, when they fit their tables: append with MAX + 1 under a unique key against an abstract log.
3. `ApiRequests` with the handlers of the other components in place of `import`, so that leaks and waiting transactions are counted over all of them.
4. Lengths of the queue: what happens to entries when localStorage is full is modelled as a refusal; the size at which it is full is not.
