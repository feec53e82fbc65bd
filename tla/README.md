# Tableplan: specifications, model checks and proofs

Tableplan is a household meal planner. The repository holds two programs that
share one MongoDB schema: the original TypeScript application on Cloudflare
Workers (`app/`, `src/`, `workers/`, `gateway/`, `scripts/`) and its port, a
Spring Boot service in Kotlin with a single-page client (`port`). This directory
specifies both in TLA+, checks them with TLC, and proves with TLAPS, for every
value of the constants, nearly every safety property the checks look at (section
4 says which ones are left).

The two are concurrent in different ways. The port keeps a job queue in MongoDB,
whose threads call out to an e-mail and an extraction provider, and uses
transactions and version checks. The TypeScript program has neither: a request is
a handler that awaits one database command after the other through a gateway, a
queue and a workflow engine repeat what failed, and what holds, holds because of
the filters of single commands.

Paths of the port's backend are relative to
`port/backend/src/main/kotlin/com/tableplan`, all others to the root of the
repository; in `PROJECT.json` that root is `src/`.

## 1. The system

The port:

| Component | State | Operations | Interacts with | What makes it correct |
| --- | --- | --- | --- | --- |
| Job queue (`jobs/JobService`, `jobs/JobRunner`) | `jobs` documents: status, attempts, availableAt, leaseOwner, leaseExpiresAt; in each process a semaphore and a thread pool | publish, claim, complete, fail, replayDead; poll, shutdown | every asynchronous feature | a lease is respected; a job is always reachable; every job settles; attempts are limited; permits are backed by threads |
| Shopping e-mail (`email/EmailDeliveryService`, `ShoppingEmailJobHandler`) | `email_deliveries`: status, updatedAt | create, send | job queue, provider, shares | a published delivery is sent or visibly failed; not mailed twice; "sent" is true |
| Private ingestion (`ingestion/IngestionService`, `RecipeExtractionJobHandler`) | `ingestions`: status, draft; recipes; mutation events | create, extraction, publish, updateOwnedRecipe | job queue, artifact store, extractor | one recipe per ingestion; the reviewed draft is the published one; nothing forgotten |
| Catalogue import (`importer/CatalogImporter`) | `import_runs`: checkpoint, counts, status; `recipes`, `import_issues` | import, flush, checkpoint | operator commands | resuming loses nothing; the first row of an id wins; counts tally |
| Shopping lists (`shopping/ShoppingService`) | `shopping_lists`: items, version | generate, refresh, toggle | meal plans, shares | check marks survive a refresh; no older plan comes back |
| Shopping shares (`sharing/ShoppingShareService`) | `shopping_shares`: token hash, revokedAt, expiresAt | create, resolve, toggle, revoke | shopping lists, e-mail | a guest only changes marks, and they are kept |
| Meal plans (`planning/PlanService`) | `meal_plans`: items, version | ensure, add, remove, servings, clonePrevious | shopping lists | no meal lost or copied twice |
| Households (`tenant/*`) | households, memberships, invitations | create, invite, accept, revoke | sessions | members were invited; an invitation is used once; a role is kept |
| Accounts and sessions (`auth/*`) | users, credentials, sessions, one-time tokens | register, sign in, verify, reset, switch household | households, e-mail | a reset ends every session; a token is used once |
| API keys and filters (`auth/ApiKey*`) | `api_keys` | create, revoke, authenticate | REST, MCP | a scope is never exceeded |
| Schema migration (`migration/*`) | migration records, indexes, validators | reconcile | every collection | a second run changes nothing |
| Quantities (`quantity/QuantitySupport`) | none | convert, scale, add | shopping lists | amounts add up |
| Recipes, exports, PDF, controllers, MCP, configuration | none of their own | queries, rendering | everything | - |

The TypeScript program:

| Component | State | Operations | Interacts with | What makes it correct |
| --- | --- | --- | --- | --- |
| MongoDB gateway (`gateway/app.ts`, `src/storage/mongo-gateway.ts`) | a count of requests in flight, the connection, the contexts kept for the log | connect, admit, execute, answer; the caller's deadline | every storage adapter | what a caller is told is true; the count comes back |
| Index maintenance (`gateway/index-sync.ts`, `migrate.ts`) | the indexes of the collections | plan, drop, create | operators | a finished sync leaves the schema's indexes; good ones are never gone |
| Planning (`src/storage/mongodb/plans.ts`) | `meal_plans` | add, remove, servings, copy the week | recipes, lists | no meal lost or copied twice |
| Shopping lists (`src/storage/mongodb/shopping.ts`, `src/domain/quantity`) | `shopping_lists` | generate, refresh, toggle, display | plans, recipes, links | the list adds up the week; marks belong to their lines |
| Ingestion (`workers/recipe-ingestion.ts`, `src/storage/mongodb/ingestions.ts`) | `ingestions`, the workflow's step, the agent's state | submit, extract, review, publish, cancel | workflow engine, provider | one recipe per ingestion; a status is backed |
| E-mail (`src/email`, `src/storage/mongodb/email.ts`, `workers/app.ts`) | `email_deliveries`, queue messages | ask, enqueue, claim, send, record | queue, provider, links, invitations | a mail is repeated only after a recorded failure |
| Households (`src/storage/mongodb/households.ts`, `tenant.ts`) | households, memberships, invitations, profiles | make sure of a household, invite, accept, revoke, switch | every request | memberships are earned; settled invitations stay |
| Links (`src/storage/mongodb/shares.ts`, `src/sharing`) | `shopping_shares`, the browser's cookie | create, exchange, read, tick, revoke | lists, guests | a guest stays inside the link |
| Sessions and keys (`workers/auth-session-store.ts`, `src/auth`) | one object per session with its alarm; `api_keys` | get, set, increment, delete, alarm; create, find, check | every request | access runs out when it should |
| Catalogue import (`scripts/import-recipes-mongodb.ts`, `src/import`) | `import_runs`, recipes, tags, issues | parse, flush, checkpoint, facets | operators | what is behind the checkpoint is stored |
| Search (`src/storage/mongodb/recipes.ts`, `app/routes/recipes.tsx`) | saved searches; the grid of the page | filter, page, merge, count, load more | recipes | a grid that says it is complete is |
| Client of the port (`port/frontend`) | the cache of queries, the token against forged requests, what a page shows | read, change, invalidate, retry | the port's backend | a page shows what its own user changed |
| Pages, REST routes, MCP tools (`app/routes`, `src/mcp/server.ts`) | none of their own | the doors to the operations above | everything | every door does the whole operation |

What is hard here, and is listed line by line under `hazards` in
`PROJECT.json`:

- *Interleaving.* Several processes poll one queue and several threads share one
  lease owner; members, guests and refreshes write one list document; the
  commands of two handlers of the TypeScript program mix freely.
- *Crashes.* A process dies between two writes that no transaction holds
  together; what it left must be found again by a filter.
- *Time.* Leases are not renewed; a job's lease and a delivery's staleness are
  two clocks of two minutes each that start at different moments.
- *Lost answers.* The provider accepted a message, the database applied an
  update, and the caller never learns of it.
- *Repetition.* Queue messages come twice, workflow steps are run again, a second
  tab sends the same request, a client retries a refused one.
- *Stale reads.* A page, a cache or a handler acts on what it read a while ago.
- *Resumption.* The import keeps state in memory, in the checkpoint and in the
  rows already stored, and the three must agree whenever it stops.

## 2. The modules

| Module | Models | Extends or instantiates |
| --- | --- | --- |
| `WorkQueue` | what the queue promises, without time, threads or filters | - |
| `JobQueue` | `JobService` and the `JobRunner` of every process | instantiates `WorkQueue` |
| `JobQueueProofs` | theorems about `JobQueue` | `JobQueue`, `TLAPS`, theorem libraries |
| `JobHandling` | a request that stores a document and then publishes its job; a handler that works in steps | `JobQueue` |
| `EmailDelivery` | creating and sending deliveries on the queue | `JobHandling` |
| `Ingestion` | creating, extracting and publishing on the queue | `JobHandling` |
| `CatalogImport` | one import run and its importer process | - |
| `EmailDeliveryProofs` | theorems about `EmailDelivery` | `EmailDelivery`, `JobQueueProofs` |
| `IngestionProofs` | theorems about `Ingestion` | `Ingestion`, `JobQueueProofs` |
| `CatalogImportProofs` | theorems about `CatalogImport` | `CatalogImport`, `TLAPS`, theorem libraries |
| `ShoppingList` | a list, its members, its guests, the plan's version | - |
| `ShoppingListProofs` | theorems about `ShoppingList` | `ShoppingList`, `TLAPS` |
| `Households` | registration, sessions, invitations, memberships | - |
| `HouseholdsProofs` | theorems about `Households` | `Households`, `TLAPS` |
| `MongoGateway` | one call through the gateway, for each caller | - |
| `IndexSync` | migration and index synchronisation of one collection | - |
| `WebPlanner` | the meals of a week, its lists, the requests that change them | - |
| `WebShopping` | what the lines of a list are: parsing, adding, marks, display | - |
| `WebIngestion` | one private recipe from its source to its publication | - |
| `WebEmail` | mails on the queue, of lists and of invitations | - |
| `WebHouseholds` | households, invitations and default households | - |
| `WebAccess` | the session store and the API keys | - |
| `WebImport` | the TypeScript import of one file | - |
| `WebSearch` | filters, pages, counts, saved searches, the grid | - |
| `WebShares` | links, the guest's cookie, one of its tabs | - |
| `PortClient` | the single-page client: its cache and its pages | - |
| `WebAccessProofs` | theorems about who gets in and what a reader finds | `WebAccess`, `WebShares`, `WebHouseholds`, `WebSearch`, `TLAPS`, theorem libraries |
| `WebDataProofs` | theorems about what becomes of the data | `MongoGateway`, `IndexSync`, `WebEmail`, `WebIngestion`, `WebPlanner`, `WebShopping`, `WebImport`, `PortClient`, `TLAPS`, theorem libraries |
| `MCJobQueue`, `MCEmailDelivery`, `MCHouseholds` | symmetry for TLC | the module each is named for |
| `MCWebShopping` | the recipes of the instances | `WebShopping` |
| `MCApplication` | `ShoppingList`, the eleven `Web...` and gateway modules and `PortClient`, side by side | all of them |

Definitions whose comment says *Mutant* are plausible mistakes in the code;
`PROJECT.json` pairs each property with the one that breaks it.

### JobQueue

A `Worker` is one incarnation of a process, since `JobRunner` draws a fresh
`workerId` when it starts: a restart is another element of `Worker`. `task[w][t]`
is the `LeasedJob` a thread runs, with the attempt number it was handed;
`permits[w]` is what is left of the semaphore. `avail` and `lease` are
`availableAt` and `leaseExpiresAt` relative to the clock, so a single `Tick`
moves all deadlines and the state space stays finite. `AgeBound` caps how far in
the past an `availableAt` is told apart; it only matters to the order in which
overdue jobs are claimed.

`Publish`, `Claim`, `Settle` and `ReplayDead` are the atomic MongoDB updates
with everything the calling thread does around them: `Claim` takes the permit,
updates the document and starts the thread; `Settle` ends the handler with any
`Outcome`, updates the document if the lease is still owned, and releases the
permit. What goes wrong has actions of its own: `ClaimFails` (the query throws
and the permit is lost, because nothing releases it), `ClaimOrphans` (the
update is applied but the reply is lost, or the executor rejects the job),
`SettleFails` (the update of `fail` throws), `Crash`, `Stop` and `Exit`
(shutdown). A tick by which a running handler outlives its lease counts as a
fault, so `FaultBound` limits slow handlers and lost database calls together.

### JobHandling, EmailDelivery, Ingestion

`JobHandling` adds the request (`request[j]`: stored, published, or lost in
between) and a program counter per handler thread. A delivery or an ingestion
has exactly one job, under an idempotency key made of its id, so it is named by
its job. Every database or provider call of a handler is a step of its own, and
can fail; the outcome labels `ok`, `retryable` and `fatal` are where the handler
returns or throws, and `Return` lets the runner record them with `Settle`.

`EmailDelivery`: `ClaimDelivery` is the delivery's own claim with its staleness
test; `SendAccepted`, `SendUnanswered` and `SendFails` are the provider's three
behaviours, counted in `inbox`; `MarkSent` and `MarkFailed` are the guarded
updates after it.

`Ingestion`: `Load`, `Extract`, `ExtractFails` are the handler;
`BeginPublish` is publish's read outside its transaction and `CommitPublish` the
transaction (atomic, with the unique key of the mutation event and the status
it finds); `AbortPublish` covers requests that die.

### CatalogImport

The file is chosen in `Init` among all files of `Rows` rows: each row has an id
or none, and parses or not. `Start` is one invocation, which re-reads the file
from its first row and only remembers the ids of the rows before the checkpoint;
`FlushRecipes` and `FlushIssues` are the bulk writes in their order, `Checkpoint`
the update after them. `Crash` stops anywhere, with any part of an unordered
bulk write applied; `Catch` is the exception path, which stores the row last
read as the checkpoint.

### ShoppingList

A line is an aggregation key. `ReadList`, `Aggregate` and `WriteList` are the
steps of refresh; the last compares the version the first one read. `Toggle`
bumps the version, `GuestToggle` does not, and neither finds an item of an array
that has since been replaced (`generation` names the arrays). `unversioned`
remembers, for the properties only, which lines a guest toggled since the
version last moved.

### Households

A household is named by the user who founded it, a user by the e-mail address,
which is unique. `Register` is one transaction; `SignIn` opens a session on the
household `userView` picks; `Switch` and `SetDefault` are the two writes of
switching. `Invite` revokes what is pending for the address and `Insert` adds the
new invitation, two writes with no transaction; `OpenInvitation` is what accept
reads first, `Accept` its transaction. The expiry is compared with a time taken
before the transaction, so `Claimed` does not look at it again. Nothing in the
code removes a membership, so there is no action that does.

### MongoGateway, IndexSync

`callPc[c]` is where the gateway is with the call of a caller: `Send`, then
`EnsureConnected` and `ConnectSettles` (one connection for all, awaited by all),
`Admit` and `Accept` (the limit is compared before the body is awaited, the
request is counted after), `Write` for each document of the command, and
`Finish`. `Expire` is the caller's timer and `Abort` what it does; neither
touches the gateway's side, which goes on. `EncodeValue` and
`DecodeValue` are the wire encoding, by what it does to dates, object ids and
patterns one level deep. `Stop` ends the process anywhere.

`IndexSync` has one action per command a sync sends (`ApplyNext`), with the plan
computed once by `PlanSync`; the database (external) refuses what MongoDB
refuses. `Interrupt` ends it between two commands, `Migrate` only creates, and
`IndexInit` starts from any of the sets of indexes earlier releases left.

### WebPlanner, WebShopping

In `WebPlanner` each tab is one request: a page action, a REST route or an MCP
tool, as named by the comments over the actions that start one. Its steps are the
commands the handler awaits, in their order; `RefreshStart`, `ReadPlan`,
`ReadRecipe` (one recipe at a time) and `StoreList` are the refresh that ends
every handler which changes the week. One recipe stands for all, so that a list
has one line, and `overtaken` and `cut` remember, for the property only, that a
list was stored from a plan that had changed since or without a recipe its reader
was not shown, or that a request was cut off. That a hidden recipe must be
excepted is what TLC showed with a fourth request: `setVisibility` looks for the
recipe in the plans before it writes, a meal added in between gets a list without
it, and to share the recipe again refreshes no list.
`WebShopping` is the complement: requests are atomic, lines and amounts exact. A
recipe's lines are parsed, scaled by `Scale`, grouped by `KeyFor`, added, stored,
marked by `Refreshed` and shown by `DisplayQuantity`. Factors of units are whole
numbers, and servings whole multiples, so nothing is rounded. Lines of one recipe
with the same text have the same key and become one item: `ListAddsUp` asks of it
the amounts of all of them (`Times`).

### WebIngestion, WebEmail, WebHouseholds

`WebIngestion` follows one ingestion: the request (`Submit`, `StoreSource`,
`ExtractLocally`, `StartWorkflow`), the workflow, whose engine runs a step again
when its attempt failed or its record was lost (`StepRecorded` is separate from
what the step did), the agent, which may hear of the end before
`AgentStarted` has told it which ingestion it serves, and the requests to publish:
`PublishClaim`, `PublishInsert`, `PublishFinish`, three writes without a
transaction. `reopened` remembers that a status set by publish was overwritten,
which the code allows.

`WebEmail`: `asker[m]` is the request, `queue[m]` the copies of its message.
`Duplicate` and `Deliver` are the queue; `Claim` the filter of `email.ts`;
`SendMail(m, c, told)` the provider, which may have accepted although the consumer
was not told; `RecordFailed` sends the message back or acknowledges it.

`WebHouseholds`: every request first makes sure of a household (`ReadProfile`,
`PickHousehold`, `UpsertHousehold`, `UpsertMembership`, `WriteDefault`), in
commands of their own; then it invites, accepts, looks or switches.

### WebAccess, WebShares

A Durable Object runs one event at a time, so an operation of the session store
is atomic but for the end of the object between `put` and `setAlarm`
(`whole`, remembered in `torn`). Keys are looked up, checked and used in separate
steps while they are revoked.

`WebShares` follows one tab of a guest: the exchange of the link's token for the
browser's one cookie, the page, and requests that resolve the cookie in one
command and read or tick the list in the next. `OtherTab` is all another tab can
do to it.

### WebImport, WebSearch, PortClient

`WebImport` is the TypeScript import: a batch is written by parallel bulk writes,
so whatever cuts it short leaves any part of each. Rows are characterised by how
their cells parse (`ParseStringList`, `NormalizeTag`, `ServingsFlags`).

`WebSearch`: `RecipeSearchParams` and `ReadFilters` are the way of a filter
through the URL; `SearchPage` is the store's answer, in each of its three ways to
page, and `Extend`, `Render` the two steps in which the grid takes an answer, with
`owed` the recipes it must show by the time it says that there are no more.
Which recipes a text matches, and their score, is given (Atlas Search is
external), and so is the order of `localeCompare`.

`PortClient`: `Pages` says, for every page, what it reads, whether through the
cache, and which handlers it has, what they read again afterwards and where they
go. A resource is the set of the changes made to it; `ServeRead` is the moment
the backend answers, `TakeAnswer` the one at which the page shows it.

### MCApplication

These components share the database but, as modelled, no state: each has the
operations of the others that it feels as actions of its own (`RefreshItems` in
`WebShares`, `ChangeVisibility` in `WebSearch`). `MCApplication` puts them side by
side; an execution picks one `part` and follows it alone. That is a way to check
thirteen systems in one run, exhaustively each; it says nothing of one
component acting on another beyond those actions.

## 3. The runs

All passing runs finish in a few minutes; deadlock checking is off everywhere
because these systems may rest: all jobs settled, the run completed, the bounds
used up.

| Run | Instance | What it shows |
| --- | --- | --- |
| `jobqueue_safety` | 1 job, 3 processes of 2 threads, 3 attempts, 2 faults, 1 replay, symmetry | `LeaseShape` (an owner and a lease exactly while running), `PermitBacked`, `LeaseRespected`, and the refinement `IsWorkQueue` |
| `jobqueue_live` | 2 jobs, 2 processes of 1 thread, 2 attempts, 2 faults, 1 replay | `AttemptFenced`, and under fairness `EveryJobSettles` |
| `email` | 1 delivery, 2 processes of 2 threads, 1 fault, 1 replay | `RetriesDoNotDuplicate`, `SentIsTrue`, `DeliverySettles` |
| `email_stuck` | 1 delivery, 2 processes of 1 thread | violated: `SendingIsReclaimed` |
| `email_duplicate` | the same | violated: `NoDuplicateMail` |
| `ingestion` | 1 ingestion, 2 processes of 1 thread, 2 reviewers, 2 drafts, 1 fault, 1 replay | `OneRecipe`, `ReviewedIsPublished`, `IngestionSettles` |
| `import` | every file of 3 rows over 2 ids, batches of 2, limits 1 and 2, 1 exception, 1 kill | `FirstRowWins`, `CheckpointCovers` (the counts included), `ImportCompletes` |
| `import_loss` | the same files, 1 exception | violated: `NothingIsLost` |
| `shopping_guest_mark` | 1 line, 1 member, 1 guest | violated: `MarksAreKept` |
| `households` | 2 users, 2 invitations, 1 inviting request, 2 tabs, symmetry | `SessionInside`, `MembersWereInvited`, `PendingBounded`, `InvitationsAreFinal`, `RolesAreKept` |
| `application` | the thirteen parts below | the twenty properties below |
| `web_marks` | 2 recipes of 3 lines, 2 meals | violated: `CheckedStateSurvives` |

The type invariants of `JobQueue`, `ShoppingList` and `Households` are proved for
every instance (section 4) and in no run.

The parts of `application`, 905,384 states in all:

| Part | Instance | What it shows |
| --- | --- | --- |
| port lists (`ShoppingList`) | 2 lines, 2 refreshing members, 1 guest, 1 plan edit, 2 toggles | `RefreshKeepsMarks`, `NoOlderPlan`: a refresh that lost the race writes nothing |
| gateway | 2 callers, a limit of 1, 7 requests: each way to be refused, each kind of operation; 1 end of the process | `AnswersAreTrue`, `NothingLeaks` |
| indexes | 2 managed indexes, 3 names, 3 shapes, 2 runs, every set of indexes an older release can have left | `SyncedIsManaged`, `GoodIndexesStay` |
| planner | 3 meals, 2 tabs, 2 servings, 3 requests, 1 edit of the recipe | `MealsAreKept`, `RestingListIsCurrent` |
| shopping | 2 recipes of 4 and 3 lines, one of every form and one written twice, 2 meals | `ListAddsUp`, `MarksComeFromTheList` |
| ingestion | 2 requests to publish, 2 attempts of a step | `OneRecipeUnlessReopened`, `StatusIsBacked` |
| email | 1 mail, 2 copies of its message, 3 tries, a limit of 1 | `RepeatsFollowFailures` |
| households | 2 people, 2 invitations, 2 tabs, 3 requests | `MembershipsAreEarned`, `SettledInvitesStay` |
| access | a clock of 3, a counter of 2, 1 caller with the key | `AccessRunsOut` |
| import | every file of 3 rows out of 5 kinds, batches of 2, limits 0 and 1, 1 kill or error | `CheckpointIsDurable` |
| search | 6 dishes, pages of 2, 2 orders, 4 wishes, 1 change | `SearchIsComplete` |
| shares | 2 lists, 2 links, 1 refresh of an item | `GuestsStayInside` |
| client | 5 resources one at a time, 1 change, 2 reads in flight, 3 pages | `ReadYourWrites` |

Why the bounds are enough. Two processes let a lease be taken over while its
first thread is still running; the third lets that happen twice, and lets a
crash follow it. Two threads in one process are what defeats the fence by
process name, one thread what makes it work, so the two job-queue runs differ
in that. Two ticks of lease and of staleness are the least that separate "just
claimed", "about to expire" and "expired"; the back-off of one tick, capped at
two, is shorter than the lease as in the code. Two attempts are one retry and
the last. Three rows in batches of two make a full batch, a rest, a duplicate of
a row behind the checkpoint and a limit in the middle and at the end of a batch.
Two users, each with a household, and two invitations make a reinvitation, two
offers of different roles to one address, and an acceptance that meets a
revocation; the second tab makes the double acceptance. That an adult cannot
make adults needs a third user: that part of `MembersWereInvited` is proved, not
run. With one inviting request `PendingBounded` says that an address has one
pending invitation; the code promises no more than one per request that
overlaps, because the index on pending invitations is not unique.
Of the TypeScript program: two of each actor that can race itself, and one
more request than tabs, so that a tab can start again while the other is in the
middle; two requests to publish make a winner and a loser; two copies of a
message a duplicate, three tries its first, a repeat and the last; a limit of
one makes the second call or invitation the refused one. Mails meet only where an
invitation revokes the pending ones and where they are counted, and
`RepeatsFollowFailures` speaks of one mail, so one is followed. Two links to two
lists under one cookie make every confusion between tabs. Six dishes with pages
of two make a first, a middle and a last page in each way to page; two reads in
flight and one change make the answer that is older than the change.
A fault in each combination with a crash, a stop and a replay is one of the
histories the properties are about; more of each repeats them.

Fairness. `Tick` is weakly fair: time passes. A process is started
(`Start`): the service manager restarts it, and a crash is only taken when some
incarnation is left to run, which stands for that manager. A running process
keeps polling (`poll` is scheduled at a fixed delay and catches what it meets),
so `ClaimSome` is weakly fair per process. A handler makes progress
(`SettleSome`, `HandlerStep`, `ExtractionStep`): its calls have timeouts. No
fairness is assumed of requests, reviewers, replays, guests or faults. For the
port's import, a process that is not interrupted goes on, and the operator repeats the
command until the run is completed, as the import guide tells them to.
The modules of the TypeScript program state no fairness: their properties are
safety, for what they would owe the user in the end depends on a queue and a
workflow engine that this repository does not hold, and much of it the code does
not promise (a delivery left in `sending`, an ingestion left in `publishing`).
`EveryJobSettles` and `IngestionSettles` except the state `Drained`, in which
every process left has lost all its permits to failed claims: the code does get
there, because nothing gives such a permit back, and only a restart helps.

### Where the code and its documents disagree

- `email_stuck`: the operations guide says deliveries left in `sending` are
  reclaimed after two minutes. The job's lease starts first, so the job can be
  taken over before its delivery is stale; the handler then returns without
  sending, the job is completed, and nothing reclaims the delivery.
- `email_duplicate`: the phase plan calls handlers idempotent across crashes. A
  crash between the provider's acceptance and `MarkSent` repeats the message.
- `import_loss`: the import guide says an interrupted import resumes from the
  last durable checkpoint. After an exception the stored checkpoint is the row
  last *read*, so the rows of the batch in hand are skipped.
- `shopping_guest_mark`: the phase plan says toggles are not lost silently. A
  guest's toggle does not move the version, so a refresh that read the list
  before it undoes it.

- `web_marks`: the phase plan says that regeneration never silently discards
  checked state. A refresh carries marks over by name and preparation; two lines
  of one ingredient whose units do not convert share that key, and the mark of
  the last one is given to both.

Met while reading, and modelled as the code has them where they touch the state,
but stated by no run:

- `docs/meal-planner-application-plan.md:112` has lists aggregated by canonical
  ingredient; `aggregatePlan` passes none, so lines are grouped by their text.
- `docs/operations/recipe-import.md:125`: the TypeScript importer, too, sets the
  checkpoint past rows it never wrote when it catches an exception.
- `docs/implementation-progress.md:166`: the search in every scope merges two
  pages, cut in the database's order of names, by `localeCompare`; where the two
  orders differ a page can miss recipes. `SearchIsComplete` excepts this case.
- `app/routes/api.meal-plan-item.ts` looks for an error that contains
  "not found"; the store throws `plan_item_not_found`.
- When two managed indexes have each other's names, the sync plans a command
  which the server refuses; it fails, and fails again when repeated.
- `copyWeek` reports the number of copied items to the request that lost the race
  and copied nothing.
- An ingestion whose request dies between the claim and the last write of publish
  stays in `publishing`.
- `setVisibility` checks that no other household plans the recipe and then
  writes; a meal added in between keeps a recipe its household cannot see. The
  refresh after it leaves the recipe out of the list (`aggregatePlan` skips what it
  does not find), and nothing refreshes the list when the recipe is shared again.
- In the port's client the join page takes the answer of registration, a message,
  for a session (`AuthPages.tsx:267`), and a toggle that fails puts back the list
  as it was before other toggles (`ShoppingPages.tsx:87`).
- A browser has one cookie for all links: opening a second one makes the page of
  the first answer that the link is gone.

## 4. What is proved

Each table gives the theorems of one module. They hold for every value of the
constants that satisfies the assumptions named with them; the other lemmas of
the modules lead up to these. An invariant called inductive below holds at first
and is kept by every step, which is what the proofs show action by action; TLC
checked each of them on the instances of section 3 before it was proved.

### The port

`JobQueueProofs`, for every finite set of threads, any sets of jobs and
processes, and any values of the times and bounds:

| Theorem | States |
| --- | --- |
| `TypeCorrect` | `Spec => []TypeOK` |
| `LeaseShapeHolds` | `Spec => []LeaseShape` |
| `PermitBackedHolds` | `Spec => []PermitBacked` |
| `LeaseRespectedHolds` | `Spec => LeaseRespected` |
| `Refinement` | `Spec => IsWorkQueue` |
| `OneThreadFences` | with one thread per process, `Spec => []AttemptFenced` and `[]RetryLeft` |
| `NoJobIsLost` | `Spec => []WithinReach`, and every step has `StaysInReach` and `TimeHelps` |

The assumptions are those of `JobQueue`: the set of threads is finite, the
times and bounds are natural numbers (the lease time and the number of attempts
positive), and the null values are none of the others. The inductive invariant
is `TypeOK /\ LeaseShape /\ PermitBacked` with `OffIsIdle` (a process that has
not started, or is gone, has no permit and no task). `PermitBacked` needs
`OffIsIdle` because `Start` hands out all permits, and `Claim` needs a count of
idle threads before and after one is taken, which is the lemma on cardinalities.
`LeaseRespected` and `Refinement` are proved action by action from this
invariant: only `Record`, `LeaseTo`, `Publish` and `ReplayDead` touch a
document, and their guards exclude a running job with a valid lease or require
`Owned`. `LeaseShape` is what makes `Owned` name a process. For
`OneThreadFences` the invariant adds that the thread of a process that holds a
task leaves no permit, so that the process cannot lease the same job again while
its thread still runs an older attempt of it. `RetryLeft` is proved and in no run.

`NoJobIsLost` is the part of `EveryJobSettles` that needs no fairness. A job that is
published and has no outcome may be claimed in `TicksLeft(j)` ticks, which is no more
than one lease or the longest backoff (`WithinReach`); each tick takes one off
(`TimeHelps`); and no other step adds to it, be it a crash, a failed write, a reply
that was lost or a process that stops, except a claim and the step by which a
thread that holds the job records its outcome (`StaysInReach`). What fairness adds is
that time passes and somebody polls. The three are stated in the proof modules only
and are in no run; that no backoff exceeds its cap (`Delayed`) is their invariant.

`EmailDeliveryProofs`, for any deliveries, processes and finite set of threads:

| Theorem | States |
| --- | --- |
| `MailIsWorkQueue` | `MailSpec => IsWorkQueue` |
| `MailRespectsLease` | `MailSpec => LeaseRespected` |
| `SentIsTrueHolds` | `MailSpec => SentIsTrue` |
| `RetriesDoNotDuplicateHolds` | `MailSpec => []RetriesDoNotDuplicate` |
| `NoDeliveryIsLost` | as `NoJobIsLost`, of `MailSpec` |

and `IngestionProofs`, for any ingestions, reviewers and drafts:

| Theorem | States |
| --- | --- |
| `IngestionIsWorkQueue` | `IngestionSpec => IsWorkQueue` |
| `OneRecipeHolds` | `IngestionSpec => []OneRecipe` |
| `ReviewedIsPublishedHolds` | `IngestionSpec => []ReviewedIsPublished` |
| `NoIngestionIsLost` | as `NoJobIsLost`, of `IngestionSpec` |

Both start from a lemma that every step is a step of `JobQueue` or leaves the
queue alone, which lifts what is proved of the queue. `SentInv` says that a thread
told of an acceptance has one in the inbox. `RetriesDoNotDuplicate` speaks of
histories without a fault; its invariant `CalmInv` is the long one: a job runs on
one thread, whose process holds the lease for some time still, a thread past
sending has counted its message, and a delivery that is `sending` has its
handler. The lease outlives the handler because a tick by which it would not
counts as a fault. `PapersInv` of the ingestion says who may still write a draft:
once a reviewer has read a stored one, the ingestion has left the queue for good.

`CatalogImportProofs`, for files, batches and limits of any size and any number of
crashes and exceptions:

| Theorem | States |
| --- | --- |
| `FirstRowWinsHolds` | `Spec => []FirstRowWins` |
| `CheckpointCoversHolds` | `Spec => []CheckpointCovers` |

`ImportInv` says, while no exception was caught, that the batch in memory is the
rows since the checkpoint, that what is flushed of it is stored, and that an
importer that ends has nothing left; the counts are cardinalities of the rows
behind the checkpoint, and lemmas on cardinalities move them by one row.

`ShoppingListProofs`, for any lines, members and guests and any numbers of edits,
toggles and refreshes:

| Theorem | States |
| --- | --- |
| `ListTypeCorrect` | `Spec => []ListTypeOK` |
| `RefreshKeepsMarksHolds` | `Spec => RefreshKeepsMarks` |
| `NoOlderPlanHolds` | `Spec => NoOlderPlan` |

The invariant is `Coherent`: a refresh whose version is still the list's
remembers the check marks as they are, but for the lines guests toggled, and has
aggregated a plan no older than the list's. It holds because whatever changes a
mark without a guest, or changes the items, moves the version (`CoherentKept`);
only the write of a refresh uses it.

`HouseholdsProofs`, for any users and invitations and any finite set of requests
that invite at once:

| Theorem | States |
| --- | --- |
| `HouseholdTypeCorrect` | `Spec => []HouseholdTypeOK` |
| `SessionInsideHolds` | `Spec => []SessionInside` |
| `MembersWereInvitedHolds` | `Spec => []MembersWereInvited` |
| `PendingBoundedHolds` | `Spec => []PendingBounded` |
| `InvitationsAreFinalHolds` | `Spec => InvitationsAreFinal` |
| `RolesAreKeptHolds` | `Spec => RolesAreKept` |

It assumes that the null value is none of the others. The invariant adds
`TabsBelong` (what an open request has read is still so: documents are never
removed, memberships never end) and `OwnersOffer` (an offer to become an adult
was made by the owner, and only founders are owners). All parts rest on two
lemmas about any step: `DocumentsKept` and `RolesKept`. `PendingBounded` needs
`RoomToInsert`: the pending invitations of an address and the requests that are
between revoking and inserting for it are together no more than the requests there
can be.

### The TypeScript program and the client

`WebAccessProofs`:

| Theorem | States | Invariant |
| --- | --- | --- |
| `AccessRunsOutHolds` | `AccessSpec => []AccessRunsOut` | `AccessInv` |
| `GuestsStayInsideHolds` | `WebSharesSpec => GuestsStayInside` | `SharesInv` |
| `MembershipsAreEarnedHolds` | `WebHouseholdsSpec => []MembershipsAreEarned` | `HouseholdsInv` |
| `SettledInvitesStayHolds` | `WebHouseholdsSpec => SettledInvitesStay` | - |
| `SearchIsCompleteHolds` | `WebSearchSpec => []SearchIsComplete` | `SearchInv` |

`AccessInv` adds that a request which comes after its key has ended finds it ended,
whatever happens between its steps. `SharesInv` says what a tab knows at each
step: a request that was late finds its link ended, and what has been resolved is
the list of the link in the address, although the cookie may be another's by then.
`HouseholdsInv` follows every request through its commands: what it is
entitled to write (`IsEntitled`), by the household it founded or by the invitation it
has accepted.

`SearchInv` says of a grid, and of an answer on its way to it, that it has no gap
(`Covers`): a match that has been there since the page was loaded, and comes before
one that is shown, is shown too; and if there are no more, all are. The argument:

- `RanksExist`: in a finite set with a key that tells its elements apart, every
  number below the cardinality is the rank of one element; so `Sorted` is what
  its comment says, for names, scores and `localeCompare` (`NamesRanked`,
  `ScoresRanked`, `LocaleRanked`), and a window of it has the ranks from the offset
  on (`PageOfRanked`).
- `MergeBegins`: the first n of the catalog and the first n of the custom recipes
  hold the first n of both together, whatever n. With n = offset + limit + 1 and one
  order, the merge of the halves is cut where the merge of all would be
  (`MergedPage`); with the page's own size for n it is not, which is the mutant.
- `SearchPageIs`: so a match that a page leaves out, though others of the page come
  after it or though it is the last, has fewer matches before it than the offset.
- `AnswerIsGood`: the offset is no more than the number of recipes shown. Were such a
  match not shown either, all that is shown would come before it (there is no gap),
  no fewer than the offset: a contradiction. This needs no order among requests and no
  render in between, and holds while the library grows, since what is owed only
  shrinks (`OwedIsCovered`).
- `RoundTrip`: reading the parameters of a search gives the search, normalised, so
  that the grid's filters are those that were wanted. `FacetsCount`: the two counts
  of the two halves of the library add up, since no recipe is in both.

Its assumptions: no two dishes have the same place, by score or by
`localeCompare`, as both fall back on the id; a dish in the catalog came with the
dataset; a page has 1 to 100 recipes.

`WebDataProofs`:

| Theorem | States | Invariant |
| --- | --- | --- |
| `AnswersAreTrueHolds`, `NothingLeaksHolds` | `GatewaySpec => []AnswersAreTrue`, `[]NothingLeaks` | `GatewayInv` |
| `SyncedIsManagedHolds`, `GoodIndexesStayHolds` | `IndexSpec => []SyncedIsManaged`, `GoodIndexesStay` | `IndexInv` |
| `RepeatsFollowFailuresHolds` | `MailSpec => []RepeatsFollowFailures` | `MailInv` |
| `OneRecipeUnlessReopenedHolds`, `StatusIsBackedHolds` | `IngestionSpec => []OneRecipeUnlessReopened`, `[]StatusIsBacked` | `DraftInv` |
| `MealsAreKeptHolds` | `PlannerSpec => MealsAreKept` | `PlannerInv` |
| `RestingListIsCurrentHolds` | `PlannerSpec => []RestingListIsCurrent` | `ListInv` |
| `ShoppingInvHolds`, `ListAddsUpHolds` | `WebShoppingSpec => []ShoppingInv`, `[]ListAddsUp` | `ShoppingInv` |
| `MarksComeFromTheListHolds` | `WebShoppingSpec => MarksComeFromTheList` | `ShoppingInv` |
| `CheckpointIsDurableHolds` | `WebImportSpec => []CheckpointIsDurable` | `DurableInv` |
| `ReadYourWritesHolds` | `ClientSpec => []ReadYourWrites` | `ClientInv` |

- `GatewayInv`: the database is touched only for a call that runs or ran, with the
  argument that was sent (`ArgumentsArrive` proves that decoding undoes encoding),
  and the count of requests in flight is the cardinality of those that run.
- `IndexInv`: what is left of the plan of a running sync still creates every index
  that is missing and drops every one that is not wanted (`LeadsToManaged`), drops
  no good index, and none that it has created before (`KeepsGood`). That the
  plan starts out so is `PlanIsGood`, over the operators for sequences that
  put it together; see below. The assumption is that of the schema: managed
  indexes have names and shapes of their own.
- `MailInv`: a mail that went out, one that is about to and one that may still be
  claimed are each paid for, one by the request and every other by a recorded
  failure (`RepeatsArePaid`).
- `DraftInv`: as long as no status that publish set is overwritten, one request
  has the claim, and the status keeps the others from it.
- `ListInv`: when the list is not the current one, some tab has still to store a
  list (`ListIsComing`), and a refresh that is not late has read what is current.
- `ShoppingInv`: while there is a list, it shows the items of the plan as it is, but
  for the marks. The work is in `ItemsAddUp`, about any recipes and any plan: the
  items of a plan are the lines that its meals ask for, each once, with its amount as
  many times as `CountOf` says. `AddLine` proves it for one input more, which either
  joins the item of its key (`JoinOfItems`: amounts add up) or makes one; `AddMeal`
  for the lines of a meal; `SeqInduction` for all meals. That amounts survive the
  display rests on the table of units (`UnitsByDimension`, `ShownAmount`). The
  assumption is that of the module: a line's text determines what is read off it,
  and a recipe serves 1, 2 or does not say.
- `DurableInv`: as in the port's import, and the counts of tags are right from the
  moment they are refreshed.
- `ClientInv`: the entry of the cache, and every read a page waits for, is no older
  than what had been acknowledged when it was asked for; a handler knows what it
  will ask for again.

The assumptions are those of the modules: sets that are counted are finite, bounds
are natural numbers, null values are none of the others. Lists, meals, calls and
files are otherwise arbitrary.

The library's theorems on induction take an operator as a parameter, which no
installed prover instantiates. Where a recursive definition has to be unfolded, the
proof goes by a set instead: `InductionOnSet` says that a set which holds 0 and the
successor of each number it holds has all of them, and follows from the library's
theorem that the order of the numbers is well-founded, which needs no operator.
`FlattenSeqRange`, `SetToSeqRange`, `AggregateStep` and `SeqInduction` are proved that
way.

### Only model-checked

- Liveness: `EveryJobSettles`, `DeliverySettles`, `IngestionSettles`,
  `ImportCompletes`. The prover handles neither fairness nor ENABLED.
- `AttemptFenced` is false with two threads per process, where the code fences by the
  name of the process alone; it is proved for one thread.

## 5. Not modelled, and the plan

Not modelled for good: rendering, PDF, layout and localisation, validation of
forms, configuration, which keep no state of their own; the port's API-key
filters, whose keys are only created and revoked; the artifact store, whose
effect on an ingestion is one step of `CreateIngestion`; the sign-in of the
TypeScript program, which belongs to a library; the engine of Atlas Search;
fractions and the wording of quantities.

Not modelled yet, by what would be gained:

1. The port's meal plans (`PlanService`): copying the previous week in two updates
   with an edit in between, creating a week twice at once.
2. The port's accounts: linking a Google account when two sign-ins race, one-time
   tokens, a password reset in three writes.
3. `updateOwnedRecipe` of the port's ingestion; two importers on one run; its
   migrator, next to `IndexSync`.

Proofs to come: with the modules above. Every invariant and every action property
that a run checks has its theorem; liveness keeps to TLC.
