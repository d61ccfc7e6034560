# A verification project for the CiviCRM port in Go

This directory holds TLA+ specifications of the program under `src/`, the TLC
configurations that check them on small instances, and proofs, checked by
TLAPS, of what they promise for every value of their constants.

The program is a rewrite of CiviCRM's server in Go. Its hand-written part is
small: an application object that assembles the process, a dependency-injection
container, an extension manager with hooks, a three-tier cache, a database
manager with transactions, an HTTP server, a security manager, a configuration
loader and a logger, some 1700 lines. The rest is a schema, 62 files of SQL
queries, and code generated from those and from an OpenAPI file: some 45000
lines whose behaviour is that of the SQL statements in them, run against the
tables and constraints of the migrations. The entity handlers of the HTTP server
still answer "not implemented", so components and queries are libraries with
few callers: what is specified here is what any caller may do with them at
once.

## Inventory

| Component | Source | State | Operations | What is hard |
|---|---|---|---|---|
| Cache manager | `internal/cache/cache.go` | local map, memory map with expiry, Redis | `Get`, `Set`, `Delete`, `Clear` | tiers are written one after the other, without a lock over them; eviction; Redis errors; restarts while Redis lives on |
| Extension manager | `internal/extensions/extensions.go` | extensions, hook slices, APIs, under an `RWMutex` | `RegisterExtension`, `UnregisterExtension`, `ExecuteHook`, `Start`, `Stop`, lookups | handlers run without the lock from a slice whose array is changed under them; callbacks under the lock |
| Container | `internal/core/container.go` | descriptors by name, each with a lock and an instance | `Register*`, `Get`, `Clear` | a `Get` holds the locks of all it is creating while it waits for the next; registration under its feet |
| Database manager | `internal/database/database.go` | the pool | `Transaction`, `Begin`, `Query`, ... | lost sessions and answers, cancelled contexts, panics, a bounded pool |
| Application | `internal/core/app.go`, `cmd/server/main.go` | the components, the context | `NewApp`, `Start`, `Run`, `Stop` | signals at any time, requests in progress while it stops |
| API server | `internal/api/server.go` | `http.Server` | `Start`, `Stop`, middleware | it listens in a goroutine of its own; stop may overtake it |
| Configuration | `internal/config/config.go` | - | `Load` | precedence of defaults, environment and file; URLs that replace sections |
| Security manager | `internal/security/security.go` | JWT secret | tokens, passwords, permissions | two ways of answering "may this user" |
| Logger | `internal/logger/logger.go` | - | output | - |
| Contacts | `database/generated/contacts.sql.go`, `migrations/002` | `contacts` | create, update, delete, listings, counts | what else goes, or stays, with a contact is spread over eight migrations |
| Pledges | `pledges.sql.go`, `031` | pledges, blocks, payments, reminders, groups, members | as above, and edits of a group's total | totals written from earlier reads; cascades next to references that hold a row |
| Domains, settings, navigation | `domains`, `settings`, `navigation.sql.go`, `027` | the three tables | as above, bulk updates, recursive queries | trees over domains, cycles |
| Jobs, queues | `jobs`, `queues.sql.go`, `027` | the two tables | as above, what is due, last run | workers that are not told of each other |
| Users, permissions | `acls`, `users`, `permissions.sql.go`, `003`, `004` | roles, permissions, grants, users, caches | grants, removals, who may do what | duplicates, deactivated rows that others still refer to |
| Memberships | `memberships`, `membership_*`, `contributions.sql.go`, `006`, `016` | types, statuses, memberships, log, payments, contributions | renewals, status changes, payments | logs that hold what memberships let go |
| Activities, cases | `activit*`, `case*.sql.go`, `014`, `018` | activities, cases, parties, joins | marking as deleted, deleting for good, closing | two ways to delete, from either side of a join |
| Campaigns | `campaign*.sql.go`, `020` | campaigns, types, statuses, participants | as above, the hierarchy | cycles of parents |
| Communication | `communication.sql.go`, `030` | templates, lists, subscriptions, mailings, recipients, tracking, texts, preferences | as above, statistics | cascades three deep, an index that is not created |
| Custom fields | `custom_fields.sql.go`, `029` | groups, fields, options, values | as above | values found by keys that must be unique |
| Dashboards | `dashboard*.sql.go`, `025` | dashboards, widgets | as above, the default | two statements of which one is generated |
| Events | `event*`, `participants`, `discounts`, `campaign_events.sql.go`, `005`, `007`, `013`, `020` | events, registrations, participants, fees, discounts, joins with campaigns | as above, what is upcoming and past | the clock, two tables of who attends, a contact held by those it registered |
| Surveys | `survey*.sql.go`, `023` | surveys, questions, responses, answers, joins with campaigns | as above, statistics | joins that multiply, averages and rates of nothing |
| Tags | `tags`, `tag_sets`, `entity_tags.sql.go`, `022` | tag sets, tags, who carries them | as above, statistics | tags without a set, tags of one name |
| Remaining tables | prices, financial accounts, line items, reports, profiles | - | create, update, list | - |
| Generated code | `internal/api/generated.go`, `querier.go`, `models.go` | - | - | types and interfaces |

Who calls whom: `main` builds the `App`, which initialises configuration,
logger, database, cache, security, extensions and API in that order and
registers them in the container as instances. `App.Start` starts the extension
manager and then the server; `App.Run` waits for a signal and calls `App.Stop`,
which shuts the server down, stops the extensions, and closes the database and
the cache. The cache, the database, the container and the extension manager do
not call each other: each is a shared object that request goroutines use at the
same time. The queries meet in the tables: a statement is atomic, and between
two statements of a client any other client may run any of its own. Contacts
are referred to from nearly all tables, domains from the configuration ones.

What makes each one correct:

* **cache** - the tiers agree once a write that nothing disturbed has ended; the
  in-process maps stay within capacity; nothing is promoted for a failed lookup;
* **extensions** - a run of a hook meets only real handlers; whatever is served or
  runs is registered, or was replaced under its name, or refused to stop; no
  handler is missing; no call waits for ever;
* **container** - one instance per singleton; no deadlock between creations when
  no service depends on itself; every lock is released on every path;
* **database** - a transaction is atomic and its answer true; connections come
  back; the pool makes progress;
* **application** - a request is served only by live components; a signal ends
  the process;
* **tables** - no statement leaves a row that refers to one that is gone, or two
  rows where a query means one; queries that answer the same question by other
  conditions agree; recursive queries end where clients call them; what a client
  computes from what it read is right as long as nobody wrote in between.

`PROJECT.json` lists the hazards of the code line by line, with the properties
that would catch each going wrong, or a note on why none does: where a fault is
visible in the code without a run, or does happen and is flagged by a model that
then says what holds otherwise.

## Modules

| Module | Models | Proofs |
|---|---|---|
| `CacheManager` | the cache, all three tiers | `CacheManagerProofs` |
| `MCCacheManager` | an instance | |
| `RWMutex` | Go's `sync.RWMutex`, as operators on a record | |
| `ExtensionManager` | the extension manager | `ExtensionManagerProofs` |
| `MCExtensionManager` | instances | |
| `Container` | the dependency-injection container | `ContainerProofs` |
| `MCContainer` | instances | |
| `AtomicTransaction` | what `Database.Transaction` promises | |
| `Database` | `Transaction` over pool and server | `DatabaseProofs` |
| `Application` | `main`, `App`, the server's life | `ApplicationProofs` |
| `Relational` | a table as a function, constraints, NULL, statements | |
| `Contacts` | contacts; extended by the modules of the tables that refer to them | |
| `Pledges` | the pledge system, and clients that edit totals; extends `Campaigns` | `PledgesProofs` |
| `Site` | domains, settings, navigation | `SiteProofs` |
| `Jobs` | jobs, queues and workers; extends `Site` | `SiteProofs` |
| `Access` | roles, permissions, grants, users, ACL caches | `SiteProofs` |
| `Memberships` | memberships, log, payments, contributions | `PledgesProofs` |
| `Activities`, `Cases` | activities; cases, extending them | `PledgesProofs` |
| `Campaigns` | campaigns and their participants | `RecordsProofs` |
| `Mailings` | communication | `PledgesProofs` |
| `CustomData` | custom groups, fields, options, values | `SiteProofs` |
| `Dashboards` | dashboards and widgets | `SiteProofs` |
| `Events` | events and all that hangs on them; extends `Campaigns` | `RecordsProofs` |
| `Surveys` | surveys with their responses; extends `Campaigns` | `RecordsProofs` |
| `Tags` | tags, their sets, tagged entities | `SiteProofs` |
| `MCRecords` | all of the data layer, in areas | `RecordsProofs` |

The hand-written components share no state but through `App`, whose view of them
(`up`, `running`) is in `Application`. The modules of the data layer compose
through the tables they share: `Jobs` with `Site`, `Cases` with `Activities`,
`Pledges`, `Events` and `Surveys` with `Campaigns`, and eleven of them with `Contacts`.

### CacheManager

`local`, `memory` and `redis` are partial functions from keys to items: the
domain is what the tier holds. `call` is the operation each goroutine is in and
the item it carries; each action is one access to one tier (a critical section
of that tier's lock), since `Manager` itself has no lock. `GetLocal`,
`GetMemory` and `GetRedis` are the three lookups of `Get`, `FillMemory` and
`FillLocal` the promotions; `SetLocal`, `SetMemory`, `SetRedis` the three writes
of `Set`; `Delete` and `Clear` go tier by tier in the same way. `MemorySet`
contains the whole of `MemoryCache.Set`: clean-up of expired entries, then
eviction of an oldest one - with the quirk that an empty key counts as "none
found yet" - then the store. Redis fails without effect, or is applied and its
answer lost. `Restart` empties what the process holds and ends its calls, Redis
stays. Time is `Tick`, up to `MaxTime`.

`Coherent` needs a notion of when agreement can be asked for, as the code makes
no promise to concurrent writers: a write that ran while no other call was in
progress and reached every tier *settles* its keys, and from then to the next
write each tier holds that item or none, and so does every promotion in flight.
The history of settled keys is part of the model, and no guard reads it.

### ExtensionManager

`hooks` is, per point, a Go slice (capacity and length) and `slots` the arrays
behind it; `append` writes into spare capacity or copies to an array twice as
large, and `UnregisterExtension` shifts in place, a slot per step. A run keeps
the slice it was given under the read lock and then reads the live array. The
locks are those of `RWMutex`: a waiting writer holds up later readers, and all
readers that queued enter when it leaves. Memory is taken to be sequentially
consistent for these reads (they race in Go's terms). `Initialize`, `Start` and
`Stop` of an extension are taken not to call the manager back; handlers of a
run may, through the lookups.

The registry goes by names, and `NameOf` gives several extensions one. `Registered`
writes the entry without looking, as the code does, so an extension that had
the name is in the registry no more: its handlers stay, its APIs stay served,
and it runs on. `StopExtension` is what both `UnregisterExtension` and `Stop` do with an
extension's `Stop`: it ends what runs, or returns an error, which is only logged
and after which the extension may be running or not. `replaced` and `unstopped`
are the history of these two cases; no guard reads them, and `ServedAccounted` and
`RunningAccounted` say that there is no third one.

### Container

A goroutine is a stack of nested `Get`s. A frame goes through `lookup` (under
the container's lock), `lock` (waiting for the descriptor's), `create`
(resolving one parameter after the other, each a nested `Get` of a candidate
the unlocked range over the map yields) and, on an error, `fail` (the deferred
unlock). Registration puts a new descriptor in the map while older ones stay in
use by the `Get`s that have them. `Fault` is Go's fatal error on a map that is
ranged over while it is written. `Scoped` lifetimes behave like transient ones
in the code; a factory returns a value or an error.

### Database and AtomicTransaction

`AtomicTransaction` says what a caller may rely on: nil means all is applied,
an error of `fn` or a panic means nothing is, an error after a successful `fn`
leaves it open. `Database` is the code: begin over a bounded pool, `fn`, commit
or rollback, the panic path; sessions are lost at any time, contexts cancelled,
commits executed with their answer lost, and some callers use a second
connection inside `fn`. `Atomic` is the refinement, with the three variables of
the promise implemented by those of the same name.

### Application

`main` is the program counter of the main goroutine, `server` that of the
goroutine that calls `ListenAndServe`, `handling` the requests in progress.
Any component may refuse to be set up. A signal before `signal.Notify` kills
the process. `Shutdown` waits for requests without a deadline, as the context
it is given is cancelled only after `Stop`.

### The data layer

A table is a partial function from ids to rows (`Relational`); a generated method
is an action, if it writes, and an operator of its name, if it reads. A
statement that breaks a constraint fails and changes nothing, so the action is
not enabled then. Each part of that deserves a word:

* **Columns** are those that a WHERE, a JOIN, a constraint or a property looks at.
  Names, texts, amounts, weights and most dates are left out; each module's
  header says which.
* **Texts without a CHECK** - statuses, groupings, roles - are any text or NULL. The
  sets of texts that clients write are constants; they contain values that no
  query asks for, and the properties say what becomes of such rows: the counts
  by status leave them out, the listings by grouping or role do not find them.
* **Searches** by a text take the rows that match as a parameter: a subset of the
  contacts, activities or types whose text matches, joined as the statement does.
* **Rounding** is that of the statement: `Percentage` is SQL's ROUND(..., 2), in
  hundredths, halves up.
* **NULL** is a value of its own that equals nothing (`Eq`). The INSERT statements
  name all columns, so a Boolean parameter the caller leaves unset stores NULL
  and not the column's DEFAULT; the filters `is_active = $1` then find the row
  under neither value. `Flags` holds the values clients pass.
* **Deletion.** ON DELETE CASCADE takes rows along, in the same action, level by
  level (`Subtree` in `Site`, `DropRecipients` in `Mailings`). A reference without ON
  DELETE makes the whole statement fail if, at its end, a row that stays refers
  to one that goes: `DeletePledges` is an example, where a reminder of another
  pledge holds a payment. Each module deletes contacts with its own references
  only; a database has all of them at once, which makes a deletion fail more
  often and take more along, but no table's references depend on another's.
* **Marking.** `is_deleted` and `is_active` do not free what refers to the row.
* **:one queries** return some row: the operator is the set it is taken from, so
  that uniqueness is something to be checked.
* **Refused** is the answer of queries that fail whatever the tables hold.
* **Clients.** `Pledges` has editors that read a group and later write the total
  they computed; `Jobs` has workers that ask what is due, run it, write when it is
  due next, and may die in between. What they know is in `groupView` and `work`;
  `contributed`, `overlapped`, `ranToday` and `disturbed` are history that no guard
  reads but as a bound.
* **The clock.** `date` in `Events` is what NOW() returns, `today` in `Jobs` the day a
  worker asks for; both only advance.
* **Recursive queries** (`GetNavigationBreadcrumb`, `GetCampaignHierarchy`) are
  closures, or levels up to the number of rows; whether the query ends is a
  state function (`BreadcrumbEnds`).

Tables start empty: seed migrations insert rows through the same statements.

`MCRecords` puts all modules side by side in 35 *areas*; a behaviour chooses one
and makes that area's statements only. So the state spaces add up and do not
multiply, one run covers all statements, and every invariant is evaluated over
all tables. The statements of two areas commute where they share no table, and
what they share (contacts, domains) each area creates and deletes itself.

## Runs

| Run | Instance | Shows |
|---|---|---|
| `cache_redis` | 2 goroutines, Redis | types, capacity and coherence with Redis failures, expiry and restarts |
| `cache_race` | 2 goroutines | **violation**: two readers in the map, one deleting |
| `extensions` | 2 extensions on a common point and API, 2 goroutines, up to 2 handlers a point | runs meet only handlers, and none is missing |
| `extensions_return` | 2 extensions of one name that share a point and an API, 2 goroutines | what is served or runs is accounted for, over replacements and failing Stops; every call returns |
| `extensions_unregister` | as `extensions`, 1 goroutine | **violation**: the wrong extension loses its handler |
| `container` | 3 services, shared dependency, 2 goroutines, 4 descriptors | one instance, no deadlock, every `Get` returns |
| `container_inject` | a dependency registered as an instance | **violation**: it is not found |
| `database` | 3 callers, 2 connections, 1 nesting | pool, atomicity, termination |
| `application` | 4 requests | requests see live components; a signal ends the process |
| `application_serves` | the same | **violation**: reported as started, and not listening |
| `records` | 35 areas, up to 3 rows a table | references, uniqueness, agreement of queries, totals, runs of jobs, trees (below) |
| `dashboard_default` | 1 contact, 2 dashboards | **violation**: setting the default leaves none |

The five violations are disagreements between the code and its own comments,
docs, log messages or the SQL it is generated from; `PROJECT.json` quotes them
under "findings".

What `records` shows:

| Properties | Say |
|---|---|
| `PledgeRefs`, `SiteRefs`, `MembershipRefs`, `CaseRefs`, `CampaignRefs`, `MailingRefs`, `CustomRefs`, `OtherRefs` | no row refers to one that is gone, whatever is deleted from whichever side, and what a query finds by a key is one row |
| `LoneEditorExact` | a group's total is what was contributed while no editor overwrites another |
| `LoneWorkerOnce` | no job runs twice a day while no worker runs what another has run, or dies after a run |
| `WalkHasBreadcrumbs` | the breadcrumb of every item that a walk from the roots meets ends, though updates close cycles elsewhere |
| `HierarchyIsTree` | the hierarchy of campaigns ends and has each campaign once |
| `PledgeAnswersAgree`, `SiteAnswersAgree`, `PermissionAnswersAgree`, `OtherAnswersAgree` | counts, statistics, listings and lookups of a domain fit together: what one finds no other loses, or just the rows the property names |
| `RemovedRoleStaysRemoved` | one removal takes a role and its permissions away, however often it was granted |
| `CloseCaseCloses` | a case that was closed is listed as closed, or the statement failed |
| `SubscriptionStays` | unsubscribing leaves the subscriber on the listing: only deletion of the row takes it off |

`SubscriptionStays` states what the code does, which a reader would not expect;
nothing in the repository says otherwise.

### Read in the code

Two things in the extension manager need no run to be seen:

* `ExecuteHook` runs handlers in the order of registration; nothing reads
  `Hook.Priority`, and the comment at `extensions.go:211` says "Execute hooks in
  priority order".
* `Stop` "stops all extensions" (`extensions.go:89`) but for those that were
  replaced under their name (`extensions.go:135`), which nothing reaches again.

Modelling the queries showed more than the properties say. Where the
statement is modelled it is there as `Refused`, as a set where one row is meant,
or as the guard or the assignment it amounts to:

* `CheckUserPermission` (`acls.sql.go:15`) and the seven `Check*Permission` queries
  (`permissions.sql.go:15`) select a COUNT ordered by a column without grouping
  by it, which PostgreSQL refuses.
* `GetDomainUsers`, `GetCaseTimeline`, `GetCampaignTimeline` and the listings of
  accessible contacts and events that filter on `is_active` name columns that
  their tables do not have; `GetNavigationTree` mixes an integer and a uuid in one
  array.
* Sums over DECIMAL columns (`GetTotalContributions` and others) are scanned into
  an int64, which fails on a NULL and on a fraction's text.
* `acl_contact_cache.contact_id` refers to contacts and is joined with ids of
  other tables, so the listings of accessible groups, cases and so on are empty.
* The unique index on `communication_preferences` (`030:176`) is not created, as
  one of its name exists since line 169.
* `UpdatePledgePayment` finds a payment by pledge and date and writes all that
  match; `GetMembershipPaymentsByContribution` returns one of several.
* Permissions of a role that is deactivated stay with its users, and denials
  are not looked at by `GetUsersByPermission`.
* `UpdateJobSchedule` leaves the `next_run` of the former schedule.
* `SetDefaultSurvey` (`surveys.sql.go:424`) is cut to its first statement as
  `SetDefaultDashboard` is: it clears every default and sets none.
* `GetSurveyResponseSummary` joins answers and active questions of a response in
  one statement, so each answer counts once per question: the percentage is 0
  or 100, and one survey without active questions makes the statement fail, as
  NULL cannot be scanned. So do a survey without responses in
  `GetSurveyResponseRate` and a question without numbers in `GetSurveyAnalytics`;
  `GetSurveyResponseTrends` scans a timestamp into an int64.
* The counts of pledges by status, of recipients by state and of responses by
  status leave out rows of any other status, and of none; statuses of campaigns
  without a grouping are in none of the four listings by grouping, an involvement
  without a role in no listing by role.
* `GetSurveyResponseRate` rounds to two decimals: 19999 of 20000 responses are 100.00.
* `GetSurveyResponseBySurveyAndContact` means the latest response, and gives one
  without a date first.
* `max_participants` is written and compared with nothing; a contact may register
  for an event more than once and after it is over, and registrations and
  participants are not told of each other.
* `participants.registered_by_id` (`013:17`) has no ON DELETE: a contact that
  registered another cannot be deleted while that row stays.
* A join of a campaign and an event whose `is_deleted` is NULL is in no listing and
  in no count.
* The details of an entity's tags, and the statistics, leave out tags without a
  set; `GetPopularTags` has them, and counts tags of one name together whatever
  their sets.

### Bounds

* **cache**: keys, values and goroutines are symmetric. Two keys on capacities
  of one make every set evict; two goroutines are the largest conflict (a reader
  that promotes and a writer), and every action is taken. `MaxTime` lets an item
  expire once in each tier. Other instances - without Redis, with more keys and
  goroutines - are not run: `Capacity` and `Coherence` are proved for all of them.
* **extensions**: `MaxHandlers` keeps points from growing; two handlers make an
  array be shared, copied once, shifted and shortened under a run. Names are
  apart in one run and the same in the other; both at once, with a third
  extension, are left to the theorems, which hold for any `NameOf`.
* **container**: `MaxDescriptors` 4 allows each service once and one registered
  anew; stacks are at most three deep. A deadlock needs two goroutines.
* **database**: two connections and three callers make one wait; one nesting
  caller is below the pool's size, the condition `PoolProgress` states.
* **application**: the state space is finite; requests may be sent again.
* **records**: two ids a table make a second row that must not be touched or must
  be different, three where a tree or a cycle matters (navigation, campaigns),
  one where a table is only referred to. Ids, names and workers are drawn from
  shared sets of two or three that are permuted as a symmetry. `AtMostOne`
  keeps a table that an area only refers to at one row, `SameName` the domain's and
  the jobs' names alike; `PaidOrNot` leaves the pledges of the schedule two
  statuses (the area `pledged` has all); all are guards of the areas in `MCRecords` and not in
  the modules. `MaxAmount` 2 lets two editors contribute once each; `MaxDay` 1 gives
  two days. `Flags` is TRUE and NULL: FALSE is written by the statements that
  deactivate. Events start and end on days 1 and 3 (also the wrong way round)
  and `MaxDate` 2 lets the clock pass a start but no end of the later day, so an
  event is upcoming, running or past, and one that ends before it starts is
  both; responses have one of two dates or none. Each set of texts
  has one that no query asks for. A second membership type comes with one contact
  and one status, so that a log can refer to another type than its membership. 307815 states
  up to symmetry, in some 150 seconds; a bug the mutants of
  `PROJECT.json` introduce is found within them in every case.

### Fairness

Weak fairness on the steps of a goroutine says that the Go scheduler runs it
and that no callback, handler or `fn` hangs (the liveness claims are about the
code, not about its plug-ins). Strong fairness stands where a goroutine waits
for a lock or a connection that others may take again and again: Go's mutexes
have a starvation mode that hands over to the longest waiter, and the pool of
`database/sql` serves its waiters in turn. No fairness is put on signals,
requests, failures, cancellations, or the start of calls.

## Proofs

The theorems hold for every value of the constants that satisfies the module's
assumption: `CacheAssumption` (finitely many keys, a nil that is no key and no
value), `ExtensionAssumption` (any number of extensions may have one name),
`ContainerAssumption`, `DatabaseAssumption` (types,
and `NoOne`, `Nobody`, `Unknown` and `App` distinct from what they are compared
with; finitely many database callers), `RelationalAssumption` (clients pass TRUE,
FALSE or NULL, and NULL is no Boolean), `PledgesAssumption` (the bound on amounts
and the days are numbers, pledges are finitely many, NULL is no text, and "In
Progress" and "Scheduled" are among the statuses that clients may write, beside
any others), `SiteAssumption` and `JobsAssumption`
(NULL is no id and no time, the bound on days is a number), `ObjectsAssumption`
(no row of another table has the id of a contact, and the ids of such rows and of
users are finitely many), `ContactsAssumption`, `MembershipsAssumption`,
`ActivitiesAssumption`, `CasesAssumption`, `CampaignsAssumption`, `MailingsAssumption` and
`TagsAssumption` (the ids of what is counted are uuids, hence finitely many, NULL is
neither an id nor a role, a status or a grouping, and for cases "Open" and "Closed" are
among the names and groupings that clients may write), `EventAssumption` and
`SurveyAssumption` (the same, days are numbers, and the three statuses that the
statistics count are among those that clients may write). None limits what else
is written to a column without a CHECK.
`Application` needs none. No bound on time, handlers, descriptors or rows is used
beyond its being a number, so the bounds that keep TLC's runs finite are lifted.

There are three modules of proofs of the data layer: `SiteProofs` (what administers
a site, and contacts), `PledgesProofs`, which extends it (pledges, activities, cases,
memberships and communication), and `RecordsProofs`, which extends both (campaigns,
events and surveys) and composes all of them.

| Theorem | Property | Argument |
|---|---|---|
| `CacheManagerProofs!TypeCorrect` | `TypeOK` | inductive by itself |
| `CacheManagerProofs!Coherence` | `Coherent` | `CoherenceInv` |
| `CacheManagerProofs!Capacity` | `SizeBound` | an eviction makes room before every store into a full map |
| `ExtensionManagerProofs!TypeCorrect` | `TypeOK` | `ExtensionInv` |
| `ExtensionManagerProofs!Filled` | `NeverNil` | `ExtensionInv` |
| `ExtensionManagerProofs!ServedAreAccounted` | `ServedAccounted` | `ExtensionInv` |
| `ExtensionManagerProofs!RunningAreAccounted` | `RunningAccounted` | `ExtensionInv` |
| `ExtensionManagerProofs!NothingMissing` | `NoneMissing` | `ExtensionInv` and `Even` |
| `ContainerProofs!TypeCorrect` | `TypeOK` | `ContainerInv` |
| `ContainerProofs!Unique` | `OneInstance` | `ContainerInv` |
| `ContainerProofs!DeadlockFree` | `NoDeadlock` | `ContainerInv`, and the least rank |
| `DatabaseProofs!TypeCorrect` | `TypeOK` | `DatabaseInv` |
| `DatabaseProofs!Progress` | `PoolProgress` | `TypeOK` and cardinalities |
| `DatabaseProofs!Atomicity` | `Atomic` | `DatabaseInv`, step by step to `AtomicTransaction` |
| `ApplicationProofs!TypeCorrect` | `TypeOK` | `AppInv` |
| `ApplicationProofs!Served` | `ServedByLive` | `AppInv` |
| `SiteProofs!SiteTypeCorrect` | `SiteTypeOK` | `SiteInv` |
| `SiteProofs!SiteReferences` | `SiteRefs` | `SiteInv`, and closures of cascades |
| `SiteProofs!WalksEnd` | `WalkHasBreadcrumbs` | `SiteRefs`, and a duality of closures |
| `SiteProofs!SiteAnswer` | `SiteAnswersAgree` | `SiteInv` and `SiteCounted` |
| `SiteProofs!JobsTypeCorrect` | `JobsTypeOK` | `JobInv` |
| `SiteProofs!JobReferences` | `JobRefs` | `JobInv` |
| `SiteProofs!WorkersRunOnce` | `LoneWorkerOnce` | `JobInv`, with what undisturbed workers know |
| `SiteProofs!JobAnswer` | `JobAnswersAgree` | `JobInv`, set equalities |
| `SiteProofs!AccessTypeCorrect` | `AccessTypeOK` | `AccessInv` |
| `SiteProofs!AccessReferences` | `AccessRefs` | `AccessInv` |
| `SiteProofs!PermissionAnswer` | `PermissionAnswersAgree` | `AccessInv` and `AccessCounted` |
| `SiteProofs!UserAnswer` | `UserAnswersAgree` | `AccessInv`, and what the statistics count within what is finite |
| `SiteProofs!RemovalIsFinal` | `RemovedRoleStaysRemoved` | a step, from `AccessInv` |
| `SiteProofs!TagTypeCorrect` | `TagsTypeOK` | `TagInv` |
| `SiteProofs!TagReferences` | `TagRefs` | `TagInv`, and an injection for its count |
| `SiteProofs!DashboardTypeCorrect` | `DashboardsTypeOK` | `DashboardInv` |
| `SiteProofs!DashboardsAnswer` | `DashboardAnswersAgree` | `DashboardInv`, finite tables |
| `SiteProofs!CustomTypeCorrect` | `CustomDataTypeOK` | `CustomInv` |
| `SiteProofs!CustomReferences` | `CustomRefs` | `CustomInv` |
| `SiteProofs!CustomAnswer` | `CustomAnswersAgree` | `CustomInv`, set equalities |
| `PledgesProofs!PledgesTypeCorrect` | `PledgesTypeOK` | `PledgesInv` |
| `PledgesProofs!PledgeReferences` | `PledgeRefs` | `PledgesInv` |
| `PledgesProofs!TotalsExact` | `LoneEditorExact` | `PledgesInv`, with what unbroken readers know |
| `PledgesProofs!PledgeAnswer` | `PledgeAnswersAgree` | `PledgesInv`, and partitions of finite sets |
| `PledgesProofs!ActivityReferences` | `ActivityRefs` | `ActivityInv` |
| `PledgesProofs!ActivityAnswer` | `ActivityAnswersAgree` | `ActivityInv`, set equalities |
| `PledgesProofs!CaseReferences` | `CaseRefs` | `CaseInv` |
| `PledgesProofs!CloseCaseEffective` | `CloseCaseCloses` | a step, from `CaseInv` |
| `PledgesProofs!MembershipTypeCorrect` | `MembershipsTypeOK` | `MembershipInv` |
| `PledgesProofs!MembershipReferences` | `MembershipRefs` | `MembershipInv` |
| `PledgesProofs!MailingTypeCorrect` | `MailingsTypeOK` | `MailingInv` |
| `PledgesProofs!MailingReferences` | `MailingRefs` | `MailingInv` |
| `PledgesProofs!SubscribersStayListed` | `SubscriptionStays` | a step, from `MailingInv` |
| `RecordsProofs!CampaignTypeCorrect` | `CampaignsTypeOK` | `CampaignInv` |
| `RecordsProofs!CampaignReferences` | `CampaignRefs` | `CampaignInv` |
| `RecordsProofs!HierarchyTree` | `HierarchyIsTree` | `CampaignInv`, paths from the roots, and a pigeonhole |
| `RecordsProofs!EventTypeCorrect` | `EventsTypeOK` | `EventInv` |
| `RecordsProofs!EventReferences` | `EventRefs` | `EventInv` |
| `RecordsProofs!SurveyTypeCorrect` | `SurveysTypeOK` | `SurveyInv` |
| `RecordsProofs!SurveyReferences` | `SurveyRefs` | `SurveyInv` |
| `RecordsProofs!RecordsTypeCorrect` | `RecordsTypeOK` | `RecordsInv` |
| `RecordsProofs!RecordsReferences` | all eight `...Refs` | `RecordsInv` |
| `RecordsProofs!RecordsAnswer` | `OtherAnswersAgree` | `RecordsInv` and `KeysDiffer`, set equalities, and counts of finite sets |

The theorems on the tables of a domain are about the specification of its module
(`SiteSpec`, `JobsSpec`, `AccessSpec`, `TagsSpec`, `DashboardsSpec`, `PledgesSpec`,
`ActivitiesSpec`, `CasesSpec`, `CustomDataSpec`, `CampaignsSpec`, `MembershipsSpec`,
`MailingsSpec`, `EventsSpec`, `SurveysSpec`), without the areas and bounds of
`MCRecords`: every statement may follow every other, over any ids. A module that
extends another takes the other's statements in, `JobsSpec` the deletion of
domains, `CasesSpec` the statements on activities, `EventsSpec` and `SurveysSpec`
those on contacts and campaigns. The last three theorems are about `RecordsSpec`,
the specification that TLC runs, for any sets of ids and bounds.

The inductive invariants, and why each is needed:

* **`CoherenceInv`** adds to `Coherent` that a write in flight has no settled key,
  that one that has been alone so far shares its keys with no other call and has
  already left its outcome in the tiers behind it, and that Redis stays empty
  without its driver. The second is the heart: only it lets the last step of a
  write settle its keys.
* **`ExtensionInv`** says that every slice in use - a point's, and the snapshot of
  each run - is *backed*: its array exists and its first `len` slots hold
  handlers. A shift in place breaks the order of handlers but not this, and
  an append into spare capacity writes beyond every length in use. An API that
  is served is one its extension declares, so that taking an extension's APIs
  away leaves none of its own. The rest is who holds the lock: a writer past its
  first step has it alone, `Start` and `Stop` read while they go through the
  registered extensions, and what is being unregistered does not run any more,
  or has just refused to stop.
* **`Even`** counts, and is about a moment that no property sees. While an
  extension registers, what it declares with the hooks done so far is counted
  besides what the registered ones declare; while it unregisters, what is done is
  counted no more; in both cases a point has at least as many handlers. A hook
  done moves one element and one handler, so a point that `Shorten` finds has a
  handler to lose, whoever's it is. That what is left to do is the rest of
  `HooksOf` belongs to it.
* **`ContainerInv`** relates each goroutine's stack of `Get`s to the descriptors:
  it owns exactly the locks of the frames that create, each once; all frames
  below the top create; ranks decrease towards the top where no service depends
  on itself; and a singleton somebody is creating has no instance yet.
  `OneInstance` follows at once. For `NoDeadlock`, take the busy goroutine whose
  innermost `Get` ranks least: if it waits, the owner of the lock has a frame of
  the same rank, which by minimality is its own innermost, and that one creates
  and does not wait.
* **`DatabaseInv`** says what each point of `Transaction` knows: `fn`'s verdict,
  whether the server has committed, and that nobody has been answered yet. Each
  step of the code then is one step of `AtomicTransaction` or a stutter.
* **`AppInv`** says what is set up, running, listening and draining at each point
  of `main`.
* **`PledgesInv`** is the types, `PledgeRefs`, `LoneEditorExact` and `ViewsCurrent`: an
  editor that has read a group and is not outdated has the amount the group
  has now. Without the last, a write by an editor nobody overtook could not be
  seen to add to the right amount. What is left is that campaigns have ids
  of campaigns, which NULL is not. `PledgeRefs` is inductive with the types,
  because a deletion's guard speaks of the rows that stay after the cascade.
* **`SiteInv`** is the types and `SiteRefs`. A deletion takes a set that is closed
  under children (`SubtreeCloses`), so the parent of an item that stays, stays.
  `WalksEnd` needs no more: let D be the items from which the ancestors meet a
  root of the domain; D holds the roots and is closed under children, so the
  walk is inside D, and that is the claim - with cycles as far away as may be.
* **`JobInv`** is `SiteInv`, the types, `JobRefs` and `LoneWorker`: unless disturbed, a
  job has run at most once today, and one that has is still in the hands of the
  worker that ran it or put off to a later day, when all who found it due know
  no more what is. `LoneWorkerOnce` alone would not survive the next worker.
* **`AccessInv`**, **`ActivityInv`** and **`CaseInv`** are types and references, which are
  inductive together; **`DashboardInv`** adds that the widgets, which the
  statistics count, are finitely many.
* **`SiteCounted`** and **`AccessCounted`** are what the answers of the queries rest on
  besides: the names of domains and of roles are one row's, also of one that is
  inactive; and the rows that are counted are finitely many. The references then make the inner joins
  lose no row, and what divides a listing divides its count (`DisjointCount`).
* **`TagInv`** is the types, the references, and `TaggedOnce`: the rows of entities are
  finitely many, and no two alike. The count in `TagRefs` follows by the bijection
  between an entity's rows and its tags.
* **`CustomInv`** spells `CustomRefs` out with the uniqueness of group names, on
  which the lookup of a field by the names of group and field rests.
* **`CampaignInv`** and **`MembershipInv`** are the types and the references, which are
  inductive together. Of a contact's contributions it is `Unpaying`, the guard
  of `DeleteMember`, that makes the step go through: it speaks of the memberships
  and payments that are left once the contact's own have gone.
* **`MailingInv`** spells `MailingRefs` out, part by part, with the uniqueness behind
  its lookups. `RecipientsDropped` is shared by the deletions of a mailing, a
  recipient and a contact: clicks hang on three tables and opens on two, and none
  is left by any of them.
* **`EventInv`** and **`SurveyInv`** contain `CampaignInv`, whose contacts and campaigns
  they refer to: a contact that goes takes its registrations and responses along,
  and is kept by a participant it registered.
* **`RecordsInv`** is one conjunct per module, `SiteHolds`, `JobsHold` and so on: in an
  area of that module its invariant, in all other areas its initial condition,
  as no statement of another area writes its tables. The invariants of contacts
  and campaigns hold in the areas that refer to them too: those of pledges, events
  and surveys. So a step preserves the
  conjunct of the area's own module by the lemma of that module and the others
  because they are left alone, and each theorem of a module holds of the whole.
* **`KeysDiffer`** is what `RecordsAnswer` needs besides `RecordsInv`: the emails of contacts
  and the names of tag sets, of kinds of campaigns, of templates and of mailing
  lists are one row's each (the names of domains, roles and custom groups are in
  the invariants of their modules). `KeysWritten` says which statements write these
  columns at all: those of their own tables and, for emails, those that create
  or delete a contact for an area of another. The answers themselves are a lemma
  per module from its types and references. Where an inner join is counted, the
  references show that it loses no row; where statistics are to add up, the
  listings are shown to be disjoint and finite (`DisjointCount`, `ThreeCount`,
  `FourCount`); where a joined listing is to be as long as a table, there is a
  bijection (`PairCount`). For the surveys, a percentage, rounded to hundredths, is between 0
  and 100, 100 if counter and denominator agree and 0 if the counter is (`Rounding`), and of a contact's responses, if all
  have dates, one is the latest (`GreatestOf`).

The hierarchy of campaigns needs no more than `CampaignInv`, though updates may close
cycles. The levels of the listing are a recursive function; what it computes is
stated without recursion, as the campaigns to which a path of n active steps
leads from a root (`ReachedIn`), and `LevelReached` shows the two to be equal: take the
least n at which they differ (`LeastNatural`, from the well-foundedness of the natural
numbers, which stands in for induction); it is not 0, and the level before it
decides. A root has no parent and any other campaign of a level has its parent on
the level before, so the least level at which a campaign is met twice has one
before it (`LevelIsUnique`). A level as deep as there are campaigns would be the end of
a path of more places than there are campaigns, one of them twice and so on two
levels (`LevelsEnd`).

`Promise` in `Database` is the explicit instance of `AtomicTransaction` with its
refinement mapping; `Atomic` is its specification, which the run `database`
checks and `Atomicity` proves.

TLC checks `CoherenceInv`'s consequences and all the theorems' properties on the
instances above, which also show that the steps the proofs speak of happen.

Model-checked only: the liveness properties `CallsReturn`, `GetReturns`,
`TransactionEnds` and `SignalEnds` (liveness under fairness is beyond the
prover), and the five violations. Every invariant and every action property that
a passing run checks is stated by a theorem. No liveness is claimed of the
tables: a statement ends or fails by itself, and nothing obliges a client to
make one.

## Not modelled

* Configuration: `Load` is one sequential function, run once. Its result enters
  the other modules as constants (`MaxEntries`, `ConfigTTL`, `UseRedis`, `MaxConns`), for
  all of whose values the theorems hold - the empty cache section that
  `REDIS_URL` leaves (no Redis, no ttl, no capacity) included.
* The security manager: stateless. Tokens and hashes are library calls, the two
  tables of permissions are literals in the code, and they disagree:
  `CheckPermission` looks at no role but `admin`, `GetUserPermissions` does.
* The logger, middleware, static files, DSN assembly, statistics: output and
  formatting, with no state that the rest depends on.
* The entity handlers of the API: each answers "not implemented".
* In the cache: `Close` and `SetLogger`, and sizes in bytes, which are stored and
  never compared. In the database: `Ping`, `Stats`, `SetLogger`, and
  `runtime.Goexit` inside `fn`, which would lose the connection. What is raced on
  in Go's memory model is taken to be sequentially consistent, except for the
  maps, where Go itself stops the program.
* The local map ignores the ttl, so that an item may outlive its expiry there; no
  property speaks of ages.
* In the data layer: prices, financial accounts and line items, reports,
  profiles, and the joins of campaigns with activities, contributions and
  groups and of surveys with groups. They are more statements of the kinds
  modelled; job logs and queue items have no statement that inserts one. Of the
  modelled tables, `pledge_logs`, searches for texts of one table alone, ranges of
  dates, weights and paging are left out, as are sums of amounts.
* Generated code without behaviour: API types, the interface of all queries,
  row types (those of modelled tables are mapped with their tables).

The instances without Redis and the order of eviction in the local map, whose
comment promises first in, first out and whose code takes any key, have no run:
`Capacity` and `Coherence` cover the first for every instance, and the second is
an arbitrary choice in `LocalSet`.

## Plan

Done: the five components with shared state and the tables of fourteen domains,
each with a run or an area that reaches its interesting cases; proofs of every
safety invariant of the components, of the types, references and answers of all
domains and of their composition, and of the action properties.

What would add most next, in this order:

1. Reports and prices: the tables left out whose rows refer to each other.
2. `LossyCache`: a map that may forget at any time but never answers with what was
   replaced, and `CacheManager` as an implementation of it for the calls that do
   not overlap - the abstract counterpart of `Coherent`.

Modules come with operators and recursive functions only, so that all of them
can be proved about.
