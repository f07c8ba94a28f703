# A TLA+ model of backend-pkg

`backend-pkg` is the Go library that the services of TMS360 (a transport
management system) share: transactions with an outbox and its relay, the Kafka
consumer loop, permission resolution and caching, the policy gate client,
tenancy, filters and paged lists, input validation, rate limits, share links,
saved filters, the audit trail, and clients of some fifteen outside services.
Nothing in it is a program of its own; what matters is how its parts behave when
many goroutines, replicas and services run them at once, when processes die
between two steps, and when the database, Redis, Kafka or a remote service
answers late or not at all. That is what these modules model.

Contents: [inventory](#inventory), [modules](#modules), [runs](#runs),
[bounds](#bounds), [fairness](#fairness), [proofs](#proofs),
[disagreements](#disagreements-between-code-and-docs),
[what is not modelled](#not-modelled), [plan](#plan).

## Inventory

State is what outlives a call; "hard" is what a unit test hardly reaches.

| Component (path) | State | Operations | Talks to | Hard | What makes it correct |
|---|---|---|---|---|---|
| Transactions and outbox (`tmsdb/gorm_tm.go`, `event_builder.go`, `eventlog/outbox`, `eventlog/producer.go`) | open transaction on the context, outbox rows, locked rows, the writer's queues | `WithTransaction` (re-entrant), `Publish`/`Event` -> `writeEvent`, `ProcessBatch`, `Start` | PostgreSQL, Kafka | savepoints, swallowed errors, lost commit replies, crash between publish and delete, abandoned batches that still land, two replicas | no event without its transaction, no committed event lost, duplicates only after failures, order per entity, callers are told the truth |
| Connections (`tmsdb/gorm_tm.go`, `client/postgresql`) | pool, sessions, row locks | `EnsureDatabase`, `NewClient`, `WithTransaction`, `GetDB` | PostgreSQL | deadlocks through Go that PostgreSQL cannot see (DEV-703), a pool of limited size, replicas that create one database | no wait without an end, no lock left behind |
| Consumer loop (`eventlog/consumer.go`, `eventlog/rules`, `observability/sentry.go` recovery) | committed offsets, pending commits, session position, message in hand | `Start`, `dispatch`, `GetMatchingRules`, `CommitMessages` | Kafka group, PostgreSQL rules, handlers | asynchronous commits, rebalances, zombie readers, panicking handlers, crashes | every message reaches its handlers before its offset is committed, in order; redelivery only after a disruption |
| Policy gate (`rmsgate`) | atomic error counter and circuit deadline, FailMode registry | `Decide`, `Evaluate` | RMS over gRPC | racing atomics, check-then-call, outages | fail-closed processes are allowed by RMS only; the circuit opens and closes as promised |
| Permission cache (`auth/perm_resolver.go`, `client_http.go`, `middleware.go`, `cache`) | Redis entries with TTL, singleflight flights | `GetUserPerms`, `InvalidateUsersPerms`, `ResolveUserPerms` | Redis, tms-auth | fill racing an invalidation, shared flights, retries, several Redis instances | staleness is bounded, nobody is stranded, tms-auth is not stampeded |
| Token revocation (`auth/token_revocation.go`, `auth/middleware.go`) | cutoff marker with TTL | `RevokeUserTokens`, `TokenRevoked`, `IssuedBeforeCutoff`, `IdentifyUserPerms` | Redis | clock skew between replicas, marker lifetime against token lifetime | a revoked token stays refused until it expires, a later token is accepted |
| Identity and settings (`middleware`, `consts`, `settings`) | the context's actor | `IdentifyUser`, interceptors of both sides, `dispatch`'s actor, gates, `ResolveClientIP`, settings with defaults | JWT, gRPC metadata, Redis | an actor rebuilt at every hop, missing or different internal tokens, cleared contexts | the work stays its user's and company's and gains no rights |
| Rate limits (`ratelimit`, `middleware/ratelimit_middleware.go`) | window counters | `Allow`, `RateLimitAuthenticated` | Redis | fixed windows shared by replicas, fail-open | a counter expires; a bounded number per window while Redis works |
| Guest access (`guest`) | share links, access debounce | `Middleware`, `Directive`, `maybeLogAccess` | Redis, outbox | debounce key set before the event is published | one access event per window, or a failure that explains its absence |
| Tenancy (`tmsdb/tenant_scope.go`, `tmsdb/model`) | none (a plugin of the ORM) | query, update, delete and row callbacks; create/update/delete hooks | PostgreSQL | saves of stale copies, upserts outside the scope | no company writes or reads another's rows |
| Repository, filters, pagination (`tmsdb/repository.go`, `filter.go`, `struct_filter.go`, `cross_service.go`, `utils/pagination.go`) | none | CRUD, conditions, OR/AND/NOT, cross-service filters, pages | PostgreSQL, other services | pages under changes, empty lists and branches, NULLs, filters sent as JSON | filters select what they say, walks are complete |
| Saved filters (`savedfilter`) | filter rows | `Create`, `Update`, `SetPinned`, `Delete`, `List` | PostgreSQL | check-then-act on the limit, whole-row saves racing deletes | the limit is overrun by concurrent creates only |
| Permission catalogue (`enums`, `middleware/perms.go`) | tables | `HasPermission`, `CompactHierarchy`, `ExpandPermissions`, `RollupPermissions` | none | hierarchy with wildcards, unknown codes | rolling up and expanding grant the same leaves |
| Input validation (`validate`) | one collector per operation | `ValidateDirective`, `Middleware`, `Add` | GraphQL executor | root fields side by side, resolvers that run before the collector is asked | nothing that broke a rule is answered with a result |
| Errors (`client/tmsgraphql`, `response`, `observability`, `client/postgresql`) | none | presenters, `AsPublicError`, REST responses, `Capture...`, directives | clients, Sentry | kinds of errors taken for one another, errors hidden by invalid input, statuses lost between services | a server's fault pages, a client's does not; nobody is shown internals |
| Audit trail (`tmsdb/gorm_tm.go` `writeEvent`, `eventlog/events`) | none | `CalculateChanges`, `Classify`, `Stricter` | outbox | snapshots that alias the entity, classes made of changes | a history without breaks, money never below FINANCIAL |
| Time windows (`timewindow`) | none | `Resolve`, `Range`, `Contains` | none | months, weeks, daylight saving | windows tile, months are clamped |
| USPS client (`client/usps`) | token cache per credential | `VerifyAddress`, `token`, `invalidateToken` | USPS | invalidation racing a refetch | one revoked token costs no caller its request |
| Factoring (`client/factoring`) | files on the factor's SFTP server | `SubmitBatch`, validation | SFTP servers with a poller | drops in mid-file, retries, name collisions | a manifest appears only with all of its documents, complete |
| Toll files (`client/toll`) | the carrier's folder | parsing, normalising, hashing rows | SFTP | reordered and repeated files, moving columns, equal rows | a row keeps its hash from file to file |
| Samsara (`client/samsara`) | webhooks, geofences, alerts at Samsara; a feed's cursor | feed, lists, setups, `HandleWebhook` | Samsara | partial setups, redelivery, cursors and failing pages | no position lost, every incident heard |
| RingCentral, HERE (`client/ringcentral`, `client/here`) | none | call log, numbers, recordings; routes, legs, manoeuvres | HTTP services | pages under changes, caps, ferries | complete unless said, legs whole |
| RMS registration (`rmsgate/contract.go`, `rmsreg`) | none | register with retries | RMS | late attempts overtaking a newer deployment | verdicts true, overwrites owed to overlaps |
| Mail and notifications (`mail`, `notify`) | none | `Send`, `SendWithOptions`, `SendBatch` | outbox, backend-mail | swallowed INSERTs, a relay that ships before the check, attachments Kafka does not take | a mail shares its transaction's fate |
| Fuel cards, client provider (`client/relaypayments`, `client/provider`) | the company's key in Redis | `Get`, `GetByCompanyID`, creating, changing and deleting codes, drivers and assignments, `ListTransactions`, `VerifyWebhookSignature` | Redis, Relay | keys replaced under calls, refusals that arrive late, lost answers, webhooks of an old key | a good key stays, no fueling is missed, doubles are owed to unknown outcomes |
| Google Maps and HERE's look-ups (`client/googlemaps`, `client/here`) | none; lines of the log | geocoding, suggestions, places, time zones, distances, truck roads, `TestConnection` | Google, HERE | two vendors that refuse in different words, a key over its cap | a rejected key is told from an outage and from "nothing found", calls are attributed and priced |
| Companies (`client/fmcsa`, `client/saferapi`) | none | checks by MC, DOT and name | TMS360's FMCSA service, SAFER | searches that are cut off, prefixes, a live service out of reach | who passes is authorized, nobody is refused but for a cause |
| RC processing, tasks, direct mail (`client/rcproc`, `tasks`, `mailer`) | none | `Process`, `ProcessSync`, `GetStatus`; `CreateForValidation`, `ResolveForValidation`; `SendEmail` | HTTP, gRPC, SMTP, Resend | deadlines that pass before or after the effect, late effects | one open task per key, repeats owed to unknown outcomes |
| GraphQL's handler and field catalogue, config, debug, hash, `cmd`, addresses, dates, generated `proto` | none of interest | I/O, text | | | |

Interactions: a service's handler runs under `IdentifyUser` ->
`IdentifyUserPerms` (permission cache, revocation) -> rate limit -> GraphQL
directives and validation, calls `Decide` of the policy gate, reads and writes
under the tenant scope in `WithTransaction`, and publishes inside it; the relay
moves the outbox to Kafka; consumer loops of other services read it and run
handlers, which again write in transactions.

## Modules

Every component is a module with its state as `VARIABLES`, an action per
operation or per step another actor can see between, and its properties at the
end. `MC<module>` holds the definitions a `.cfg` needs (`PermCache` has its own),
`<module>Proofs` the theorems. A definition marked "(broken)" is a plausible
mistake in the code: the specification does not use it, and replacing the
definition below it by it makes a run fail, which is how each property is shown
to bite.

Composed or checked by themselves:

| Module | Code | State and steps |
|---|---|---|
| `Outbox` | `tmsdb/gorm_tm.go`, `event_builder.go`, `eventlog/outbox`, `eventlog/producer.go` | A transaction is `Begin`, `BeginNested`, publishes, `ReturnNested`, `Commit`/`Rollback`. `Publish` inside one is a savepoint and an INSERT whose failure is swallowed (`PublishSkipped`); outside one it commits by itself. `ProcessBatch` is split where a process may die: `Fetch` (SELECT ... SKIP LOCKED), the writer's `Land` per partition, `WriteDone`, `Delete` with its commit, `GiveUp`/`Abort`. A batch the relay gave up on stays in the writer (`late`) and may land any time (`LandLate`). |
| `EventDelivery` | what the outbox promises | The abstract specification: accept a set of events, deliver events that were accepted. |
| `EventConsumer` | `eventlog/consumer.go`, `eventlog/rules`, `observability/sentry.go` | Loop of `Start`: `FetchMessage` or `SkipMalformed`, `RunHandler` per system handler, `Lookup` of rules, `RunAction`, `CommitMessage` into `stash`; `Flush` sends the commits. `Assign` and revocation model the group; a replica that lost its partition goes on with what it has in hand; `RestartConsumer` starts a dead one again. |
| `Kafka` | what the two sides share | The partitions and their `log`: relays' writers append, the group reads. |
| `Pipeline` | the two composed | Extends `Outbox` and `EventConsumer`, which share `Kafka`'s log; a step is one side's. Implements `EventDelivery` with "handled" for "delivered". |
| `RmsGate` | `rmsgate/client.go`, `processes.go` | Each access to the atomics `failures` and `openUntil` is a step: `DecideOpen`/`DecideClosed`, `Send`, `Answered` or an error, `CountError`, `Open`, `Reset`, `Fail`. |
| `PermCache` | `auth/perm_resolver.go`, `client_http.go`, `middleware.go`, `cache` | Entries with a remaining life; a request is a GET, a flight it leads or waits for, a second GET, attempts, a SET. tms-auth writes and then deletes its own Redis's key. |
| `TokenRevocation` | `auth/token_revocation.go`, `auth/middleware.go` | Replicas' clocks, the marker, calls of `RevokeUserTokens` between reading the clock (`Stamp`) and the SET (`Land`, `Fail`). |
| `Factoring` | `client/factoring` | `SubmitBatch` file by file (`OpenDocument`, `WriteDocument`, `OpenManifest`, `WriteManifest`, `Rename`), drops at any point, the factor's `Poll`. |

Two suites hold the rest. The parts of a suite share no state and no step, so
each of its behaviours is of one part (`part`), the others resting in one
initial state: their states add up instead of multiplying, and one run covers
them. A part's properties are stated in its own module, and the suite names
them. `UserAccess` extends the five parts whose names are their own (`RateLimit`,
`GuestAccess`, `Identity`, `TenantScope`, `ConnPool`) and instantiates the others.
`Integrations` extends `Clients`, which instantiates the five parts that write
(`UspsToken`, `Registration`, `Mail`, `FuelCards`, `Orders`) and is what
`ClientProofs` reasons about, and instantiates the parts that read.

| Part of `UserAccess` | Code | State and steps |
|---|---|---|
| `Identity` | `middleware/auth_*.go`, `client_origin.go`, `settings`, `cache`, `eventlog/consumer.go` | A piece of work begins with a request (a user's, a guest's, nobody's) or a job, and goes on by `Call` (metadata of the client's interceptor, rebuilt by the server's) and `Handle` (behind an event); its token may expire, its context be cleared; settings and the client's address are read on the way; keys of the cache are built for the actor. |
| `RateLimit` | `ratelimit`, `middleware/ratelimit_middleware.go` | The key's counter and life; the admitted requests of the last window as history, by window and number; outages. |
| `Permissions` | `enums/user_permissions.go`, `middleware/perms.go` | The codes of a role under assignments and removals; the algorithms are operators on sets of paths. |
| `GuestAccess` | `guest`, `middleware/auth_middleware.go` | Requests between the link's GET, the debounce's SETNX, the entry's publication and the directive; the link may be withdrawn, Redis and the outbox fail. |
| `TenantScope` | `tmsdb/tenant_scope.go`, `tmsdb/model`, `repository.go` | One table of either kind; users create, load, update fields, save the copy they loaded (UPDATE in scope, then an upsert outside it) and delete; internal work creates, hands rows to another company and deletes. |
| `Conditions` | `tmsdb/filter.go`, `struct_filter.go` | A query's conditions as the builder adds them, field by field by the kind of each column's filter, and by OR, AND, NOT and `Search`; the same fields sent to another service. PostgreSQL's three-valued logic is external. |
| `Listing` | `tmsdb/filter.go`, `repository.go`, `cross_service.go`, `utils/pagination.go` | A walk through pages: other services asked for ids, a count, a page; rows come and go between any two statements. |
| `SavedFilter` | `savedfilter`, `tmsdb/repository.go` | Each call is a read and a write with anything in between. |
| `Validation` | `validate`, `client/tmsgraphql`, `response`, `observability` | Root fields that validate inputs one by one, run their resolver and ask the collector, side by side (query) or in order (mutation); what they fail with is presented and reported. The rules, and the ways of an error over GraphQL, REST and gRPC, are operators. |
| `AuditTrail` | `tmsdb/gorm_tm.go`, `eventlog/events` | An entity, a service's snapshot of it (a copy or an alias), edits, and the events published from both; who took part in an event is an operator. |
| `TimeWindow` | `timewindow` | An instant that moves on, in zones with daylight saving; `Resolve` is a family of operators on hours. |
| `ConnPool` | `tmsdb/gorm_tm.go`, `client/postgresql` | Replicas that look for their database and create it; calls with transactions that nest and single statements, which wait for a connection of the pool or for a row; `Detect` is PostgreSQL's abort of one in a circle. |

| Part of `Integrations` | Code | State and steps |
|---|---|---|
| `UspsToken` | `client/usps/usps.go` | Slot, mutex, and the callers' exchanges with USPS, which take time. |
| `TollFiles` | `client/toll` | A week's workbook in any layout, style and order, damaged or grown; `Parse` and `assignHashes` are operators, the caller keeps what it read. So are the reading of plates and devices, the connection by a carrier's credential, and the fetch of a file. |
| `SamsaraFeed` | `client/samsara/samsara.go` (feed, lists) | A feed followed by its cursor over several pages, of which any may fail or come without a cursor; the service stores positions, then the cursor. Lists and snapshots by pages under changes, and what a key or a license is refused for. |
| `SamsaraAlerts` | `client/samsara/samsara.go`, `service.go` (setups, webhooks) | A setup (a geofence, temperatures, or a climate of all sensors) one request at a time; answers lost, attempts repeated; incidents posted to the webhooks until acknowledged. |
| `SamsaraCalls` | `client/samsara/samsara.go`, `service.go` (everything else) | Calls that overlap, each handled with the key and object of its moment, and read in the form its function expects; a service that keeps the latest position; deliveries and their signatures. |
| `Registration` | `rmsgate/contract.go`, `rmsreg/capability.go` | Attempts of successive deployments that may time out and land later. |
| `RingCentral` | `client/ringcentral` | Minting, pages by number up to a cap while records come and go, recordings; what a record is read as is an operator. |
| `TruckRoute` | `client/here` | A route's sections, its legs or the walk leg by leg, manoeuvres, the decoding of lines. |
| `FuelCards` | `client/relaypayments`, `client/provider` | The company's key in Redis and at Relay; a request that leaves with the key as read, is handled by Relay, and returns, fails or is handled after it was given up; a driver, code or assignment that is changed, deleted and used; webhooks signed with the key of their time; a poll's windows; tms-auth, which removes the key on the report of a refusal. |
| `MapVendors` | `client/here`, `client/googlemaps` | A key that its vendor accepts, rejects or caps; one look-up at a time, refused at once or sent, answered or cut off, with the line logged of it. The choice of a truck's road and the caller named by a stack are operators. |
| `Carriers` | `client/fmcsa`, `client/saferapi` | A census of companies with dockets and authorities, the service's copy of it, the live service; a check by MC number is a search and then one company's authority, with changes between. |
| `Orders` | `tasks`, `client/rcproc`, `mailer` | Calls of a client as it was configured; each is answered, refused or given up at its deadline, and what it asked is done before, after or never. |
| `Mail` | `mail`, `notify`, `tmsdb/gorm_tm.go` | A list of messages published one by one in a transaction or outside, INSERTs that fail unheard, the relay that ships and removes rows but for those its writer refuses, a caller that tries again. What validation accepts, and what notifications say that share a map, are operators. |

Data are abstracted to what the properties tell apart: an event is a value
with an entity and topics, a permission list a number, a token a number with a
remaining life, a file a record of whose it is and whether it is whole. Time,
where it matters, is a remaining life that a `Tick` shortens; a step that waits
for the network has a deadline `Tick` does not pass.

External parts, modelled from how the code uses them: PostgreSQL's row locks,
savepoints, NULLs and deadlock detection, `database/sql`'s pool, gorm's
rendering of conditions (`NOT (a AND b)`), Kafka's group coordinator and
kafka-go's queues, Redis, RMS, tms-auth, backend-mail, USPS, Samsara,
RingCentral, HERE, and the factors' pollers.

## Runs

| Run | What it asks | Properties |
|---|---|---|
| `outbox_safety` | two relays and two partitions under any two failures | `IInv`, `NoLostEvent`, `PromiseKept`, `DuplicatesOwedToFaults` |
| `outbox_delivery` | two concurrent transactions, one relay, one partition per topic | `EntityOrder`, `ImplementsDelivery` (refinement, with liveness) |
| `consumer` | two replicas, malformed and panicking messages, a disruption | `ConsumerIInv`, `NoGap`, `RedeliveriesOwedToDisruptions`, `EventuallyHandled` |
| `pipeline` | producer and consumer side together, a failure on either | `HandoverSound`, `ImplementsEndToEnd` (refinement, with liveness) |
| `gate` | two racing callers, an outage that ends | `IInv`, `ClosedNeedsRms`, `CircuitSound`, `GateRecovers` |
| `perm_cache` | two replicas on one Redis, a write, leaders that fail | `IInv`, `StalenessBounded`, `FlightsSound`, `EveryoneAnswered` |
| `factoring` | ten batches to RTS or three to Triumph, names that coincide, resubmission | `SubmissionsSound`, `DeliverySound`, `AppearsLast`, `EventuallyTaken` |
| `token_revocation` | two overlapping revocations, clocks apart | `IInv`, `RevokedStaysRevoked`, `LaterTokensLive` |
| `user_access` | what decides on a user's request and records it, part by part | `RequestsSound`, `CodesSound`, `RowsSound`, `InputSound`, `AuditSound`, `WindowSound`, `Isolation`, `ServedAgain` |
| `integrations` | the clients of other systems, part by part | `TokenSound`, `ParsedSound`, `ReadSound`, `WrittenSound`, `EveryoneAnswered` |
| `outbox_key_order`, `factoring_truncated` | counterexamples | `EntityOrder`, `NoFactorTruncates`: see [disagreements](#disagreements-between-code-and-docs) |

A run states the invariants of a component that belong together as one
conjunction of named parts. `IInv` is the inductive invariant, where there is a
proof of it.

| Conjunction | Parts beside types |
|---|---|
| `Outbox!IInv` | `NoPhantomEvent`: no event of a transaction that did not commit; `NoLostEvent`; `DisjointBatches`: no row is in two relays' batches; `PublishedBeforeDelete`, `BatchAccounted`, `AcceptedRecorded`; `AbortIsReported`: a caller whose transaction was lost hears of it; `OneOrigin`, `BatchRouted`, `CopiesAccounted`: what Kafka has and may still get of an event is owed to faults |
| `EventConsumer!ConsumerIInv` | `NoGap`: what is committed was handled; `InOrder`: no handler sees a message before it saw the earlier ones; `RanTyped`, `HandSound`, `SessionSound`, `StashSound`, `GoneIdle`; `DispatchesAccounted`: the dispatches of a message begun and still to be expected are owed to disruptions |
| `HandoverSound` | `NeverBetween`: an event is never lost between outbox and consumers; `DispatchesBounded`: repeated only for faults |
| `RmsGate!IInv` | `ClosedNeedsRms`: a fail-closed process is allowed by RMS only; `CounterBounded`: the counter exceeds the threshold only by callers under way |
| `CircuitSound` | `OpeningsOwedToErrors`; `LeakBounded`: few calls slip past an opening |
| `PermCache!IInv` | `Fresh`: age and remaining life of every list under way or stored |
| `FlightsSound` | `NoStampede`: calls of tms-auth are owed to misses; `FlightsAttended`: no waiter without a leader; `RidesOutBlips` |
| `TokenRevocation!IInv` | `MarkerSound`, `MarkerCaused` |
| `SubmissionsSound` | `DocumentsFirst`, `NeverTruncated`: what RTS takes is whole and comes with every document that no later one of its batch has replaced; `RulesKept`: no batch breaks the factor's limits |
| `DeliverySound` | `IngestedOnce`, `DoneIsDelivered` |
| `RequestsSound` | `LimitSound` (`CounterExpires`, `CeilingHolds` in any sliding window); `GuestSound` (`LoggedOnce`, `Accounted`); `IdentitySound` (`IdentityKept`, `RightsNeverGrow`, `PanicsOwed`, `RefusalsOwed`, `SettingsOwn`, `AddressTrue`, `CacheAgrees`) |
| `CodesSound` | `Authority`: the gates let through what was granted; `RoundTrip`, `Minimal`; `NeverDrops`, `NoRedundancy` |
| `RowsSound` | `OverrunBounded` (saved filters); `OneOwner`, `CopiesInScope` (tenants); `Exact`, `SameThere` (conditions); `NoHiddenDeadlock`, `NoLeakedLock`, `PoolBounded` (connections) |
| `Isolation` | `Isolated`: a user's step touches rows of its own company only, but for gorm's upsert of a row the user had read as its own, and a new row of a tenant table that names another company |
| `InputSound` | `NothingSlips`, `RefusalsOwed`, `FaultsHeard`, `RulesAgree`, `ErrorsAgree`, `DirectivesAgree` |
| `AuditSound` | `HistoryComplete`, `MoneyGuarded` |
| `WindowSound` | `WeeksTile`, `MonthsClamped`, `MovesOn` (relative periods); `WalkComplete`, `NarrowedOrTold` (lists); `ParticipantsFound` (an event's people); `TextsAgree` (letters, check digits, paths) |
| `ServedAgain` | a throttled user is served again; every call that waits for connections and rows returns, and every replica comes up |
| `TokenSound` | `ExpiryCovered`: no call leaves with a token that may expire on the way; `DenialsOwed`, `FetchesOwed` |
| `ParsedSound` | `ReadAsMeant`, `ChargedOnce`, `VehiclesMatch`, `CarriersSpared`, `FilesFetched` (toll); `LegsWhole`, `Billed`, `ManoeuvresFollow`, `LinesRead` (routes); `RejectionTold`, `TestAgrees`, `NothingTold`, `RoadsFit`, `Accounted`, `Attributed` (maps); `NeverFalselyRejected`, `PassesSound`, `LegitimatePasses`, `SaferLenient` (companies) |
| `ReadSound` | `NoPositionLost`, `InOrder`, `ListComplete`, `DeactivatedOnRefusal` (feed); `SetupComplete`, `Heard`, `HeardBounded` (alerts); `RefusalTold`, `LatestKept`, `ListOrVIN`, `WritesTold`, `SignaturesSound` (single calls); `CompleteUnlessSaid`, `TruncatedMeansMore`, `RepeatsOwed`, `ReconnectOwed`, `MediaVetted`, `RecordsRead` (RingCentral); `Reconciled`, `EdgesRepeat`, `OnlyFueling` (fuel cards) |
| `WrittenSound` | `VerdictsTrue`, `OverwritesOwed` (registration); `Unsent`, `Delivered`, `OnlyTheFailed`, `DroppedOrShipped`, `TwiceOwed`, `KindsSound`, `ActionsLeftBehind` (mail); `OldNewsOnly`, `FailuresRemoveNothing`, `CreationsOwed`, `LastWordStands`, `AllowanceKept`, `CredentialsSound` (fuel cards); `Answered`, `CreatedOnce`, `LeftOpen`, `Assigned`, `RepeatsOwed`, `Handles`, `AttachmentsSound` (orders) |

Several bounds are stated as debts: a duplicate, a redelivery, an opening of
the circuit, a call of tms-auth, a fetched token, a repeated record or a second
mail is not forbidden but owed to a failure, and the property counts both. That
is the strongest statement true of at-least-once code, and it fails when a step
repeats work without cause.

Deadlock is checked in `gate`, whose system never stops. The others say
`CHECK_DEADLOCK FALSE` because their inputs are finite: each event is published
once, each request, call and batch of the instance ends, and then nothing is
left to do.

## Bounds

Every bound is a constant of its module, named and commented there:
`MaxFaults`, `MaxDisruptions`, `MaxErrors`, `MaxWrites`, `MaxRevocations`,
`MaxStumbles` (how often the environment misbehaves), `MaxRefused`, `MaxDepth`, `MaxLog`,
`MaxRows`, `MaxHits`, `MaxHops`, `MaxStatements`, `Horizon`, `MaxStamp` and others (where
counting stops). Why the instances are large enough:

- Outbox: a duplicate and its cause need one relay and one fault; a race of
  two replicas two relays; an overlap of a late batch with a second fetch two
  faults (`outbox_safety`, 308 000 states up to symmetry). Two events of one
  entity and one of another suffice for an order, and one fault for the retry
  that liveness is about (`outbox_delivery`, 736 000 states). An event's `created_at` is any instant up
  to `MaxStamp`, as the publisher's clock has it: with two, an event is stamped before, like or
  after one that was durable when it was made; with one all are alike, and the relay fetches
  them in any order.
- Consumer: a zombie's commit needs two replicas and one rebalance, skipping and
  overtaking at least three offsets. A larger instance (two disruptions,
  568 000 states) was checked, too; it takes four minutes.
- Pipeline: two events in one batch, a failure on the producer's side and one on
  the consumer's; a log of four holds the batch twice. One consumer is enough:
  a partition that comes back to it is one that was taken away, and the races of
  two replicas are the run `consumer`.
- Gate: a caller may add to the counter between another's add and reset; with
  threshold 2 three errors cover "exactly", "one more" and "after a reset". Three
  callers were checked for the safety properties, too.
- Permission cache: two requests of one replica share a flight, the third is on
  another replica (1 166 000 states); one write with a DEL that comes before, between and after a
  fill; TTL 2 and deadline 1 so that lives may overlap.
- Revocation: clocks apart by one unit, slack and deadline of one unit; lives
  of six, so that a token can be minted, revoked, revoked again and outlive the
  first marker before the clock stops at nine.
- Factoring: two invoices a batch, one record over a limit of 2, a batch for every rule that can be
  broken, of which one is refused (`MaxRefused`), as a refusal changes nothing else; two faults for
  a second attempt that fails in turn. Two numbers become one file name, in one batch and
  in batches of their own, and two batches are submitted within a second, so that their
  manifests have one name (63 000 states).
- `user_access` (346 000 states). Rate limit: ceilings below, at and above two
  hits and a window of three units, so that bursts on both sides of a window's
  end fall into one sliding period. Saved filters: two tabs of one user overrun
  the limit, the third is another user's. Permissions: a module with two
  entities, one without `view`, a module with one entity and one leaf, a custom
  code, an unknown action, entity and module. Guests: two requests at once, and
  ages up to twice the debounce. Tenants: two companies, two ids, so that a row
  is deleted, handed over or replaced between a read and a save. Lists: limits
  0, 1 and above the cap, two insertions. Conditions: two columns of three
  values and NULL and of any kind of filter, a list without values, alone and beside a comparison.
  Validation: two root fields with inputs of one name, and an error of each level:
  refused, passed over, paged for. Audit: a money field and
  one that no event shows, two events. Time windows: three years with a leap day
  in the middle, a zone without summer time, one with, and one whose clocks go forward at
  midnight; instants every 17 hours, which meets every hour of the day. Identity:
  two services whose internal tokens are missing, equal or different, two hops,
  up to two proxies. Connections: two calls on a replica whose pool has one
  connection, one on another replica, two rows, nesting of two: a circle needs
  two calls and two rows, and a hidden one a nested transaction.
- `integrations` (794 000 states). USPS: a caller refused with an old token, one
  that fetches; two revocations make one denial legitimate; skew 2 and timeout 1
  keep the code's proportion of 60 s to 30 s. Toll: two crossings of one base
  key or two, two layouts, one with spacers and a doubled column;
  texts of up to four characters (`MaxText`), so that a state, its hyphen and a plate fit in one. Samsara: two
  records, a list's page of one and a feed's of two, so that a page has two vehicles'
  positions; three changes, either in the feed or in a list; two attempts at each of three
  setups, one incident; two overlapping calls, of one vehicle that moves twice or of one object.
  Registration: two deployments, three attempts as in the code. RingCentral:
  five records on pages of two, a cap of two pages. HERE: two legs, sections
  that drive, take a ferry, and have no summary; lines of up to three points
  whose numbers take one to four characters. Mail: two messages of three kinds, a second
  attempt, two stumbles. Fuel cards: two keys, entered again twice, so that an old
  refusal can remove the new key; two attempts; a second and a half second, so
  that a window ends within a second; two calls that change one thing, so that the first may land last. Maps: two look-ups with a key that changes once, roads
  that differ in length, height, ferry and trucks. Companies: two companies, docket numbers of which one
  contains the other, a limit of one, so that a search is cut off; one change. Orders:
  two calls of one client, so that the second may overtake the effect of the first.

Symmetry is used in `outbox_safety` (relays), which checks no liveness and tells
these values apart nowhere.

## Fairness

Fairness is assumed of what the code's own scheduling provides, never of
users, failures or outages, but for the users that a property is about.

- Outbox: weak fairness of the relay's steps (`Start`'s ticker fires for ever,
  gorm ends every transaction) and of the writer's queue. Failures are finite.
- Consumer: weak fairness of the loop's steps and of group assignment;
  `Restart` because the platform restarts a dead process.
- Gate: weak fairness of a goroutine's steps and of time (every call has a
  deadline, 1.5 s), of callers who come when the circuit is closed.
- Permission cache: weak fairness of each request (every attempt has a
  timeout).
- USPS: strong fairness of each caller, because Go's mutex hands itself to a
  goroutine that has waited for a millisecond and is free again and again.
- Registration: weak fairness of each call's loop, whose every attempt has a
  timeout.
- Rate limit: the user goes on asking and time passes; `ServedAgain` is about
  times when Redis is up.
- Connections: weak fairness of each goroutine (its connection, its row, its
  return, PostgreSQL's `deadlock_timeout`) and of a replica's start and restart.
  Nobody has to cancel, and nobody has to begin.
- Factoring: the caller submits while there is something to submit, uploads end, and the factor polls.

## Proofs

TLAPS proves the following for every value of the constants that the named
assumptions allow. They are bounds such as `BatchSize \in Nat \ {0}`, and the
relations the code states or sets: `Skew >= Spread` and `MarkerTTL >= Life` in
`RevocationAssumption`. A module that is a part of a suite has its assumption as
a definition, which the suite assumes. TLC finds each inductive invariant true
on the instance of its component's run.

- `PipelineProofs`, the outbox: `TypeCorrect`; `Invariant` (`IInv`); from it `NoPhantom`,
  `NoLoss`, `Promise`, `AbortReported`, `BatchesDisjoint`; `Refinement`, that
  each step of the outbox is a step of `EventDelivery` or a stutter.
  "No event is lost" is not inductive: a `Delete` could remove a row that is not
  in Kafka. `PublishedBeforeDelete` forbids that, and needs in turn
  `BatchAccounted`: while a relay waits, each of its rows is in Kafka or in the
  unacknowledged part of its batch. `Promise` needs a record of what a
  transaction staged (`AcceptedRecorded`).
  - `Duplicates` (`DuplicatesOwedToFaults`) counts, for one event, its places in
    the log, the queued batches of earlier calls that hold it, the batches that
    wait for an acknowledgement, and whether a relay will still take it to a writer
    (`ToBeTaken`): together they are one and the faults so far at most
    (`CopiesAccounted`). A landing turns a batch into a place, a fetch a row to be
    taken into a batch, and only a step that spends a fault raises the sum. It
    needs `OneOrigin` (an event is one transaction's) and `BatchRouted` (a relay
    hands it to one partition).
  - `OrderKept` (`EntityOrder`) holds under two hypotheses, `OneRelay` and
    `OnePartition`: one relay, one partition per topic. The order is that of the stamps, for
    events whose stamps agree with the order in which they became durable; nothing is
    assumed of the publishers' clocks, and nothing is claimed of events they stamp alike or
    the other way round. `OrderIInv` says of
    every event in a batch or queue that each older one of its entity, stamped earlier, is in the same
    batch or lies in Kafka already (`Carries`), and of every one in Kafka that the
    older ones are ahead of it (`Ahead`). `OnePartition` is not a
    weakening for the proof's sake: the run `outbox_key_order` shows two
    partitions breaking the order.
- `PipelineProofs`, the consumer group: `ConsumerTypeCorrect`, `ConsumerInvariant`,
  `AtLeastOnce` (`NoGap`), `HandledInOrder` (`InOrder`). A committed offset may
  come from any replica's pending commit, that from a message in hand, that from
  a session, that from an earlier committed offset; `ConsumerIInv` says of each
  that it lies within the handled prefix, and history only grows (`HistoryGrows`).
  `Redeliveries` (`RedeliveriesOwedToDisruptions`) counts readers: the dispatches
  begun of an offset, the replicas that may still begin one, and the next owner
  where there is none, are one and the disruptions at most (`DispatchesAccounted`).
  Producers are any that append (`LogGrows`), so that the pipeline can use it all.
- `PipelineProofs`, the whole: `PipelineInvariant`, that the two invariants hold side by
  side over the log they share; `Handover` (`HandoverSound`): nothing is lost
  between outbox and handlers (`NoLostEvent` puts a durable event among the rows
  or in the log, `NoGap` says what a committed part of the log has been through),
  and an event is dispatched at most (places) x (dispatches of a place) times,
  which are `Duplicates` and `Redeliveries`; `EndToEndRefinement`, that every
  step of the pipeline is a step of `EventDelivery` or a stutter, with "handled"
  for "delivered". `PipelineAssumption` makes the log's bound harmless: `MaxLog`
  is the number of messages that `Duplicates` allows.
- `RmsGateProofs`: `TypeCorrect`; `Invariant`; `Degradation` (`ClosedNeedsRms`);
  `CounterRace` (`CounterBounded`), by counting the callers between add and
  reset as a finite set that gains or loses one element a step; `CounterReset`
  (`CounterAttended`); `Circuit` (`CircuitSound`). An opening is paid for by
  errors because what the counter holds, and a threshold for each opening but
  the first, was added by errors; the calls that leak past an opening are
  counted with those that still may (`LeaksPaid`).
- `PermCacheProofs`: `TypeCorrect`; `Invariant`; `Freshness`, the inductive form of
  `Staleness` (`StalenessBounded`): the sum of a list's age and its entry's
  remaining life never exceeds TTL + Lag, from tms-auth's read to the entry to
  every reader; `Flights` (`FlightsSound`): flights keep one leader, a leader's
  attempts are counted by blips, and calls by writes, expiries and failures.
- `TokenRevocation` (proofs in the module): `TypeCorrect`; `Invariant`; `Revoked`
  (`RevokedStaysRevoked`) and `Recovery` (`LaterTokensLive`). The invariant says
  that the marker covers every completed revocation but for the time a SET takes
  (`MarkerSound`), and that its cutoff comes from a revocation that has begun
  (`MarkerCaused`).
- `FactoringProofs`: `Invariant`; `Submissions` (`SubmissionsSound`); `Deliveries`
  (`DeliverySound`, for callers that heed `TriggerAndClear`); `ManifestLast`
  (`AppearsLast`). Of names they assume `ExtensionsDiffer` only, that `.pdf`, `.csv`
  and `.csv.uploading` are apart: numbers may share a file name, batches a manifest's.
  What the folder holds is the invariant's matter: of the documents sent so far by the batch
  under way, those that no later one has replaced (`Stands`, `Left`, `Progress`), which are
  the batch's `Kept` in the end; a manifest only under its own name, and of RTS only when what is kept is there
  and nobody is busy (`Standing`); so that a rename or a poll, each a single step, finds what it
  needs. That a batch is not taken twice rests on `NotAgain`: RTS's caller knows
  that an attempt reached the manifest, Triumph's poller knows the name. What a later batch of the same second replaces is followed by the batches that have
  a manifest in the folder (`Manifest`).
- `UserAccessProofs`: `AccessInvariant`, the conjunction of the invariants of
  the parts named below, each of which keeps its own because a step of the suite
  is a step of one part and leaves the others alone (`AccessStep`). From it
  `RequestsSafe` (`RequestsSound`), `RowsSafe` (`RowsSound`), `CodesSafe`
  (`CodesSound`), `AuditSafe` (`AuditSound`), `InputSafe` (`InputSound`) and
  `IsolatesStill` (`Isolation`).
  - Rate limit (`RateInvariant`): the admitted hits of the last period are of
    the counter's present life or of the one before (`Current`); those of one life
    have different numbers, none above the count (`OfOneWindow`).
  - Guests (`GuestInvariant`): one request at most is between setting the
    debounce key and publishing (`LoggerSound`), and what a key that stands suppresses
    has an entry or a failure since it was set (`KeySound`).
  - Identity (`IdentityInvariant`): whoever works is who began, the system in its
    place, or nobody once the context was cleared (`ActorOwed`), over any number of
    hops by calls and events.
  - Tenants (`TenantInvariant`, `TenantSafety`, `Isolates`): what a user saves is
    a copy it loaded, so the invariant must say of copies what it says of rows
    (`CopiesOwned`), and that ids only grow, or a stale copy could land on a
    stranger's row. The exceptions of `Isolated` are part of the theorem: the stale copy, and the new
    row of a tenant table under the company it names.
  - Saved filters: the rows a user has or a `Save` under way may bring back
    (`Claimed`), and the tabs that have counted and not inserted, exceed the
    limit by one less than the user's tabs at most (`Fits`).
  - Conditions: what the builder accumulates selects the rows that satisfy every
    question asked so far (`Exactly`), and what another service decodes selects
    no fewer (`SameThere`), for any columns, values and number of conditions.
  - Connections (`PoolInvariant`, `PoolSafety`): a call holds one connection at
    most, and none while it waits for one (`OneSession`): so among calls that
    wait for nobody but each other there is one with a connection, it waits for a
    row, and the row's owner waits for a row in turn, which PostgreSQL sees
    (`NoHiddenDeadlock`). This is the sense of the re-entrant `WithTransaction`;
    with a connection of its own for each nested transaction TLC finds the
    deadlock of DEV-703.
  - Permission codes: a set of codes is known by the leaves and custom codes it
    lets through (`Cover`). Compacting and rolling up preserve it (`Compacted`,
    `SameCover`), of the catalogue's codes rolling up depends on nothing else
    (`RollupOfCover`), and expanding gives it (`Expanded`). That no smaller set grants
    the same (`FewestCodes`): each rolled-up code is above a code of the set, and no two
    of them are above the same one. `CatalogAssumption` says of codes unknown to the
    catalogue that none is below an action or a custom code; such a code would be stored
    beside the one that implies it.
  - Audit trail: what the trail shows of a field after n events is told by the last of
    them that changed it, which exists because a bounded set of numbers that is not
    empty has a greatest member (`GreatestIn`); an event at the end changes it for the
    fields the event names and leaves the others (`ToldNow`, `ToldAgain`). `HistoryComplete` needs
    in addition that an event names a field once (`OneChange`). A class is compared by its rank,
    so `MoneyGuarded` is a matter of `Stricter` never lowering one (`Classified`).
  - Validation: the collector has what some input broke and nothing else
    (`Collected`), a mutation's later root fields have broken nothing before the
    earlier ones are done (`OneByOne`), a root field that failed has an error of
    its own or finds the collector filled (`Failing`), and what was said of one stays
    as it was said (`Replying`). The rules, the errors and the directives agree for every value,
    unwrapped or not, and every error of the model's (`RulesHold`, `WaysAgree`, `GuardsAgree`), rule by
    rule and kind by kind.

- `ClientProofs` has an inductive invariant for each of the five clients in `Clients`;
  `IntegrationsProofs` says that a step of the whole is a step of the part under study
  (`PartsStep`) and concludes.
  - USPS: `TokenSafe` (`TokenSound`), from `UspsIInv`. What the slot says
    of a token's remaining life is at most `Timeout` too much, and a token under way
    has lost no more than its exchange lasted (`Margins`): `Skew >= 2 * Timeout` is
    what makes that enough, once for the fetch and once for the request. A fetch under way, or
    one the next caller must begin, is counted as made (`Due`, `FetchesPaid`): clearing the
    slot makes one due and is one more invalidation. After one revocation the first to be
    refused clears the slot while nobody fetches, so that whatever is stored, issued or sent
    a second time from then on is a newer token (`RevokedOnce`, `Works`). That tokens
    are at most two a caller (`Counted`) is needed for types only.
  - Registration: `RegistrationSafe` (`RegistrationSound`). A call that returned without an
    error has landed, and RMS takes what it declares (`AnswersTrue`). That a deployment
    is overwritten only by one it overlapped says nothing yet of one that has landed and was
    not overwritten: whoever came before it has neither a call nor a request left that could
    do so (`Unbeaten`, `SettledBefore`).
  - Fuel cards: `CardsSafe` (`CardsSound`) and `FuelingSafe` (`FuelingSound`). A request that
    began since the key was entered carries that key, and what Relay refuses is an older one,
    so that a report removes a good key only on old news (`KeysTrue`). What was told nil is
    done, what is late is not (`DoneTrue`), and what a call left stands or was
    followed by one of unknown outcome (`CardsStanding`). Fuelings past the policy are paid
    for by assignments (`UseCounted`). A window of the poll begins where
    the last one ended, and the page in hand is all of it (`Polled`). The first form of
    `LastWordStands` did not survive the proof: with three attempts a change of unknown outcome
    may land after the card was deleted and assigned anew, which two attempts, all that TLC
    had, cannot show. It is now stated of assignments of unknown outcome, too.
  - Mail: `MailSafe` (`MailSound`). In a transaction, what the caller was told is sent is among
    its rows, after the commit in the outbox or mailed, and outside of one it is there at once
    (`FateOpen`, `FateCommitted`, `FateAlone`); what verification finds is the message at hand
    (`FateVerified`, `FateDropped`); an ID is of the attempt that took it (`Timely`), which is
    why a second attempt alone can mail twice.
  - Orders: `OrdersSafe` (`OrdersSound`). What a client may ask and what its caller made of the
    answer (`Asks`, `HeardOf`, `Progress`); an effect is one landed call's and is what that
    call asked for (`Owned`), so that counting effects is counting calls, by an injection; an
    answer still to be read tells of its own effect, of its key's task, or of its file
    (`ReplyTrue`); of a key one task at most is open, and a resolution that landed left none
    open of the calls that had returned before (`OneOpen`, `Resolved`).
  - `WrittenSafe` (`WrittenSound`): the four together.
  - Companies: `CompaniesSafe` (`CompaniesSound`). A check that looks at a company has its DOT
    number, which was given, or is of a company whose docket has the number that was given
    (`CheckUnderWay`); what a check said last is right of whatever it read (`CheckMade`). The
    proof needs that no company has the DOT number 0, which is what a search that finds nobody
    leaves behind; `CarriersAssumption` now says so.

Left to TLC:

- everything under [fairness](#fairness), and so the liveness halves of the two
  refinements: TLAPS has no liveness under fairness nor `ENABLED` here;
- `WindowSound`, and of `Integrations` `ParsedSound`, but for the companies
  (`CompaniesSafe`), and `ReadSound`, but for the fuel cards (`FuelingSafe`). Most of their parts are about what a recursive
  definition or a fold computes (pages, texts, dates, folders), for which an induction theorem
  would be needed that takes an operator, out of the provers' reach here; those that are not
  stand under [plan](#plan);
- `EntityOrder` for several relays on disjoint rows.

## Disagreements between code and docs

Met while modelling. The first two are runs that end in a counterexample. For
the others the named property is stated in its module and TLC refutes it in the
same way when it is added to the run of that module, with the change given.

| Property | The text says | The code does |
|---|---|---|
| `EntityOrder` (run `outbox_key_order`) | "Order by EntityID" (`eventlog/outbox/relay.go:79`) | `LeastBytes` ignores the key (`eventlog/producer.go:15`) |
| `NoFactorTruncates` (run `factoring_truncated`) | a half-uploaded batch fails at factors that poll (`client/factoring/factoring.go:138`) | Triumph's manifest is written in place (`triumphsftp.go:219`) |
| `IngestedOnce`, with `Quarantine = FALSE` | a retry "overwrites the same file" (`rtssftp.go:110`) | RTS has cleared it and takes it again |
| `EveryDocument` | "upload supporting files first and the manifest last" (`client/factoring/factoring.go:136`) | two numbers may share a file name (`triumphsftp.go:250`) |
| `EventConsumer!WorkersSurvive` | workers "survive a bad message" (`observability/sentry.go:332`) | the recovery ends the loop (`eventlog/consumer.go:61`) |
| `RmsGate!OpensOnTransportErrors` | "consecutive transport errors" open the circuit (`rmsgate/client.go:68`) | every error of `Evaluate` counts (`client.go:163`) |
| `PermCache!StaleAtMostTTL` | "5 minutes is the agreed worst case" (`auth/perm_resolver.go:30`) | a fill under way adds its own time (`perm_resolver.go:89`) |
| `TokenRevocation!HeldTokensRefused`, with `Lag = 2` | every token already held is refused (`auth/token_revocation.go:51`) | an earlier cutoff may land last (`token_revocation.go:61`) |
| `RateLimit!EnvWins` | "Env vars still win when set" (`middleware/ratelimit_middleware.go:71`) | options are applied last (`:116`) |
| `UspsToken!SingleRefresh` | "concurrent callers collapse onto a single refresh" (`client/usps/usps.go:245`) | a late refusal clears the new token (`:298`) |
| `SavedFilter!LimitKept` | ten filters per user (`savedfilter/service.go:16`) | count, then insert (`:80`) |
| `SavedFilter!DeletedStaysDeleted` | `ErrNotFound` when a record is not found (`tmsdb/repository.go:12`) | `Save` inserts it again (`:56`) |
| `Validation!FaultsCaptured` | "5xx errors are captured to Sentry as errors" (`client/tmsgraphql/errors.go:73`) | invalid input hides a fault (`:89`), `Unavailable` is a warning (`:158`), dropped connections are skipped (`observability/sentry.go:111`) |
| `RingCentral!EveryNumber` | "returns every phone number" (`client/ringcentral/numbers.go:71`) | beyond the cap the rest is dropped without a word |
| `Mail!InlineFits` | "bounds bytes carried inline through the Kafka payload" (`mail/mail.go:121`) | each attachment is held to 1 MiB (`:287`), and base64 makes a third more of it; the writer's own limit stays at 1 MiB (`eventlog/producer.go:12`) and refuses the row, with its batch, at every poll |

The passing runs state what holds instead: `StalenessBounded` with the fill's
deadline, `RevokedStaysRevoked` with the SET's, `FetchesOwed`,
`OverrunBounded`, and `IngestedOnce` for callers that heed `TriggerAndClear`.

Where a property of a part names an exception, the exception is what the code
does. These deserve a reader's attention:

- Outbox: `created_at` is the clock of whichever replica publishes (`gorm_tm.go:178`), and the relay's
  order (`repository.go:33`) is as good as those clocks: events of an entity that they stamp
  alike, or the other way round, may reach Kafka in either order, with one relay and one
  partition, too.
- Factoring: of documents whose numbers become one file name the last one stays. Two batches
  of one second share a manifest's name; at Triumph, where manifests stay, the later one
  replaces the earlier, and no check refuses either.
- Tenancy: a `Save` of a stale copy writes outside the scope (`Isolated`); a user may create a
  row of a tenant table under another company (`tenant_scoped.go:48` fills in what is missing
  and keeps what is given), where `SharedTenantBase` would put its own;
  `tenant_shared.go`'s `BeforeCreate` refuses a superadmin's tenant record even
  when its company was given.
- Lists: a limit above the cap shortens the pages but not the offsets, so rows
  are skipped; `CalculatePagination` tells of other pages than `PaginateScope`
  reads. An empty `in` list is ignored by `FilterBuilder.ID`, where `InIDs`
  matches nothing; an OR branch without conditions is dropped; fields that do
  not decode at the other service widen its result.
- Validation: the resolver has run when `Middleware` asks the collector, and in
  a query the collector may hold another field's errors. Lengths are counted in
  bytes. `derefPointer` "returns nil for nil pointers" (`directive.go:163`), but of seven types
  only, and `isEmptyValue` an "empty slice" (`:146`), but of `[]interface{}` only: a left-out
  `*uuid.UUID` or an empty `[]string` passes `requiredWith`, `notEmpty` and the lengths as if it were given. The names of inputs have no index, so errors of a list's elements are merged under
  the last field's name.
- Errors: a fault of the server in an operation with invalid input is told to
  nobody. With debugging on, an unexpected error has no `code`, although "every
  emitted error" has one (`tmsgraphql/errors.go:71`). `AsPublicError` is said to
  serve "the GraphQL/REST layer" (`postgresql.go:140`), but REST asks for
  `PublicError` only. A missing role or actor type is a plain error
  (`directives.go:33`, `:57`): the client hears of an internal error, and it
  pages. A `PublicError` that crosses gRPC as it is loses its status, and pages
  too.
- Audit: the base class (HR, COMPLIANCE) is decided before a security action,
  although the stricter class is said to win; old data given as a pointer to
  the edited entity makes an empty history; embedded structs are skipped. The caller is not
  stamped on an event for which the producer named another actor.
- Identity: after `ClearAuthContext` `GetActor` returns a nil actor without an
  error, and `RequireAuth` panics; `CheckGuestResource` panics without an actor.
  A guest cannot call another service. Settings read without a company are the
  defaults. A cache entry deleted by an actor of another company, or of none, is missed
  silently; `DeleteKeys` writes the keys it builds into the caller's slice, so a retry misses them all.
- Time windows: where clocks go forward at midnight the day, and the week said
  to begin on "Monday 00:00" (`timewindow.go:141`), begin an hour early; "last n
  months" keeps the hour, so at the ends of months its beginning may step back
  by less than a day.
- Connections: `m.db.Transaction` (`gorm_tm.go:43`) begins with the pool's
  context, not the request's, so a cancelled request goes on waiting for a
  connection. `EnsureDatabase` looks and then creates: of two replicas that
  start at once one dies in `log.Fatalf` and is started again.
- Mail: outside a transaction "was dropped" is always a false alarm, since the
  relay has shipped the row already, and a retry without an ID of its own mails
  twice; `notify.go:170` speaks of a deterministic aggregate ID and takes a new
  one for each call. `notify`'s `Send` writes the action into the caller's metadata
  (`notify.go:157`), so a later notification over the same map carries an action
  it was not given; without an actor it goes out without a company, where a mail is refused.
- Registration: an error says nothing of what RMS has.
- Samsara: a setup subscribes natively and by alerts, so each crossing reaches
  the callback twice; what was created before an error stays; POST and PATCH
  go round `doRequest`, so their 401 is no `AuthError`, nor is the sensors'; a page of the feed lists its positions
  vehicle by vehicle, so they are in order for one vehicle only; some lists said to give
  all (`samsara.go:635`, `:784`) give their first page. A page without a cursor
  although more follow makes `GetAllAddresses` begin again and other lists end
  as if complete. `ListVehicles` and `GetVehicleByVIN` read one endpoint in two
  forms, of which one is always read as empty. A position whose time cannot be
  read is given the time of reading, and may take the place of a newer one. A
  403 for a missing license counts as a refused key. Air that is too dry has no
  callback (`HumidityBelow`) and is acknowledged unheard; a signature header
  that leads with a timestamp is refused.
- Toll files: a listed name that begins with a blank is fetched as its trimmed namesake, or
  missed. In development without `TEST_PREPASS_SFTP_HOST` the carrier's own host is dialled,
  and a pinned host key of the carrier's applies to the catcher. A plate that looks as if it
  began with a state loses its first letters.
- Fuel cards: tms-auth is told of a refusal, not of the key that was refused, so a
  late one removes a key that is good. Nothing tells Relay that a creation is a
  second attempt: a second code is good for money, and a policy assigned again allows its fuel again. An empty credential is said to be an error
  (`json_provider.go:68`): `null` and `{}` give the zero one. 401 and 403 are one
  `AuthError`, so a key that lacks one right loses all.
- RingCentral: lists map 403 to `ErrInvalidCredentials`, where reconnecting does
  not help; recordings tell the two apart. A phone number whose ID is no number fails its whole
  page (`json.Number`), which the call log tolerates.
- Maps: Google's routes map 401 and 403 only, so a key over its cap (429) is an outage there and
  an `AuthError` elsewhere; a key denied with status 200 is logged as "ok"
  (`googlemaps.go`, `finish`); `BuildTruckRoute` wraps every error of HERE as "no truck route", so a
  rejected key reads as an impassable address.
- Companies: any status that is not "NOT AUTHORIZED" is valid, "OUT-OF-SERVICE" and an empty
  one, too (`fmcsa_dto.go:72`). The search gives 20 active companies at most, and a number that is part
  of many others' may not be among them: it reads as not found. An MC
  number with its prefix is refused before the prefix is removed. A company without a status is valid to SAFER's
  reading and invalid to FMCSA's. Redirects' status 300 passes for success; the details of a 422 are
  decoded and then reported as "decode failed".
- Tasks: an assignee type left empty passes without an id, although an id is "required unless
  AssigneeType == all" (`tasks/client.go:91`); a task whose creation was given up may be opened after
  it was resolved, and stays.
- HERE: walked leg by leg, a leg with a ferry is what comes before the ferry,
  and later arrivals are early; manoeuvres of later sections have offsets of
  their own lines, although they are said to be an index into the whole.

## Not modelled

- Generated code: `proto/*.pb.go` is 20 400 lines, almost half of the
  repository, and has no logic of its own.
- Presentation and infrastructure: payloads and texts of errors, scopes and tags
  of Sentry, REST's validation messages, the field catalogue, configuration, ClickHouse, bcrypt, `cmd/copyschema`.
- Text: CSV columns, addresses, dates, slugs; SQL's
  patterns, JSON paths and EXISTS subqueries; `proto_convert`, which
  maps fields one by one; the tables of enumerations and of event roots.
- Of modelled components: what becomes of other rows in a batch with one that Kafka refuses for
  ever, which `Mail` shows to exist; services with different
  ceilings on one rate limit key;
  lists and single reads of fuel cards; raw SQL and `Unscoped`, which the tenant scope does
  not see; JWT verification.

## Plan

Done, in this order: `Outbox` with `EventDelivery` and proofs; `EventConsumer`
with proofs and `Pipeline`; `RmsGate`, `PermCache`, `Factoring`
and `TokenRevocation` with proofs; `UspsToken` with proofs; `RateLimit`, `SavedFilter` and
`Permissions`; then tenancy with proofs, guests, lists, conditions, validation,
the audit trail, time windows, identity and connections with proofs, composed in
`UserAccess`; toll files, Samsara, registration, RingCentral, HERE, mail,
fuel cards, the vendors of maps, companies and one-shot orders, composed in `Integrations`.

What would add most next: `EXISTS` in `Conditions`; a row that Kafka refuses in `Outbox`, where it
would show which rows wait behind it.

Next theorems: `WeeksTile` of relative periods, as arithmetic of hours; `NoPositionLost` of the
Samsara feed and `CompleteUnlessSaid` of RingCentral's pages.
