# College Hub in TLA+

Models of the concurrent core of College Hub (the `campizo` repository): what its
async request handlers, background workers and command-line tools do to the data they
share, checked with TLC on small instances and, for the parts listed in section 6,
proved with TLAPS for every size. File names are relative to `src/`; "the hub", "the
kernel" and so on name the components of the first table.

1. [The system](#1-the-system)
2. [The modules](#2-the-modules)
3. [State and actions, module by module](#3-state-and-actions-module-by-module)
4. [The runs](#4-the-runs)
5. [Fairness, deadlock, bounds](#5-fairness-deadlock-bounds)
6. [The proofs](#6-the-proofs)
7. [Where code and documents disagree](#7-where-code-and-documents-disagree)
8. [What is not modelled](#8-what-is-not-modelled)

## 1. The system

A TypeScript monorepo. `apps/api` (Fastify) builds the feature modules with their
in-memory repositories (`apps/api/src/modules.registry.ts`); `apps/worker` is a
runtime for background jobs; `apps/web` is the front end; `packages` holds what the
modules share. The feature modules all have one shape: a controller calls a *use
case*, an async method that reads entities from repositories, checks the domain's
invariants, writes entities back and publishes events; *workers* consume events.

All hard behaviour follows from that shape. One Node process runs one piece of
JavaScript at a time, but at every `await` another call may run. What a call holds
across an await depends on the repository:

- **marketplace, academic resource hub, platform feature flags**: a read returns a
  *copy*, `save` overwrites the *whole* entity. A call writes back whatever it read,
  however old (the flags compare versions, loosely).
- **confessions, rate my professor, notifications, identity kernel**: a read returns
  the *live object*; a call sees, and mutates, the entity as it is at that moment.
- **connect**: reads return copies, `update(copy, version)` refuses a version that is
  not the stored one.

A promise of an in-memory repository resolves in a microtask, so with these
repositories two handlers overlap only when they were started in one turn of the
event loop. The repositories are interfaces, several have Drizzle implementations in
the same tree, and the documents describe PostgreSQL, so the models let calls
interleave at every await. Overlap can be forbidden in every model (a constant
`Serial` or a flag fixed in the initial state): the two settings together say what
holds always and what depends on nobody else being in the middle of a call.

| Component | State | Operations | Interacts with | Hard behaviour | Correct when |
|---|---|---|---|---|---|
| **Marketplace** `modules/marketplace/src/use-cases` | listings (status, `currentReservationId`), offers, reservations, reports | draft, publish, offer, accept, report, moderate, complete | its workers, through repositories and events | check-then-act over three saves, stale whole-entity saves, statuses moved by moderators under a running sale | one active reservation, a lock names its reservation, three reports quarantine |
| **Marketplace expiry and moderation workers** | processed job ids | expire a reservation, quarantine a reported listing | write the repositories of the use cases | failure between two saves, jobs racing calls | completed stays completed, expired lets go |
| **Marketplace upload workers** | processed keys, search index, statistics | scan, optimize, extract, index, count | each publishes the event that starts the next | key recorded before a publication that may fail | every clean upload ends up announced |
| **Random chat** `modules/connect` | waiting room, conversations with version and expiry | join, poll, leave, send | polling clients | student read before the await and queued after it; timeout against leave | nobody twice in the room, nobody overlooked, one chat each |
| **Connect intents and requests** | rows with versions, connections | create, decide, connect | | copies written after an await, ids that repeat within a millisecond | no decision lost |
| **Connect event router and breaker** | processed ids, dead letters; state and counters | dispatch, replay; execute, reset | every event handler; every guarded call | duplicate and late answers, replay | no failed event forgotten, recovery after an outage |
| **Confessions** | posts, cases, counters | create, report, decide | moderators' queue | live objects, report threshold, a write an await after its check | reported posts are quarantined with a case |
| **Thread pseudonyms** | identity per student and thread | post, comment | confessions | two first comments at once | one name per commenter |
| **Confessions event router, idempotency** | processed ids, dead letters; cached responses | publish; the two request hooks | workers; every write route | check before and record after an await, ids that two events share | a worker that is registered processes an event or leaves a dead letter; one write per key |
| **Rate my professor** | reviews, dead letters | submit, edit, delete, moderate; scan, recalculate and announce | workers on the event bus | saved before it is announced, handlers of several events at once, retries | announced statistics agree with reviews, none unscanned |
| **Academic resource hub** | resources, versions, files, counters, collections | upload, version, moderate, report, collect | | stale whole-row saves, numbers given by counting | versions count up, three reports quarantine |
| **Platform feature flags** | records per environment, cache | create, set, move, mutate, evaluate | cache loads | optimistic save with retry, stale cache, contexts that replace what is cached | a removed flag stays off, unless the caller names a stage |
| **Error tracking** | aggregates, incidents | capture, move an incident | every module | windows of time, operators | a burst opens one incident |
| **Backup** `packages/backup` | objects of a store | back up, clean, verify; forward WAL | PostgreSQL, Redis, media | failure and death between two objects, retention | the newest listed snapshot restores; a lost segment is a torn one |
| **Identity kernel** `packages/security` | users, codes, sessions, locks | register, log in, change password, refresh, revoke | every module | Argon2 awaits, replayed tokens | one live session per login, dead logins stay dead |
| **Placement guidance** | experiences, companies, questions | submit, report, moderate | | find-or-create over an await | an experience's company is found, third report flags |
| **Notifications** | notices, preferences, delivery queue | publish, read, delete, mute | publishers | aggregation against reading | unread notices aggregate, read ones do not |
| **Core kernel** `packages/core` | modules, their status | register, order, initialise, stop | every module | any dependency graph, modules that throw | dependencies first, or refused |
| **The rest** small flag engine, providers, mail, database, configuration, logging, server, web, scripts | | | | no protocol of its own | |

The hazards of this code, each at the line where it bites, are the `hazards` of
`PROJECT.json`; the properties were chosen from them.

## 2. The modules

| Module | Models | Uses |
|---|---|---|
| `ListingStates` | statuses and transition table of a listing (`marketplace/src/domain/invariants.ts`) | |
| `Marketplace` | the use cases on listings, offers, reservations and reports | `ListingStates`, `Sale` |
| `Sale` | *abstract*: an item is promised to one reservation at most, and sold once, to it | |
| `MarketplaceWorkers` | the use cases composed with the expiry and moderation workers | `Marketplace` |
| `UploadPipeline` | scan, image, metadata, search and statistics workers and their routes | |
| `RandomChat` | waiting room and conversations (`connect.use-cases.ts`) | `Matchmaker` |
| `Matchmaker` | *abstract*: students wait, are paired, part | |
| `Connections` | intents, connection requests, connections (same file) | |
| `ConnectEvents` | event router, dead letter queue, replay | |
| `CircuitBreaker` | one breaker (`connect/src/resilience/circuit-breaker.ts`) | |
| `Confessions` | creation, reports and moderation of posts | |
| `ThreadIdentity` | pseudonyms of posts and comments | |
| `ConfessionEvents` | event router, dead letters, idempotency hooks | |
| `Reviews` | review use cases, scan and statistics workers | |
| `ResourceHub` | `academic-resource.use-cases.ts` | |
| `IdentityKernel` | `packages/security/src/identity-kernel.service.ts` | |
| `FeatureFlags` | one flag of `packages/platform-feature-flags` | |
| `Backup`, `WalArchive` | commands and retention; the WAL forwarder (`packages/backup`) | |
| `ErrorTracking` | aggregation, rules, incidents | |
| `Placement` | experiences, companies, questions | |
| `Notifications` | notices of one recipient | |
| `ModuleKernel` | module registry and boot (`packages/core`) | |
| `MCMarketplace`, `MCMarketplaceWorkers`, `MCRandomChat`, `MCConfessions`, `MCIdentityKernel`, `MCReviews` | instances of one module: identifiers and symmetry | the module named |
| `MCDelivery` | instance of five modules that share no state | `ConnectEvents`, `CircuitBreaker`, `ConfessionEvents`, `UploadPipeline`, `ResourceHub` |
| `MCServices` | instance of nine modules that share no state | `FeatureFlags`, `ThreadIdentity`, `Backup`, `WalArchive`, `ErrorTracking`, `Placement`, `Connections`, `Notifications`, `ModuleKernel` |
| `MarketplaceProofs` | theorems on the use cases alone and with the workers (section 6) | `MarketplaceWorkers` |
| `ConfessionsProofs`, `RandomChatProofs`, `IdentityKernelProofs` | theorems on one module each | the module named |
| `DeliveryProofs` | theorems on routers, breaker, idempotency, uploads | `ConnectEvents`, `CircuitBreaker`, `ConfessionEvents`, `UploadPipeline` |
| `ServicesProofs` | theorems on pseudonyms, placement, connections, notifications | `ThreadIdentity`, `Placement`, `Connections`, `Notifications` |
| `PlatformProofs` | theorems on backup, boot, error tracking, flags | `Backup`, `WalArchive`, `ModuleKernel`, `ErrorTracking`, `FeatureFlags` |
| `AcademicProofs` | theorems on reviews and the hub | `Reviews`, `ResourceHub` |

`MarketplaceWorkers` is a composition in the strict sense: calls and jobs write the
same listings and reservations. `MCDelivery` and `MCServices` are none: their
components share nothing, and a variable `part`, chosen once, says which of them a
behaviour is a behaviour of. That keeps one run per question without multiplying
independent state spaces.

**How an async function becomes actions.** A call in flight is a request `q`;
`req[q].pc` (`at`, `point`) names the call it makes when it resumes, the other fields
are its local variables. Every action is the code from one await to the next: the
guard is its early returns and throws, the primed variables its writes. `Begin` starts
a call, `Proceed` resumes one. A call that throws before it changed anything is not
enabled; one that throws later returns with what it has written. Where a read cannot
be told apart from the next one, two awaits share a step, and a comment says so.
Events and audit entries that change nothing modelled are left out. A mutated variant
of an action, which no specification uses, stands before the action it mutates.

**Flags.** `overlap`, `crossing`, `crowded`, `rush` (calls overlap), `alone` (statistics
jobs do not), `faulty` (publishers fail) and `nightly` (only the CronJob runs backup
commands) are variables no step changes, so one run covers both kinds of behaviour and
a property says of which kind it speaks.

**History variables** exist for properties only and are never read by a guard, bounds
aside: `sold`, `done`, `missed`, `again`, `streak`, `executed`, `announced`, `written`,
`torn`, `captured`, `sinceApproval`, `decided`, `quarantined`, `clashed`, `unheard`.

## 3. State and actions, module by module

**Marketplace.** `listing[l]` is the status and `currentReservationId` (`cur`); a copy
a call has read travels in `req[q].copy` until `SaveListing`, the final save of five of
the use cases. `CreateListingDraft`, `PublishListing`, `SubmitOffer`/`-Check`/`-Save`,
`AcceptOffer`/`-SaveOffer`/`-SaveReservation`,
`ReportListing`/`-Check`/`-Save`/`-Count`, `ModerateListing`,
`CompleteReservation`/`-SaveReservation`/`-ReadListing` are the use cases in the order
of the file. Statuses nothing writes (ARCHIVED, COUNTERED, ...) are left out; so are
prices, media and the college, in which no two calls here differ. Reports are a set of
users per listing because the repository keys them so.

**MarketplaceWorkers.** A job is a second kind of process over the same repositories.
The API does not subscribe these workers yet; the model composes them with the use
cases as `workers/event-router.ts` routes the events. The router starts the expiry job
as soon as `ReservationCreated` is routed and compares no clock, so a job may run
whenever its reservation is stored, again after a failure; `processed` is the dead
letter manager's record of finished jobs. `JobFails` (constant `Failing`) rejects the
repository call a job waits for.

**UploadPipeline.** `marked` is `processedJobIds`, `job` the jobs in flight, `queued`
what the router may start (again: delivery is at least once). `Start` runs a job up to
the await on its publisher: the key is recorded there, before the publication.
`Announce` and `PublishFails` are the two answers. `ReadStatistics` and
`SaveStatistics` are the two halves of the statistics job.

**RandomChat.** `queue` is `randomQueue`, `chat[c]` the conversations in the order of
creation with their version; `Update` is the repository's version check. `Status` polls
(and closes what has expired), `JoinStart`, `JoinActive`, `JoinQueue` are
`joinRandomChat` with `matchRandomChat`, `LeaveQueue`, `LeaveStart`, `LeaveClose` are
`leaveRandomChat`, `SendStart`, `SendMessage` are `sendMessage`. `Tick` is the clock.

**Connections.** A row (intent or request) has a status and a version. `FindRow` reads
it; the version the caller expects is any positive number, as the validators ask for no
more, and may be one the row does not have yet. `UpdateRow` compares it with the stored
version only when it writes the copy back, `Conflict` is the refusal, `SaveConnection`
follows an accepted request. Intents, requests and connections are named by
`Date.now()` and `save` overwrites, so `StoreNew` replaces what was created in the same
millisecond; `MillisecondPasses` decides whether two creations share one.

**ConnectEvents.** `dispatch` awaits the handlers of its event one after another, each
tried up to `MaxAttempts` times: `HandlerSucceeds` and `HandlerFails` are what follows
an answer, `Advance` moves to the next handler, `ReplayEvent` is the replayer.
**CircuitBreaker.** `Execute` looks at the state (and moves OPEN to HALF_OPEN when
the recovery timeout has passed), `Succeed` and `Fail` report to the state of *then*;
`GetState` is the health check, which moves it too.

**Confessions.** Posts are live objects, so a call keeps only their identity.
`updateStatus` finds the post, awaits, and writes: `UpdateStatus`/`SetStatus` for a
decision, `CountReport`/`QuarantinePost` for a report. Who reports is not modelled
because nothing in the code depends on it. **ThreadIdentity.** `identities` is the map
of `findOrCreatePseudonym`; `createConfession` files its author under a draft key,
`addComment` under the id of the post.

**ConfessionEvents.** `Publish` starts the worker loop of an event along its route.
`LoopFrom` passes over a worker that has no handler (neither processed nor a dead
letter) and one whose key is known. The key is made of the worker and the event's id,
which is a millisecond: events may share it (`EventId`, `Twins`). `WorkerSucceeds` and
`WorkerFails` follow a worker's answer; a failure on an id that has a dead letter of the
worker leaves that one as it is. `OnRequest` is the first idempotency hook, `Handle` the
handler, `OnSend` and `SetCached` the second hook, `Expire` the 24 hours of the cache.

**Reviews.** A submission is four steps, `SubmitReview`, `SaveReview`,
`PublishCreated` and `PublishPublished`, between which the review is stored, approved,
with no scan at work; the bus may refuse either event (`RefuseSubmission`), the
submission then fails and leaves its review. Other use cases are one step each, their
event may be refused as well (`PublishChange`). An event starts its handler at once, a
`job` with its attempts; `Retry` starts it over or files it in `dead`. A statistics job
lists the approved reviews (`ListReviews`), computes from those that still are
(`ComputeStats`) and announces (`AnnounceStats`): `stats` is what the last
StatisticsUpdated said, because the repository of statistics the API wires keeps nothing
and answers constants. `by` records who last decided on a review, `unheard` the handlers
that events the bus refused did not start.

**ResourceHub.** `resource`, `version` (with its file hash), `counts`, `shelf` are the
repositories; a visit holds the copy it will save (`SaveResource`, `SaveReport`,
`SaveUse`, `Shelve`). `CreateResource` up to `SaveInitialStats` is the upload,
`CreateVersion`/`SaveVersion` numbers a version by the latest it read.

**IdentityKernel.** What this service awaits is Argon2, which runs on other threads: a
call is split exactly where a password is hashed or verified. Sessions are named by the
token family (`login`) they descend from; `RefreshSession` rotates, `ReuseToken`
presents a revoked one. `LockEnds`, `OtpExpires` and `SessionExpires` are time.

**FeatureFlags.** One flag in each environment, with stage, state and version; the
cache evaluation reads (`ListFlags` loads it). `SaveMutated`/`ReadAgain` are
`saveWithOptimisticRetry`, `UpdateState`/`WriteState` the unchecked save,
`MoveFeature`/`StoreStage` the life cycle. `Chain` and `EvaluateFeature` are the policy
chain, a pure operator, in the order of `policy-engine/policy-engine.ts`. The caller's
context is spread over the cached record before, so a stage or a default state that it
brings replaces the cached one (`StageIn`, `DefaultIn`).

**Backup.** `store[k]` holds the objects of a kind; a command is a list of tasks, each
making a snapshot (`BeginSnapshot`, `PutData`, `PutManifest`) or cleaning
(`ListBackups`, `DeleteObject`, `EndCleaning`). `SkipData` is a mirror that could copy
nothing and goes on; `AbortBackup` is a command that fails or dies. **WalArchive.**
`staged`, `archived` say whether the directory and the store hold a segment whole,
partial or not at all; `ReadSegment` may run while `BeginCopy` has not been followed by
`EndCopy`, as the watcher reports a file when it is created.

**ErrorTracking.** Everything is synchronous; an action is a call. `Capture` files the
error in its aggregate, or begins a new one when the last was seen longer ago than the
window of deduplication (an occurrence is its moment and running number), takes the first rule that matches
and opens or refreshes an incident; `PassTime` moves windows; `UpdateIncidentStatus` is an
operator. The two windows are independent, as they are in the configuration; `Linked`
says, of the captures alone, which errors a pause separates from the next one.

**Placement.** `SubmitExperience`, `CreateCompany`, `CreateExperience` are the three
awaits of one use case, and two that cross create two companies of one slug
(`Namesakes`), of which the index finds the later; `ReportItem`, `ApproveItem`,
`FlagItem`, `DeleteItem` act on experiences and questions, which count reports
differently.

**Notifications.** `PublishNotification` passes preferences, `CheckRules` the rules,
`CreateNotification` creates or aggregates by key, `EnqueueDelivery` enqueues;
`FindNotification`/`Mark` read and delete over an await.

**ModuleKernel.** `needs` is any dependency graph over the modules. `Visit` is one
call of the depth-first search, with `path` its stack; `Initialize`/`Initialized` one
module in its sandbox, with every outcome.

## 4. The runs

| Run | Instance | Checks | Distinct states | Shows |
|---|---|---|---|---|
| `market_serial` | 1 listing, 3 users, 3 offers, 2 reservations, 1 call | `OneActiveReservation`, `RefinesSale`, `CountedReportsQuarantine` | 48 104 | calls one after another keep the single reservation, implement `Sale`, and a third report quarantines |
| `market_double_accept` | 1 listing, 2 offers, 2 reservations, 2 calls | `OneActiveReservation` | | *violated*: divergence 1 |
| `workers_interleaved` | 1 offer, 2 reservations, 1 reporter, 2 calls, a failing job | `OfferDrivenReservation`, `LockNamesReservation` | 1 017 797 | no interleaving of calls and jobs tears a lock from its reservation or makes one without an accepted offer |
| `workers_serial` | 2 offers, 2 reservations, 3 reporters, 1 call, 1 job | `CompletedIsFinal`, `ExpiredIsReleased` | 55 999 | expiry takes nothing back and releases the listing |
| `chat_interleaved` | 3 students, 2 chats, 2 calls | `QueuedOnce`, `NobodyOverlooked` | 448 028 | the waiting room survives any interleaving |
| `chat_serial` | 4 students, 2 chats, 1 call | `RefinesMatchmaker` | 85 678 | random chat implements `Matchmaker` |
| `posts_interleaved` | 2 posts, 2 cases, 3 calls | `ReportedIsHandled`, `QuarantineHasCase` | 878 167 | three reports always quarantine, with a case |
| `kernel` | 2 users, 2 sessions, 2 calls | `OneLivePerLogin`, `DeadLoginStaysDead` | 872 865 | rotation and reuse detection hold whatever overlaps |
| `reviews` | 2 reviews, 2 authors, 1 submission in flight, 2 handlers at work | `UnscannedIsPending`, `OneReviewPerAuthor`, `StatsCurrent`, `DeletedStaysDeleted` | 1 221 560 | a review escapes its scan only when the bus refuses its event or the last attempt fails (any overlap); without overlap the statistics announced last are current at rest |
| `delivery` | below | `NothingLost`, `ClosesAfterStreak`, `Recovers`, `OneWritePerKey`, `UploadsSettle`, `VersionsCountUp`, `ReportsQuarantine`, `ShelvesInOrder` | 341 046 | the once-only and retry machinery, and the hub |
| `services` | below | `OneNamePerCommenter`, `NewestRestores`, `OnlyOutlived`, `LostOnlyTorn`, `OneOpenIncident`, `BurstOpensIncident`, `CompanyIsFound`, `ThirdReportFlags`, `NoDecisionLost`, `UnreadAggregates`, `BootsInOrder`, `RemovedStaysOff`, `OnlyStateWritesLower`, `ProductionFollowsTable` | 738 654 | nine components, each alone |
| `wal_torn` | 2 segments | `SegmentsSurvive` | | *violated*: divergence 2 |

Every property of a passing run is broken by a plausible bug in the code it is about
(`mutants` of `PROJECT.json`): a dropped guard, a record made before instead of after
an await, a copy compared with itself, an index that forgets.

Each module also states a type invariant, and some state properties no run checks,
because they are proved (section 6). All of them were checked on the instances above;
the configurations leave them out, so that a run asks what could really be wrong.

**Instance of `delivery`.** Events with two, one and no handlers, 2 dispatches, 3
attempts, 4 starts; a breaker with 3 calls and the thresholds of the code (3 failures, 2
successes), counters up to 6, 2 forced changes; 2 confession events of one millisecond,
each published twice at most, with a worker on both routes, one on one and one that is
not registered, 2 publishers; 1 idempotency key, 2 requests, 3 writes; 2 uploads, one
infected, 2 jobs, 3 deliveries; 2 resources with one file hash, 3 versions, 1 collection
of at most 2, 2 visits in flight, 5 begun.

**Instance of `services`.** A flag in production and staging, 2 calls, 2 retries,
versions up to 3; 1 post, 2 students, 3 names, 1 draft key, 2 calls; 2 backup commands,
of any kind by the CronJob, full backups and clean-ups by hand, `Keep` 1, 3 ids a kind;
2 WAL segments; two kinds of errors that match different rules, 2 incidents, 3 ticks, a
deduplication window of 1 and a rule window of 2, 5 captures; 3 companies of one slug, 2
submissions at once, 2 experiences, 1 question, 3 reports; 1 profile, 2 moments, one row
stored (as often as its moment lasts), 2 deciders, versions up to 3; 2 notices of one
key, 2 publishers, 1 reader; 3 modules with every one of their 512 dependency graphs.

Symmetry is used where identifiers, or calls, are interchangeable: `WorkSymmetry` in
`workers_interleaved`, `MCSymmetry` in `chat_*`, `posts_interleaved`, `kernel`,
`reviews` and `services`. The runs with a liveness property use none.

## 5. Fairness, deadlock, bounds

**Fairness.** The event loop resumes a suspended call once its promise has settled, so
resuming is weakly fair and starting is not: nobody has to call.
- `FairSpec` (`market_serial`): weak fairness of `Proceed(q)`.
- `WFairSpec` (`workers_serial`): that, weak fairness of running jobs, and strong
  fairness of `ExpiryStart(j, r)` for each reservation: its job was queued when it was
  created and a queue retries it, and it may be enabled only between other calls.
  `Failing` is FALSE there: a job that fails between its two saves never releases the
  listing, see section 7.
- `MCDelivery`: handlers answer; the action of a guarded call settles; time passes;
  calls, or health checks, of a breaker keep coming (`Recovers` speaks of a breaker in
  use: an idle one has no reason to close); publishers answer and a queued task is
  started, as the router awaits it at once. `Recovers` assumes that failures cease,
  `UploadsSettle` a publisher that does not fail: with one that does, the recorded key
  makes the retry answer without publishing, and the upload is never announced.

**Deadlock** is not checked: pools of identifiers are finite, statuses such as SOLD
and DELETED are terminal, and a system in which nobody has anything left to call is in
order. What must not get stuck is stated as liveness, or as "when no call is in flight"
(`AllIdle`, `Quiet`, `NobodyVisits`).

**Bounds.** Every bound is a constant or the size of a set of identifiers.
- *One listing* in the marketplace runs: no call touches two, and nothing relates two
  but reservation ids, which are given out once. The theorems cover any number. *Two
  reservations* break the single reservation rule and give a listing an old and a new
  one; *three offers* let one buyer renew an offer while another's is pending; *three
  users* report because `QuarantineAt` is 3. `workers_interleaved` has one reporter, so
  its moderation worker never starts (`workers_serial` runs it); HIDE still saves
  stale copies as QUARANTINED.
- *Two calls* (three in `posts_interleaved`, where three reports of one post can be in
  flight): each property about overlap needs a call that holds something stale and one
  that changes it.
- *`MaxChats` 2, `Ttl` 1, `MaxClock` 1*: an open and a former conversation of one
  student; fresh and expired ones; two that share a tick.
- *`LockAfter` 2, `HistoryLimit` 2* instead of 5 and 5, *`CollectionLimit` 2* instead of
  50, *`MaxRetries` 2* instead of 3: the limit is reached and crossed, which is what the
  properties are about. Thresholds small enough are those of the code.
- *Reviews*: two authors, one submission in flight, as submissions of two authors touch
  no common review; two handlers at work, of one review or two. While calls overlap
  (`MCBounds`) all ratings are 1, statistics handlers are in their first attempt and one
  scan is lost at most: only `UnscannedIsPending` speaks of that part, and no rating or
  statistics handler decides on a status. `Decisions` leaves out HIDDEN, which every
  property treats like a moderator's REJECTED.
- *Deduplication 1, rules 2*: the windows the wrong way round, so that a pause restarts
  the count inside the window of a rule; errors aggregated together are the case of a
  burst without a pause.
- *3 companies for 2 submissions*: one more than may have a slug.
- *`MaxRevision` 3, one row at a time* (`MCOneRow`): a caller may name a version one or
  two ahead of the row, and its row may be replaced; rows do not refer to each other.
- *2 confession events*: they share their id, and a worker; one of them never processed
  is the case of events with ids of their own, as each route also has a worker alone.
- *`Keep` 1* and 3 ids: one snapshot kept, one outlived, one in the making.
- *`MaxVersion` 3*, and while calls overlap the flag is stored in production only
  (`MCOneEnvironment`): two overlapping writers of one record; environments are only
  related by calls that move all of them, which are checked without overlap.
- *`StoredStages` {PRODUCTION}*: the service starts on no flag or on one in production;
  every other stage is reached by the use cases.
- *3 modules*: every graph with circles of one, two and three modules, with diamonds
  cut to three, and missing dependencies (a module that never registers).

## 6. The proofs

Proved with tlapm for all values of the constants that satisfy the named assumptions of
the modules. These are the types of the constants, that `None` and its like are none of
the identifiers, that bounds are numbers and thresholds positive; that `CollectionLimit`
and the window of deduplication are at least one, that companies and submissions are
finite sets, and that experiences and questions do not share ids. Nothing else is
assumed, except where a theorem names `Serial` or `~Failing` as a hypothesis: those are
settings of the constants that say which behaviours it speaks of, and the runs named in
section 4 have both settings.

Every invariant and every action property a passing run checks, and both refinements,
are stated by a theorem. Of `PROJECT.json`'s list these state a property no run checks:
`LegalTransitions`, `OnePendingOffer`, `SoldWasCompleted`, `SoldOnce`,
`ExpiredHoldsNothing`, `NothingLeftBehind`, `PublishedWasQuarantined`, `UniqueUsers`,
`HistoryDistinct`, `LockHolds`, `OneAccountPerOtp`, `ProcessedOrDead`, `OncePerWorker`,
`OncePerEvent`, `AnnouncedOnce`, `ViewsCounted`, `OneActiveChat`, `NoLateMessage`,
`ClosedIsFinal`, `MixedPairs`. TLC found no counterexample to any of them on the
instances of section 4. The type invariants, `ClosedTolerates` (a closed breaker has seen
fewer failures than its threshold) and `CurrentIsRemembered` (the current password is the
latest remembered) are theorems too, not listed.

Here is the argument of each group.

**Marketplace, any interleaving of calls** (`ReservationsAreOfferDriven`,
`LocksNameReservations`, `SalesWereCompleted`). Not inductive as they stand, because
calls save copies they read long ago. `IInv` says of the *copy* in flight what is to
hold of the *store* (`Sound`, `LocalsOK`): a copy that is RESERVED names a stored
reservation of its listing. `SaleInv` adds that a copy that is SOLD has a completed one.
Both survive other calls' steps because these only add to what they speak of: no
reservation or offer is ever unstored, none leaves ACCEPTED or COMPLETED.

**Marketplace, calls one after another** (`SingleActiveReservation`,
`SinglePendingOffer`, `TransitionsAreLegal`, `Refinement`). `SInv(kept)` adds that one
call runs at most (`OneCall`), that what it is about to save follows from what is stored
*now* (`Fresh`), and that every reservation with a status in `kept` is the one its
listing points to or the one about to be (`Promised`). The last part is why there is one
reservation per listing although `publishListing` puts a RESERVED listing back on sale:
its pointer stays, and `acceptOffer` looks at the pointer. For the calls alone `kept` is
every status a reservation is stored with.

**Marketplace with its workers, any interleaving** (`WorkersKeepReservationsOfferDriven`,
`WorkersKeepLocks`). `WInv` is `IInv` with what a job holds: the reservation it works on
is stored, and the listing it will save has a sound pointer or none. The jobs may fail
anywhere and overlap anything.

**Marketplace with its workers, one after another** (`CompletedStaysCompleted`,
`WorkersKeepOneReservation`, `WorkersKeepSales`, `WorkersMoveLegally`, `WorkersSellOnce`,
`ExpiryLeavesNothingHeld`). `LonelyInv` says that a job at work is alone, so the
reservation it is about to expire is as ACTIVE as when it was read. `SerialJobsInv` joins
it with `SInv({"ACTIVE"})`, `SaleInv` and `JobFresh`: a job lets go of a listing only
when its reservation is not ACTIVE any more, and quarantines one only while it is on
sale. `kept` has to be smaller here: a released listing is promised again, and the
expired reservation may still be completed, so only what is ACTIVE is the one pointed
to. `ExpiryInv` says who will put a listing back on sale that an expired reservation
holds: the job that expired it and has not failed; and that no call is about to save
such a listing.

**Confessions** (`OnlyModeratorsPublish`, `ReportsAreHandled`, `QuarantinesHaveCases`).
The properties say something only when no call is in flight; `IInv` says who will make
them true meanwhile: a post past the threshold and still pending has a report about to
quarantine it, a quarantined post without a case has a call about to store it.

**Random chat.** `ChatInv` (any interleaving) gives `QueuedOnce`, `NobodyOverlooked`,
`MixedPairs` and `ClosedIsFinal`: the student is looked for in the room, and pushed if
nobody of the other gender waits, in the step that follows the only await; a copy a call
holds of a conversation that was closed meanwhile has an older version than the stored
one. `LoneInv` (calls one after another) gives `OneActiveChat`, `NoLateMessage` and
`RefinesMatchmaker`.

**Identity kernel.** `SessionInv`: a stored session descends from a stored login, and a
login has one live session at most; this needs no assumption about overlap, since
rotation and reuse detection await nothing. `AccountInv` says what the locals of a
suspended call are; with the count of accounts and registrations in flight it shows that
a code is spent once, and, with overlap too, that the password a user has is the latest
remembered. `SerialInv`: what a call compared before its Argon2 await still holds after.

**Delivery.** `EventsInv` follows a failed handler from the failure to the dead letter
through replay; `OnceInv` counts the handlers of an event that were run. `BreakerInv`
relates the counters to the state, and `successCount` to `streak`. `PublishInv` says
that a call of `publish` is through with the registered workers before the one it
awaits, each of which has succeeded on the event or a twin of it or has a dead letter of
one; a key that is recorded was recorded by a success on one of the twins.
`OnceWorkerInv` and `OneWriteInv` say what a suspended call of `publish`, or of the
hooks, still knows; `AnnounceInv` that a task in flight holds the only use of its key;
`CountInv` that a statistics job alone holds the current count. `CarriedInv` says where
an upload has got to while no publisher fails: a recorded task is in flight, or it was
announced and what follows from it is queued or recorded in turn.

**Pseudonyms.** `IdentityInv`: what a call in flight or a comment shows is what the map
holds, and the map never changes where it is defined.

**Placement.** `PlacementInv`: the slug of a stored company finds a company of that slug,
and without overlap the only one (`SlugsFind`); a submission between its awaits either
found no company, and then without overlap none has the slug yet, or holds a stored one
(`SubmissionsOK`). With overlap, the companies of a slug and the calls about to create
one are together no more than there can be calls (`NamesakesOK`): a call that looks the
slug up later finds one. An item
has at least as many reports as were made since its last approval (`ReportsOK`), so
the third of those finds the counter at the threshold.

**Connections.** `CopyIsVersion`: the copy a call is about to write is of some version of
the intent or request, and if the row still has that version the copy is the row.
Versions only grow, so a caller who names no version newer than the copy writes over the
very row it read. Rows that were replaced by another of the same millisecond are excepted.

**Notifications.** `OneUnreadPerKey` is inductive by itself: creating and aggregating are
one step after the awaits, and reading only takes unread notices away.

**Backup.** `CleaningInv`: what a command is to delete, and what is missing, has at least
`Keep` younger ids, and younger ids only grow; hence `OnlyOutlived` for any commands at
once, failing and dying anywhere. `NightInv`: the nightly command alone cleans only after
it has made a snapshot of each database in the same run, and that one is whole and
youngest; hence `NewestRestores`. `WalInv`: what was read of a segment PostgreSQL does
not know to be archived may be partial, and then it is in `torn`; hence `LostOnlyTorn`.

**Module boot.** `BootInv`: each module on the stack of the search needs the next
(`PathDescends`), and what was ordered stands after all it needs (`OrderOK`). A module
met again on the stack closes a circle, and no order of the modules of a circle can
exist, so the search refuses only what cannot boot; and what it does not refuse it has
ordered.

**Error tracking.** `ErrorsInv`: an occurrence that the aggregate does not hold lies
before a pause longer than the window of deduplication (`OccurrencesKept`), so every
linked one is in the aggregate, and counting there counts all of the burst. No relation
between the two windows is assumed.

**Feature flags.** `FlagInv`: a call about to write has read a flag that exists, and
while calls do not overlap what it read is what is stored (`FlagCallOK`); a cached
removal is then a stored one, from which the table leads nowhere; of the contexts
that grant the flag, exactly those that bring a stage of their own get it.

**Reviews.** `ReviewsInv`: `UnscannedIsPending` needs only that jobs and submissions are
well formed (`Shape`): the duty to scan goes from the submission to the handler it
starts or to `unheard`, and from the handler, by `Retry`, to itself or to the dead
letters. Without overlap among calls: a submission is alone until it has published
ReviewCreated and its author has no review (`LoneSubmission`), a review being scanned is
approved, or held back by an earlier attempt of the same scan (`ScansOK`), a list has
every approved review (`ListsOK`), computed figures count each of them (`FiguresOK`), and
unless something was lost a statistics handler is at work or each review is current or
under its scan (`StatsOK`). Handlers of one call do overlap: the scan may decide while
the statistics of its submission are between two steps.

**Resource hub.** `VersionsInv`: the numbers of a resource are `1..k`, the number a visit
is about to store is at most the next one, and is a new one without overlap. `ReportsInv`:
a resource with enough counted reports was quarantined or is about to be (`AllHandled`),
and without overlap a visit writes back what is still stored, so the quarantine stays
until somebody decides (`AllSettled`). `ShelvesInv`: visits on their way to a collection
count against its limit, so the limit is exceeded by one for each that overlaps.

**Only model-checked**: liveness (`CountedReportsQuarantine`, `ExpiredIsReleased`,
`Recovers`, `UploadsSettle`), which the prover cannot do, though of two the safety core
is proved: when the pipeline or the marketplace comes to rest, nothing is left behind
(`NothingLeftBehind`, `ExpiredHoldsNothing`). That they come to rest is what fairness
gives and TLC checks. The type invariants of `ConfessionEvents` and `UploadPipeline`
are model-checked as well: their inductive invariants type what they need.

## 7. Where code and documents disagree

Two disagreements are precise enough to be refuted by a run.

1. `market_double_accept`. Two overlapping `acceptOffer` calls both pass the check at
   `marketplace.use-cases.ts:213` and both store a reservation: two ACTIVE ones, against
   the single active reservation rule (`docs/domain/CAMPUS_MARKETPLACE_DOMAIN.md:113`).
2. `wal_torn`. The forwarder uploads a segment that is still being copied and removes it
   (`packages/backup/src/cli.ts:182`); the chart promises that segments are removed only
   after a successful upload (`infra/helm/collegehub/templates/postgres.yaml:145`).

The rest was seen while modelling and is kept in the models; properties are stated so
that they say what holds in spite of it.

*Marketplace.*
- With overlapping calls `LegalTransitions` and `OnePendingOffer` fail too; hence they
  are proved under `Serial`. `SoldWasCompleted` holds for every interleaving of calls,
  but an expiry worker that overlaps `completeReservation` turns COMPLETED into EXPIRED
  after the sale.
- A job that fails after saving EXPIRED does nothing when retried
  (`reservation-expiry.worker.ts:26`), and the listing stays RESERVED
  (`docs/architecture/CAMPUS_MARKETPLACE_ARCHITECTURE.md:170` promises five retries).
- `publishListing` accepts a RESERVED listing and `RESTORE` a quarantined one that was
  reserved; both are PUBLISHED with `currentReservationId` set and refuse every offer.
- `completeReservation` checks neither status nor `expiresAt`. With the expiry worker and
  no overlap: a reservation expires, the listing is reserved for another buyer, and the
  expired reservation is completed all the same. The listing is SOLD by it while the
  other reservation stays ACTIVE, or is marked COMPLETED later without a sale
  (`SoldOnce`). So the composition does not implement `Sale`, and `RefinesSale` is claimed
  of the use cases alone.
- Upload jobs record their key before they publish, so a failed publication is never
  made up for; an infected upload that was scanned already is answered CLEAN
  (`virus-scan.worker.ts:27`); a statistics job tried again counts a view twice, two at
  once lose one.

*Confessions.*
- A status written an await after the post was found brings a DELETED post back
  (`in-memory-confession.repository.ts:69`), which `domain/invariants.ts:52` forbids.
- An author who comments on his own anonymous post gets a second name
  (`confession.use-cases.ts:67`, `docs/domain/CAMPUS_CONFESSIONS_DOMAIN.md:66`).
- A confession is PENDING_APPROVAL until three reports make a case for it: no use case
  publishes it otherwise. HIDE and ESCALATE close its case. One student can make all
  three reports.
- Overlapping publications of one event run a worker twice; dead letters are never
  removed. Two events of one millisecond share an id (`confession.use-cases.ts:88`,
  `:144`): a worker on both routes takes the later one for a duplicate, and if it fails
  on both, the failure of the later is recorded on the dead letter of the earlier
  (`dlq-manager.ts:117`), so the later is nowhere. Workers without a handler are passed
  over without a dead letter (`event-router.ts:97`), and only tests register any.
  Idempotency keys are not tied to user or route, overlapping requests with one key both
  write, and error responses are cached and replayed with status 200.

*Connect.*
- A duplicate dispatch while the first is in flight runs the handlers twice; replay runs
  those again that had succeeded. Results of calls started while CLOSED count as probes
  in HALF_OPEN.
- Intents, requests and connections are named by the millisecond and replace each other
  (`intent.controller.ts:20`; `NoDecisionLost` excepts them); any status may follow any.
- A caller may name a version the row does not have yet (`intent.validators.ts:16`,
  `:21`), which is compared at the write only: the call overwrites the very decision that
  brings that version. `NoDecisionLost` excepts such callers.
- With overlapping calls `OneActiveChat` and `NoLateMessage` fail: a student is paired
  while a chat of his is being looked for.

*Rate my professor.* A scan overrides the deletion or decision made meanwhile
(`moderation-queue.worker.ts:66`); overlapping recalculations may announce the older
list last (`stats-engine.worker.ts:23`). The repository of statistics the API wires keeps
nothing and answers constants (`rate-my-professor/src/index.ts:197`), and nothing
consumes StatisticsUpdated: what the models say of statistics is said of the worker's
announcements, and no page shows them. A review whose ReviewCreated a bus refuses stays
approved and is never scanned (`review.use-cases.ts:81`); the in-memory bus the API wires
refuses none. A review held back after it was counted stays counted, as
`ReviewHidden` is never published (`docs/domain/RATE_MY_PROFESSOR_DOMAIN.md:139`); an
edited review is not scanned again; two submissions at once make two reviews; one vote
per user and five reports (lines 78 and 83 there) are not implemented.

*Academic resource hub* (`academic-resource.use-cases.ts`). Overlapping `createVersion`
calls give one number twice (line 273), overlapping uploads store one file twice (72),
overlapping additions share a position and exceed 50 (442); stale saves lift a
quarantine and lose reports (545), the initial statistics overwrite reports (139).
Without any overlap: publishing lifts QUARANTINED and REJECTED (176), `publishVersion`
and replace take the version of another resource (313, 234), removing from a collection
removes nothing (455), one user can make all three reports, and a failure between
`saveFile` and `save` blocks the file for good.

*Feature flags.* The optimistic save accepts the stored version as well as the next one
(`in-memory-feature.repository.ts:41`), so one of two concurrent writes may be lost;
`updateState` writes an aged copy, may lower the version and revive REMOVED; archive
and restore check PRODUCTION and move every environment; a rollout of 0 % falls to the
default (`rollout.policy.ts:16`); client versions are compared as strings; kill switches
never reach evaluation (`cache-rebuilder.ts:15`, against
`docs/research/PLATFORM_FEATURE_FLAGS_DOMAIN.md:155`); the context of a caller is spread
over the cached record (`feature-evaluation.service.ts:66`, passed on by
`evaluation.controller.ts:21`), so one that brings a `lifecycleStage` turns a removed
flag on; crossing loads leave the older records cached.

*Identity kernel.* Overlapping registrations may share a name or address; a login whose
password was being verified while others failed clears the lock they set; two
overlapping password changes may remember one password twice.

*Backup.* Failed attempts count among the kept ids: after `Keep` failed attempts made by
hand a clean-up deletes every snapshot that restores (`NewestRestores` speaks of the
nightly command alone). WAL retention by age never deletes, as lists carry no dates
(`retention.ts:13`, `docs/ms-57-backup-and-disaster-recovery.md:69`). The nightly
command makes no base snapshots; `verify` never compares a mirror with its manifest.

*Error tracking.* An incident that is refreshed takes the count of the aggregate, which
may be new and lower; an escalated severity lets an earlier rule fire and a second
incident open; any status may follow any. The window of deduplication may be configured
shorter than the rules' (`env.schema.ts:44`: from one second, against 300): a pause
longer than it then restarts the count although the rule still has the earlier errors in
its window.

*Placement.* Crossing submissions create as many companies of one slug as there are; the
statistics asked for by the slug are then those of one of them only. Approving an experience
keeps its counter, so its next report flags it again. Company statistics are cached for
good: a new experience does not show in them.

*Notifications.* A muted event is still created by the fallback for a recipient without
notices; quiet hours are never evaluated; every aggregation enqueues a delivery again;
an occurrence added between find and mark is marked read unseen.

*Core.* Dependents of a FAILED module are initialised; `unsubscribe` of the event bus
looks for the handler it wrapped and removes nothing (`event-bus.ts:33`).

## 8. What is not modelled

Each component's `note` in `PROJECT.json` gives the reason.

- *Rows without a protocol*: conversations, messages and bookmarks of the marketplace;
  votes, bookmarks and reply trees of confessions; votes and faculty responses of
  reviews; titles, bookmarks and votes of the hub; kill switches, groups, snapshots and
  scheduled rollouts of flags, which evaluation never reads; profiles, groups and
  mentorships of connect; discussions and roadmaps of placement; digests of
  notifications. Each is written by one call and read for display.
- *Persistence in PostgreSQL*: the Drizzle repositories, schemas and migrations. The API
  builds the in-memory repositories; the models translate those, and calls interleave as
  they would over a database. What a transaction or a unique index of the schema would
  refuse is therefore not refused in the models.
- *Controllers, DTOs and validation, authentication, HTTP*: calls arrive with inputs that
  pass them. Repositories of use cases do not fail (those of workers, publishers,
  handlers and object stores do), and the API process does not crash: its state is in
  memory, so nothing is left to recover. Backup commands and pods do die.
- *Workers nothing subscribes* that only log, and those of the hub.
- *Small feature flag engine, providers, mail, database, configuration, logging,
  observability, types, theme, server wiring, web front end, deployment files and
  scripts*: a lookup in constants, input and output, or user interface.

About a third of the implementation's lines are the web front end and most of the rest
are controllers, schemas, data transfer objects, repositories in two variants and
queries; the models cover the stateful core, which is a small share of the lines.
