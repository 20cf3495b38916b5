# Verification of the microservice design pattern repository

TLA+ models of the parts of this repository that have state, concurrency and failure:
the RabbitMQ library (`libs/rabbitmq`), the account service (`apps/auth-service`) and the
shared data access (`libs/shared`). TLC checks the models on small instances and TLAPS proves
theorems about them for every value of their constants. Paths below are relative to `src/`.

## 1. Inventory

| Part | State | Operations | Interacts with |
|---|---|---|---|
| RabbitMQService, consuming (`libs/rabbitmq/src/rabbitmq.service.ts` 262-324) | queue at the broker, unacknowledged deliveries, callbacks in flight, `this.channel` | `consume` and its callback: parse, handle, ack, republish to `retry_exchange`, nack | broker; handlers of BaseWorker, BaseConsumer, UserConsumer |
| RabbitMQService, publishing (145-257, 372-401) | two ways out (Nest client, direct channel); `initialized` | `publish`, `publishWithDelay`, `sendToQueue`, `scheduleTask`, `enqueueJob`, `emit`, `send` | topology; BaseProducer, UserProducer |
| RabbitMQService, lifecycle (27-139, 326-367) | `connection`, `channel`, `initialized`, `consumers` | `onModuleInit`, `setupDirectConnection`, `setupTopology`, `onApplicationShutdown`, `handleConnectionFailure` (no caller) | broker, Nest |
| Topology (`apps/auth-service/src/auth-service.module.ts` 67-142) | exchanges, queues, bindings | declared once at start-up | routing of everything published |
| RetryService (`libs/rabbitmq/src/rabbitmq.retry-service.ts`) | attempt counter; `retryCount` in the message body | `executeWithRetry`, `scheduleRetry` (no caller) | RabbitMQService |
| Accounts (`apps/auth-service/src/services`, `controllers`, `repositories`) | `users` table with unique e-mail; requests in flight; events on their way out | `register`, `login`, `update`, `delete`, `findById`, `findAll`, `validateToken`, `refreshToken` | Postgres through PostgresBaseRepository; UserProducer |
| Jobs (`base.worker.ts`, `user.consumer.ts`, `user-db-cleanup.worker.ts`, `user.cron.ts`) | jobs in `background_jobs_queue` | schedule, dispatch by type, ignore, process | RabbitMQService |
| Message-pattern handlers (`user.consumer.ts` 27-109) | deliveries of `auth_queue` | `handleUserFailedNotification`, `handleUserUpdated`, `shouldRequeueMessage` | UserService, Nest's RMQ server |
| LocalCacheService (`libs/shared/src/cache`) | map of values with expiry times | `set`, `get`, `delete` | the clock |
| Pagination (`libs/shared/src/abstracts/postgres.base.repository.ts` 84-125) | none | `withPagination`: find, then count | the table as it changes |
| Stubs, gRPC clients, logging, DTOs, Redis cache | none that decides anything, or commented out | | |

What is hard here, and the property each part owes:

- **Consuming**: callbacks of one consumer run concurrently, the process may die and the broker may
  close the connection between any two of their steps, and a retry is a new message published before
  the old one is acknowledged. Correct means: nothing is lost that no handler failed on; retries lose
  nothing when they have a route back and multiply nothing while nothing fails around them; no
  acknowledgement goes to a channel that does not hold the delivery; every message leaves the queue.
- **Accounts**: every request awaits the database several times. Correct means: one account per
  address whatever registrations race; a deleted user stays deleted whatever updates race; what the
  events say agrees with the table.
- **Publishing, jobs**: a message goes where a binding sends it and a job reaches the worker of its
  type. **Lifecycle**: the direct connection is released or reopened. **Retry**: the number of attempts.
  **Message patterns**: a requeue loses nothing and repeats an update only when the run that asked for it
  had already written; the caller of `send` who is told ok had the update applied, and an error answer is
  wrong only for such a run, a requeue, a crash or a closed channel. **Pagination**: a walk misses nobody
  who was there throughout.

`PROJECT.json` lists the hazards of the code, each at its line, with the property that covers it or
the reason none does.

## 2. Modules

| Module | What it is |
|---|---|
| `AuthTopology` | The exchanges, queues and bindings of auth-service and the routing they imply |
| `Delivery` | `RabbitMQService.consume`: one queue, one process, any number of concurrent callbacks |
| `AtLeastOnce` | What a consumed queue promises, without copies, acknowledgements or processes |
| `DeliveryProofs` | The TLAPS proofs about `Delivery` |
| `MCDelivery` | `Delivery` with the parameters `AuthTopology` gives it, for TLC |
| `Jobs` | Publishing calls, routing, and the consumers that compete for jobs, in a process that starts and stops |
| `JobsProofs` | The TLAPS proofs about `Jobs` |
| `MCJobs` | `Jobs` over the topology of auth-service, and over one with the missing bindings |
| `Connection` | `RabbitMQService` from start-up to shutdown: connections, topology, the consumers map, reconnections |
| `ConnectionProofs` | The TLAPS proofs about `Connection` |
| `MCConnection` | `Connection` for four configurations |
| `Retry` | `RetryService`: retries in the process and round through the broker |
| `RetryProofs` | The TLAPS proofs about `Retry` |
| `MCRetry` | `Retry` for several limits, delays and destinations |
| `BoundedRetry` | What a retry loop promises; implemented by `Connection` and by `Retry` |
| `MessagePatterns` | The Nest message handlers of `UserConsumer` and the answers to `send` |
| `MCMessagePatterns` | `MessagePatterns` for TLC |
| `MessagePatternsProofs` | The TLAPS proofs about `MessagePatterns` |
| `UserAccounts` | The account service: interleaved requests over the users table, and its events |
| `UserPages` | `UserAccounts` composed with a walk over the pages of `withPagination` |
| `MCUserAccounts` | `UserPages`, and in it `UserAccounts`, for TLC |
| `UserAccountsProofs`, `UserPagesProofs` | The TLAPS proofs about `UserAccounts` and `UserPages` |
| `SubscriberProofs` | The TLAPS proof that the events of `UserAccounts` agree with its table |

### Delivery

A logical message may exist several times, because a retry is a new publication, so `broker`,
`header` and `frame` are kept per copy `<<message, slot>>`. `broker[c]` is where the copy is at the
broker; `frame[c]` is the await at which the callback for it stands: `running` (the handler),
`acking` (the handler resolved, line 282 is next), `published` (line 299 is done, line 306 is next).
`options` are the options of the one call of `consume`. `up` and `open` are the process and
`this.channel`.

| Action | Code |
|---|---|
| `Deliver` | the broker calls the callback (272-275); no prefetch, so everything ready is delivered |
| `HandlerResolves` | 277-281; with `noAck` the callback ends here |
| `HandlerRejects` | the catch block 284-316: `PublishRetry` (294-304), `Nack` (312), `CatchBlockThrows` (a closed channel, or the second `JSON.parse` of 302), `ErrorLoggedOnly` (288 false) |
| `AckHandled`, `AckRetried` | `channel.ack` at 282 and 306; on a closed channel it throws inside an async callback nobody awaits, which ends the process |
| `Restart` | `onModuleInit`, then the consumer is registered again |
| `Publish`, `DelayExpires`, `ChannelCloses`, `Crash` | the environment |

`ChannelCloses` is a graceful shutdown of the connection by the broker, which amqplib reports as a
`close` event nobody listens for; any other loss of the connection is an unhandled `error` event and
so a `Crash`. Nothing reopens the channel: `handleConnectionFailure` has no caller. The handler is
abstract: it resolves or rejects. `publishWithDelay` writes no `retryCount`, so `RepublishedHeader`
is 0. `handled`, `rejections`, `crashes` and `closes` are history variables.

`RetryRouted` and `RetryDelayed` are the only facts about the topology the callback depends on.
`RabbitMQModule.register` takes the topology from its caller, so both values are of interest:
auth-service's (`AuthTopology`: not routed) and one that binds the queue to the retry exchange.

### AtLeastOnce

Per message a status `new`, `pending`, `handled` or `lost`, and the set of messages that failed. A
message is lost only after a failed run, and not at all unless the queue is `Lossy`. `Delivery`
implements it (`ImplementsQueue`) under the mapping `MessageStatus`: handled if a run completed,
pending while a copy is at the broker, otherwise lost; lossy unless the retry exchange routes back
and every option allows at least one retry.

### Jobs

`call[j]` is how message `j` was published: on the Nest client or on the direct channel, to which
exchange, with which key, job type and delay. The operators `Publish`, `SubmitJob`, `EnqueueJob`,
`ScheduleTask`, `EmitWithDelay` and `SendToQueue` compute that record as the methods of those names do;
`ApiCalls` are all the calls a caller can make. `at[j]` is where the message is; `frame[j]` and `by[j]`
the callback that runs for it and its consumer.

| Action | Code |
|---|---|
| `Call` | `ensureInitialized` and the publication; the client path accepts anything at any time |
| `ClientSends` | the Nest client sends to its own queue, `RABBITMQ_CLIENT_queue`, or fails silently |
| `Deliver`, `Ignore`, `WorkSucceeds`, `WorkFails`, `Ack` | the callbacks of BaseWorker and UserConsumer inside `consume`; a failure of BaseWorker's is retried, UserConsumer swallows its own |
| `Initialize`, `Register` | `onModuleInit` of RabbitMQService, then of each consumer |
| `DelayPasses`, `ChannelCloses`, `Crash`, `Restart` | the environment |

A job of another type is acknowledged by whoever was handed it. The retry and the acknowledgement
after it are one step here, because `Delivery` has the crash between them; so a message never exists
twice. `ConsumerSpec` says of each consumer of `background_jobs_queue` which jobs it acts on, whether its
failures reach `consume`, and whether its work can succeed: `UserConsumer`, which swallows its errors;
`UserCleanupWorker`, whose DELETE names the columns `last_login_at` and `status`, which the entity `User`
and so the table do not have; and a subclass of `BaseConsumer`, which acts on everything, although the
repository has none on this queue. `ScheduleUserCleanup` and `HandleInactiveUserCleanup` are the calls of
the producer and of the cron job. auth-service provides only `UserConsumer`; the worker and the cron job
exist as classes, and `Consumers` is a parameter. `Targets` are the queues that callers of `sendToQueue`
name. `QueueNames` are the declared queues, bound or not, and `UserTypes` the job types that begin with
`user.`, which `UserConsumer` acts on whether it knows them or not.

### Connection

`link[c]` is the direct connection `c` as the broker has it: `closed`, `bare` (open, its channel is not)
or `open`; `connection` and `channel` are the fields of the service and may refer to different ones.
`main`, `setup`, `reconnect` and `stop` say at which await `onModuleInit`, `setupDirectConnection`,
`handleConnectionFailure` and `onApplicationShutdown` stand. `consumers` is the map from queues to tags,
`live` the consumers as the broker has them.

| Action | Code |
|---|---|
| `ClientConnects`, `ClientFails` | `onModuleInit` up to the direct connection; a failure ends the start (40-44) |
| `Connect`, `CreateChannel`, `Declare` | `setupDirectConnection` 64-75 and the three loops of `setupTopology` 78-115; each ends in `SetupFails` if the connection is gone: `onModuleInit` rethrows, a reconnection counts the attempt |
| `Consume`, `ConsumeReturns` | the registration in `consume`, and the entry in the map after its await (318-323) |
| `ShutdownBegins`, `ShutdownCancels`, `ShutdownClosesChannel`, `ShutdownClosesConnection`, `ShutdownClosesClient` | `onApplicationShutdown`; the first call that fails skips the others |
| `ReconnectBegins`, `ReconnectClosesChannel`, `ReconnectClosesConnection`, `BackoffEnds` | `handleConnectionFailure` |
| `BrokerCloses` | a graceful close by the broker at any moment |

Nothing in the repository calls `handleConnectionFailure`; the model lets some caller call it for a service
that is ready, one call at a time, and not after a shutdown began. A shutdown may begin during a
reconnection; then both close and open the same fields, and the history variable `overlapped` excludes what
follows. No `main.ts` calls `enableShutdownHooks` or `app.close()`, so in auth-service nothing triggers
`onApplicationShutdown`; the model is of a host that does. After a call of the shutdown that fails the Nest
client stays open, although the comment says "Clean up all resources" (line 118): `ShutdownReleases` says of
that path only that no direct connection stays. A channel closes only with its connection or by a call of
the service: amqplib reports any other end of a channel as an `error` event, which has no listener and ends
the process. Reconnections do not register the consumers again, as in the code. The topology is durable, so
`declared` only grows.

### Retry

A copy `c` of a message is at the broker with the `retryCount` of its body; `loop[c]` is where the
handler for it stands: `trying` and `sleeping` inside `executeWithRetry`, `threw` before `scheduleRetry`,
`returned` and `scheduled` before the acknowledgement. Nobody calls the service, so the handler that uses
both methods and resolves afterwards is external. `Deliver` enters the loop (a negative limit throws at
once), `TaskSucceeds`, `TaskFails`, `Wakes` are its body, `Schedule` is `scheduleRetry`, `Ack`,
`DelayExpires`, `Publish` and `Crash` the environment. `Timer` is what `setTimeout` makes of a delay
beyond `MaxTimer`: 1. `Destination` is the exchange and the key of the retry, each the option or what the
message came with; whether it leads back (`LeadsBack`) depends on both, whether it waits at the broker
(`RetryAt`) on the exchange. The length of that wait, which `scheduleRetry` computes from the count, is
left out: `DelayExpires` may come at any time.

### BoundedRetry

A round of a retry loop tries at most `limit` times, ends with the first success, and gives up only after
the last failure. `Connection` implements it with the limit `MaxAttempts`, and every copy of `Retry` with
the limit `maxRetries + 1`.

### MessagePatterns

`broker[m]` is where a message is, `run[r]` a handler run: its message, whether the channel of its
delivery is still open (`fresh`), and how far it is. `updateById` is two statements, an UPDATE and a
`findById`, and so is the run: `UpdateWrite` commits the UPDATE, after which the run is `written`.
`UpdateSucceeds` is the rest of `handleUserUpdated` with its acknowledgement. `UpdateFails` is its catch
block with the rejection that `ShouldRequeueMessage` chooses, reached before the UPDATE or after it: the
row cannot be read back, is missing (`user.id` throws), or the event cannot be emitted. Nothing takes the
UPDATE back; `half` and `late` remember such failures.
`HandleUserFailedNotification` only acknowledges. `Reply` is the server's answer to `send`, whose
`firstValueFrom` takes the first. auth-service provides `UserConsumer` but does not list it as a
controller, so Nest registers no handler there; the server that does is external, with its option `noAck`
as a parameter. Under `noAck` the broker does not know the delivery a handler acknowledges and closes the
channel. The server's connection manager opens a new one at once in the model.

### UserAccounts

`call[r]` says at which await request `r` stands. Each action is one database statement, or the code
between two awaits, and the requests interleave. `RegisterFind`, `RegisterInsert`, `RegisterReply`
are the three stretches of `AuthService.register`; `UpdateWrite`, `UpdateRead`, `UpdateReply` those
of `UserService.update` through `updateById`; login, delete and the three lookups (`findById`,
`validateToken`, `refreshToken`) likewise. A statement may also fail, with or without effect:
`RegisterFind`, `LoginFind`, `UpdateWrite` and `Delete` have that outcome themselves, `DatabaseFails` is
it for the other awaits, among them the `findById` after a committed UPDATE, which ends the request
without an event and makes the user `disturbed`. A unique violation is an error answer that is not a
`ConflictException`. `emit` puts the event into `outbox`, the RabbitMQ client's memory: `Dispatch`
delivers it, `EmitFails` loses it because nobody subscribes to the Observable, `Crash` loses all of
them. `view` is a table that some subscriber keeps by applying the events in order; it is how the
model says what the events are worth. Clients use only identifiers some answer told them (`known`).
Passwords, roles and timestamps are abstracted; a token is the id it was signed for, and `verify`
may refuse it.

### UserPages

`walk` is a caller of `withPagination` that asks for a page, and for the next as long as `hasNextPage`
says so. `PageFind` is the `find` with `skip` and `take` over `createdAt DESC`, `PageCount` the `count`
and the arithmetic after it; every step of `UserAccounts` may come between the two, or between two pages
(`AccountStep`). Rows are stamped in the order of their insertion and no two alike: equal timestamps would
leave the order, and so the pages, to the database. A crash ends the call, and the caller asks for the
page again. `UserService.findAll` is no such caller: it returns an object without any of the fields.

## 3. Runs

| Run | Shows | Bounds and why they are enough |
|---|---|---|
| `delivery_shipped` | `NoSilentLoss`, `NoStaleAck`, `ImplementsQueue` on auth-service's topology under the default options, `noAck` and a negative `maxRetries` | two messages, one of them not JSON (its crash hits the other in any state); two crashes and one closed connection, so that a second failure meets the recovery from the first |
| `delivery_routed` | `TypeOK`, `RetriedUntilHandled`, `ExactlyOnceUndisturbed`, `ImplementsQueue` with a route back | three copies of a message: the original, its retry, and the retry of a copy redelivered after a crash. When all are in use a further retry waits |
| `delivery_live` | `EveryMessageSettles` | two crashes, no closed connection, every body is JSON |
| `delivery_retry_bound` | the retry limit of line 294 is never reached (finding) | one message, two copies, `maxRetries` 1, on a topology whose retry exchange leads back |
| `delivery_requeue` | the retry copy of a `user.created` message whose handler rejects is dropped (finding); the handler auth-service registers there swallows its errors | one message |
| `delivery_no_ack` | `noAck` leaves deliveries unacknowledged (finding) | one message |
| `jobs_wired` | `TypeOK`, `NoSilentJobLoss`, `NeverEarly` for all calls, the three consumers, and a topology whose delayed and retry exchanges lead back to the job queue | two messages (consumers and messages interact through single queues, one message is enough to be handed to any consumer), one crash, one closed connection, a key that is not standard and leads nowhere |
| `jobs_parked` | a job submitted without a delay never reaches the job queue (finding) | one message |
| `connection` | `TypeOK`, `OneDirectConnection`, `ReadyMeansDeclared`, `ShutdownReleases`, `ConsumersCancelledFirst`, `ReconnectReturns`, `ReconnectIsBounded` | two queues and three tags, so that a second consumer of a queue replaces the first; three connections, since either field may hold on to an old one; two attempts for the ten of the code (a first, and a last); four configurations, the one of auth-service with its queue that has arguments |
| `retry` | `TypeOK`, `CountTellsFailures`, `RoundTripLosesNothing`, `ExecuteIsBounded`, `BackoffGrows`, `KeepsTrying` | one message in up to four copies: a delivery, its retry, and the retry of a delivery that a crash repeated; limits -1, 0, 1, and 4 with a delay above `MaxTimer`; retries routed back directly, after a delay, or nowhere, for want of a bound exchange or of a bound key |
| `message_patterns` | `TypeOK`, `OnlyPermanentLoses`, `RepeatsHaveACause`, `AnswersAreHonest`, `AnsweredUnlessCut` | a request and a notification (an event is a request whose answer nobody reads); two runs, of two messages or of one, the older on a channel that has closed; two crashes, two closed channels; updates and late failures counted to three; `noAck` both ways |
| `user_accounts` | `TypeOK`, `UniqueEmail`, `DeletedForGood`, `SubscriberAgrees`, `WalkMissesNobody`, `NextPageIsThere` | three requests, three users, three addresses, one crash, one lost event, and one walk with page sizes 2 and 0 (raised to 1), so that it has up to three pages |

`RejectionCap`, `MaxCrashes`, `MaxCloses` and `MaxLost` bound counters. `rejections` saturates at
`RejectionCap` and `crashes` above `MaxCrashes`, so that a message that kills every process stays in
the model. `CountCap`, `FailureCap` and `AppliedCap` saturate in the same way. Copies (in `Delivery`) and
requests, identifiers and addresses (in `UserAccounts`) are interchangeable in every action and property,
so those runs use symmetry; the runs with a liveness property do not.
Deadlock is not checked: a process with a closed channel stops for good, and a service whose requests
are all answered rests.

Fairness in `FairSpec`: the broker pushes what is ready and its timers expire; the event loop resumes
every callback; every handler settles one way or the other, but nothing says which; an operator
restarts a process that exited. Crashes and closed connections carry no fairness. In `Connection` every
await on the broker is answered or fails with its connection, and the backoff timer fires, so set-up,
shutdown and reconnection go on; `ReconnectReturns` then follows for any number of closed connections. In
`Retry` the task settles, timers fire and the broker delivers, and a task may fail for ever.
`MessagePatterns` needs strong fairness for the delivery of each message: the number of runs is bounded in
the model only, and a message that is ready again and again must not be passed over for ever.

Findings: the comments of `consume` promise a bounded retry that ends in dead-lettering, a requeued
retry and automatic acknowledgement, those of `submitJob` and `enqueueJob` that a job is processed; the
four runs expected to fail show executions without them.

## 4. Proofs

Every safety invariant, action property and refinement that a run checks is also proved, for all values
of the constants that satisfy the assumptions named below. Each theorem is proved from an inductive
invariant that contains the property; what the invariant adds is the reason why the code is right.

### Delivery

`DeliveryProofs` proves, for every set of messages, copies and options and every bound:

| Theorem | Statement |
|---|---|
| `TypeCorrect` | `Spec => []TypeOK` |
| `PlacementCorrect` | callbacks run only in a live process, on deliveries the broker has not settled |
| `NoStaleAckCorrect` | `Spec => []NoStaleAck` |
| `NoSilentLossCorrect` | `Spec => []NoSilentLoss` |
| `RetriedUntilHandledCorrect` | `Spec => []RetriedUntilHandled` |
| `ExactlyOnceCorrect` | `Spec => []ExactlyOnceUndisturbed` |
| `QueueImplemented` | `Spec => ImplementsQueue`: the refinement, initial state and every step |

The only assumption is `DeliveryAssumption` on the constants. None of the invariants is inductive
alone. `Placement` says where callbacks and copies can be; with it `NoStaleAck` follows at once.
`NoSilentLoss` needs `AckIsEarned`: whoever is about to acknowledge has a completed run or a published
retry behind it, so removing its copy removes nothing unaccounted for. `RetriedUntilHandled` also
needs `HeadersZero`, that no copy carries a retry count: this is why the exhausted branch, which would
drop the message, is never taken. With a carried header the same theorem is false (nothing dead-letters
the consumed queues), which the mutant `CarriedHeader` shows. `ExactlyOnceUndisturbed` is strengthened to
`OneOwedCopy`: after a completed run the one copy left is unacknowledged and not running, so it is
never delivered again. The refinement combines all of them; the step that can lose a message is
`Nack` or `AckRetried`, and `RetriedUntilHandled` excludes it when the queue is not lossy.

### UserAccounts

`UserAccountsProofs` and `SubscriberProofs` prove, for every set of requests, identifiers, addresses and names:

| Theorem | Statement |
|---|---|
| `TypeCorrect` | `Spec => []TypeOK` |
| `UniqueEmailCorrect` | `Spec => []UniqueEmail` |
| `DeletedForGoodCorrect` | `Spec => []DeletedForGood` |
| `SubscriberAgreesCorrect` | `Spec => []SubscriberAgrees` |

The assumptions are `UserAccountsAssumption` and, for the last, `NoneAssumption`: a missing row is no row.
`TypeOK` alone is not inductive: the created event and the inserted row need `CallsWellFormed` and
`EventsWellFormed` (a registration carries a whole row, a request past its first statement names a generated
id) and `RowsUsed`; together they are `TypeInv`. `UniqueEmail` is inductive next to `TypeInv`, because the
index decides in the statement that writes. For `DeletedForGood` the invariant is `LateIsDead`: the user of
a late request has a used id and no row, and the request is not past the read that notices. It rests on the
lemma `StaysDead`: ids are never reused and an UPDATE of a missing row affects nothing.

`SubscriberAgrees` speaks of the moment when the outbox has nothing more about a user; its invariant
`Agreement` says of every moment what is still missing. It needs no fold over the outbox, because an event
overwrites the fields it carries: a field in the table is what the one request that is writing the user
sets (`OneWriter`), or what the last event in the outbox that sets it says, or what the subscriber has
already (`FieldAgrees`, `LastWord`). A subscriber ignores updates of strangers, so `Announced` adds that
the creation of a user comes before every other event about it. `AppendWord` and `TailWord` say what
emitting and applying an event do to the last word. That `emit` comes after the write is what the step of
`UpdateReply` rests on. `disturbed` is in the property because the code offers nothing there: two requests
which write one user at a time may announce in the wrong order, and a crash, or a statement that fails after
the committed one, leaves a change without its event.

### UserPages

`UserPagesProofs` proves, for every set of requests, users and addresses and every page size:

| Theorem | Statement |
|---|---|
| `WalkMissesNobodyCorrect` | `PagesSpec => []WalkMissesNobody` |
| `NextPageIsThereCorrect` | `PagesSpec => []NextPageIsThere` |

The assumptions are `UserAccountsAssumption` and `UserPagesAssumption` (a walk starts at the first page or
with an argument that is raised to it). Every step of `UserPages` is one of `UserAccounts` or leaves its
state alone, so `TypeInv` carries over; `PagesTypeInv` adds that finitely many ids are in use, without which
places in the order mean nothing. The invariant is `NothingBehind`: every user that was there when the walk
began is on a page already read or placed after all rows of those pages. Registrations only move places
back (`PlaceGrows`), a page takes exactly the users between two offsets, the next page begins where this
one ends (`OffsetNext`), and the pages up to the last one hold all rows (`TotalPagesHold`, the arithmetic
of `Math.ceil`).

`NextPageIsThere` needs `RowsAhead`, that the table has more rows than the pages before the one asked for,
and that this makes the page itself non-empty: the users take all the places from 1 to their number
(`PlacesAreTaken`, which rests on `Stamped`, no two rows with one timestamp), so some user is on the place
after the offset (`PageHolds`).

### MessagePatterns

`MessagePatternsProofs` proves, for every set of messages and runs, every `noAck` and every bound:

| Theorem | Statement |
|---|---|
| `TypeCorrect` | `Spec => []TypeOK` |
| `OnlyPermanentLosesCorrect` | `Spec => []OnlyPermanentLoses` |
| `RepeatsHaveACauseCorrect` | `Spec => []RepeatsHaveACause` |
| `AnswersAreHonestCorrect` | `Spec => []AnswersAreHonest` |

The assumption is `MessagePatternsAssumption`. The lemma `SettleEffect` says once what `Settle` may do to a
run and a message, and `BlameEffect` what a failure leaves behind; `OnlyPermanentLoses` is then inductive
together with `OkIsApplied`. `RepeatsHaveACause` is not inductive: it needs `Quiet`, that while no channel
has closed and no process crashed each message has one run in progress at most, which holds its delivery
(`OneRunning`), and `Accounted`, that a message which is going to be applied has been applied no more often
than its runs have failed late. The second half of `AnswersAreHonest` follows from `FailedIsGone` in the
same invariant: a request that failed without ever being requeued has left the queue, and was applied only
if it failed after its UPDATE.

### Jobs

`JobsProofs` proves, for every topology, every set of consumers, keys and job types, and every bound:

| Theorem | Statement |
|---|---|
| `TypeCorrect` | `Spec => []TypeOK` |
| `NoSilentJobLossCorrect` | `Spec => []NoSilentJobLoss` |
| `NeverEarlyCorrect` | `Spec => []NeverEarly` |

The assumptions are `JobsAssumption`, that the topology declares the exchanges which the library names and
that the consumers and targets are declared ones, and `NoCallAssumption`, that a message nobody published
carries no call. `TypeInv` adds `Called`: what is anywhere was published by some call. For
`NoSilentJobLoss` the invariant says of the moment before the acknowledgement what the property says of the
one after it (`AckIsEarned`), and that the callback belongs to a consumer (`Owned`), on whose
`ConsumerSpec` the excuse `Swallowed` depends. While the call of a job is not replaced its reasons stay
(`ReasonsStay`); a retry replaces it, and with it the queue its last publication was bound to.
`NeverEarly` is strengthened to `HeldBack`: the delay has passed not only when the job runs but already
when it is ready or unacknowledged, since a crash makes it ready again.

### Connection

`ConnectionProofs` proves, for every set of configurations, queues, connections and tags and every number
of attempts:

| Theorem | Statement |
|---|---|
| `TypeCorrect` | `Spec => []TypeOK` |
| `ReadyMeansDeclaredCorrect` | `Spec => []ReadyMeansDeclared` |
| `OneDirectConnectionCorrect` | `Spec => []OneDirectConnection` |
| `ShutdownReleasesCorrect` | `Spec => []ShutdownReleases` |
| `ConsumersCancelledFirstCorrect` | `Spec => ConsumersCancelledFirst` |
| `ReconnectIsBoundedCorrect` | `Spec => ReconnectIsBounded`: the refinement of `BoundedRetry` |

The assumption is `ConnectionAssumption`. `Phases` says which of the four routines can be under way
together: a set-up runs in the start or in a reconnection, and a reconnection or a shutdown begins only
when the service is ready. `ReadyMeansDeclared` needs `Declared`, that the three loops run in their order and
that a service which is initialised without the topology has no channel to get. `OneDirectConnection` is not
inductive, because the fields change before and after the connections do: `LinkInv` adds that no connection
is open where `amqp.connect` runs, and that a connection without a channel is about to get one or to be
closed. `ShutdownReleases` follows from the same invariant. `ConsumersCancelledFirst` needs `Cancelled`:
what the map holds for a queue the loop has visited is gone, so at the end of the loop it holds nothing
alive. For the refinement each action is one step of the loop (`Begins`, `Fails`, `Succeeds`) or leaves
`Round` and `attempt` alone (`Stays`).

### Retry

`RetryProofs` proves, for every set of messages, exchanges and options and every number of crashes:

| Theorem | Statement |
|---|---|
| `TypeCorrect` | `Spec => []TypeOK` |
| `ExecuteIsBoundedCorrect` | `Spec => ExecuteIsBounded`: the refinement of `BoundedRetry` by every copy |
| `BackoffGrowsCorrect` | `Spec => BackoffGrows` |
| `RoundTripLosesNothingCorrect` | `Spec => []RoundTripLosesNothing` |
| `CountTellsFailuresCorrect` | `Spec => []CountTellsFailures` |

The assumptions are `RetryAssumption`, which also gives the finite number of slots that the copies of a
message need, `NoneAssumption` (no copy is not a copy) and `PowerAssumption`: the prover does not know
exponentiation, so the two equations that define it are stated for the exponents the loop uses; TLC
evaluates them on the instance it checks. `Calls` says what a call has done by how far it is (`Call`) and
which delay it waited for last (`Wait`), from which `BackoffGrows` follows for a factor of at least one.
`FreeSlotIsFree` counts: `Schedule` is bounded to fewer copies of a message than there are slots, so the
slot it writes is free. `RoundTripLosesNothing` is not inductive, since two copies that are both about to be
acknowledged could each be the other's excuse; `KeptAlive` asks for a copy whose call can still come to
something. `CountTellsFailures` needs `OneAtATime`: without a crash one copy at most is not about to be
acknowledged for its retry, so that no other call fails for the message meanwhile.

### Only model-checked

`EveryMessageSettles`, `ReconnectReturns`, `KeepsTrying` and `AnsweredUnlessCut`: liveness under fairness is
beyond the prover. The four runs that are expected to fail show single executions.

## 5. Plan

Done: every module of section 2, a run for each question of section 1, and a theorem for every safety
property, action property and refinement of the runs. What would come next, beside changes of the code:

1. The steps behind the liveness properties that are safety: that a message which is not settled always
   has an action that can take it on.
2. The relation between the models that share code: what `Jobs` and `Retry` assume of `consume` is what
   `DeliveryProofs` proves of it, and `MessagePatterns` abstracts `update` of `UserAccounts`.

## 6. Not modelled, and why

gRPC client factories and declarations, logging, errors, DTO validation and configuration hold no state.
The gateway, order, notification and admin services are generated stubs; notification-service cannot
start, since it registers the client under another token than `RabbitMQService` injects, so its topology
never meets that of auth-service. `MongoBaseRepository` and
`apps/auth-service/src/auth-service.service.ts` are used by nothing. `LocalCacheService` is a synchronous
map that `CacheModule` provides and nothing injects: it has no interleaving, and no caller says what it
must promise. `UserService.findAll` maps a whole page through `mapToUserResponse`, which finds none of its
fields; the pages are modelled where they are computed. The Redis cache, `background-job.worker.ts` and the
producers under `libs/rabbitmq/src/producers` are commented out. Publications to exchanges that were never
declared are left out: they end in the crash that `Delivery` and `Jobs` model. Memory limits, message sizes
and the broker's own durability are outside the models: the queues are durable, and retries are published
as persistent.
