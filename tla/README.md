# Verification of logistics-user-service

TLA+ models of the user service, the TLC runs that check them on small
instances, and TLAPS proofs of their properties for instances of every
size. Paths are relative to the repository: `src/...` is its `src/` directory,
"README" its own README.

## 1. Inventory

The service is one Node process (`server.ts`) with one AMQP channel and one
Prisma client on a Postgres database nobody else writes. Node runs a handler
until its next `await`; between two awaits any other handler may run. Nothing
but the two event handlers uses a transaction.

| Component | State it keeps | Operations | What is hard, and what makes it correct |
|---|---|---|---|
| Driver profile entity (`domain/driver`) | attributes, `isAvailable`, `profileComplete` | `createIncomplete`, `updateAttributes`, `setAvailable` | an available driver is complete |
| Driver availability (`set-availability`, `update-driver-profile`, driver repository, publisher) | `driver_profiles`, what subscribers last heard | PUT `/me/availability`, PATCH `/me/driver` | whole-row saves from stale reads; commit and publish are two calls; the last event should agree with the row |
| Event handlers (`application/events`, unit of work) | all three profile tables, `processed_events` | `user.registered`, `user.role_changed` | overlapping transactions, redelivery after commit, races with HTTP writes, events out of order |
| Address book and customer profile (`application/addresses`, `update-my-profile`, repositories) | `customer_profiles`, `addresses` | POST, PATCH, DELETE address; PUT default address; PATCH `/me`; insert by a handler | check-then-act without a transaction; upserts that insert again; two foreign keys; ids compared as strings |
| User-events consumer (`user-events-consumer.ts`, `recordIfNew`) | unacknowledged deliveries, the queue, the dead-letter queue | deliver, dispatch, ack, nack | at-most-once effects, no ack without effects, poison messages, crash between commit and ack |
| Read-only use-cases | none | GET `/me`, list addresses, internal lookups | unsynchronised reads of two tables; the view read after a PATCH |
| Authentication, role guards, routes (`app.ts`, `routes.ts`, verifiers) | none | two JWT verifiers, guards, mount order | internal router before the public one; a call falls through a router |
| Validation and error mapping (`schemas.ts`, value objects, mappers, `errors.ts`) | none | Zod schemas, value objects, columns, RFC 7807 | four places write down the same limits and disagree at some boundaries |
| Boot, shutdown, health (`server.ts`, health controller) | `shuttingDown`, `activeChannel` | boot steps, signals, probes | order of closing AMQP and HTTP, forced exit, no reconnect |
| RabbitMQ connection, configuration, logger, clock, request ids | none | boot-time only | — |

Interactions: controllers call use-cases; use-cases call repositories (one
query per call) and the publisher (one `channel.publish`); the consumer calls
the handlers, which call repositories inside `PrismaUnitOfWork.run` and the
publisher after it. The shared state between them is the database, the channel
and the queue.

## 2. Modules

| Module | Models | State ↔ code | Actions ↔ code |
|---|---|---|---|
| `DriverProfile` | `driver-profile.ts` | a record per entity | `CreateIncomplete`, `UpdateAttributes`, `MaySetAvailable`/`SetAvailable`: the constructor and mutators |
| `DriverAvailability` | every writer of `driver_profiles`, every publisher of `driver.availability.changed` | `driver` is the table, `request`/`message` hold what a suspended handler remembers, `channelOpen` the channel; `announced`, `sends`, `committed` are history | `ReadForToggle`, `ReadForPatch`: use-case up to its save; `SaveRow`, `PublishToggle`; `StartRoleChange` … `AckRoleChange`: consumer callback and handler; `CloseChannel`, `Restart`: faults |
| `AvailabilityLedger` | abstract: row and announcement change in one step | — | implemented by `DriverAvailability` |
| `AddressBook` | every writer of `addresses` and `customer_profiles` | the two tables; `request` is what a suspended use-case remembers and which query comes next; `idOwner`, `deleted` are history | `Begin…`, `ReadAddress`: first read and guards; `ReadCustomer`, `SaveAddress`, `DeleteAddress`, `SaveCustomer`, `UpsertCustomer`: the later queries |
| `OrderlyBook` | abstract: every operation of a user reads and writes both tables in one step; an id is never used twice | — | implemented by `AddressBook` for orderly users |
| `Provisioning` | both event handlers query by query, and the requests that edit and read the rows | `rows`: the two tables; `pending`: what each open transaction has written and so locked; `processed`; `request` with what its view has read; `commits`, `steady` and `faults` are history | `Start` … `Ack`, `Abort`: a message; `Begin`, `Save`, `ReadMine`, `Gather`: PATCH and GET `/me`, PATCH `/me/driver`, the internal driver lookup; `Crash` |
| `ProfileRegistry` | abstract: the role changes of a user applied once each, in order, in one step | — | implemented by `Provisioning` |
| `UserEventsConsumer` | the consumer, `recordIfNew`, the transaction | `msg` is where each message is; `processed` the dedup table; `effects`, `failures` are history | `Deliver`, `Dispatch`, `RecordIfNew`, `Commit`, `Ack`, `HandlerFails`, `DieOnNull`, `Crash` |
| `EventInbox` | abstract: at-most-once effects, ack only after them | — | implemented by `UserEventsConsumer`, and query by query by `Provisioning` |
| `RequestValidation` | zod schemas, value objects and asserts, columns, mappers | operators only: a text is its length, trimmed length and two flags | `Admitted` (schema), `Accepted` (entity), `Stored`, `ColumnHolds` (column), `Reloads` (mapper) |
| `HttpAccess` | `app.ts`, `routes.ts`, verifiers, guards, controllers, `errors.ts` | `call` and the `stage` it has reached, its `body`, the `status` answered; `fault` is history | `ParseJson`, `MatchRouter`, `PassInternal`, `PassPublic`, `Handle`: one per layer |
| `ServiceLifecycle` | `server.ts`, `health-controller.ts`, `connect()`, `stop()` | `stage` is the await `main()` is at, `channel` the real channel, `activeChannel` and `shuttingDown` the variables of those names, `shutdown` the progress of each signal's `shutdown()` | `ConnectDb` … `Listen`: boot; `StartProbe`, `AnswerProbe`: readiness; `Signal`, `ConsumerStopped`, `AmqpClosed`, `ServerClosed`, `ForcedExit`: shutdown |
| `MC…` | constants and symmetry of the runs | | |
| `…_proofs` | theorems | | |

One table or handler may appear in several modules, each with the part its
properties need: `driver_profiles` with availability in `DriverAvailability` and as
*absent, new or edited* in `Provisioning`; `customer_profiles` with the default address in
`AddressBook`; a delivery with prefetch, retries and the dead-letter queue in
`UserEventsConsumer`, with its queries in `Provisioning`. To the table modules a shutdown
looks like a crash or a closed channel.

Abstractions. Timestamps, names, streets and plates are opaque, except in
`RequestValidation`. A use-case's read and the synchronous code after it up to the
next query is one action. In `DriverAvailability` a transaction's last write and its commit are
one action: before the commit nobody sees the write, and a conflicting writer
waits for it; `Provisioning` takes them apart and has the row locks. `user.registered`
of a driver does to `driver_profiles` what a change to driver does and is one of
the messages of `DriverAvailability`. The signature of a token is a field that says which key made it.

Some modules define, right before a helper, a faulty variant of it labelled
"mutant". No specification uses them: each was substituted for its
neighbour to see that a property notices the mistake.

## 3. Runs

Every run takes between a second and a few minutes. The service does not prevent two
operations of one user from being in flight together. Where a property needs that
they are not, the runs have both sorts of users at once: `Overlap` names those whose
operations may overlap, and the property is about the others. It must hold whatever the former do.

| Run (cfg) | Overlap, faults | Shows |
|---|---|---|
| `DriverConcurrent` | yes; failing queries, closed channel, crashes | `RowsWellFormed`, `EventsWarranted`, `OkMeansAnnounced`, `TypeOK` survive every interleaving of two requests and two role changes |
| `DriverReliable` | one of two users; failing queries | `EveryChangeAnnounced`: without crash or closed channel no event is lost, whatever races. For the serial user `SettledAgreement`, `EveryChangeOwesAnEvent`, and `LedgerSpec`: the steps implement `AvailabilityLedger` |
| `DriverLostEvent` | no; crashes | **violation** of `EveryChangeAnnounced` |
| `DriverGhost` | yes; none | **violation** of `NoGhostAvailability` |
| `Address` | one of two users, who also spells ids in capitals; failing queries, crashes | for everybody `OwnerIsCreator`, `DefaultIsOwned`, `TypeOK`; for the orderly user `DefaultIsNeverDeleted`, `OnlySetDefaultMovesDefault`, and `BookSpec`: the queries implement `OrderlyBook` |
| `AddressDeletedDefault` | no, ids in capitals; none | **violation** of `DeleteRefusesDefault` |
| `ConsumerMixed` | failing transactions, two crashes, any number of deaths by a null message; fairness | `RecordedOnceWithEffects`, `TypeOK`, `InboxSpec`: the consumer implements `EventInbox`; `OvertakingIsBounded`: no message gets ahead of as many older ones as the prefetch limit; `StarvedAreNeverServed`: nothing is delivered from behind as many endless messages as the prefetch limit; `HealthySettle`: everything else is handled, if no null message is in the queue |
| `ConsumerRetryLimit` | none | **violation** of `RetriesAreLimited` |
| `Provisioning` | one by one, or any order and overlap; one fault; fairness | `DriversAreCustomers`, `SavedIsNotDenied`, `DriversAreFound`, `OwnEditIsShown`, `TypeOK`; `NoTransactionDeadlock`, however many messages are handled together; `HandlersKeepInbox`: so handled they implement `EventInbox`, with `commits` counting what each message's transactions have committed; handled one by one, `RegistrySpec`: the messages implement `ProfileRegistry`, `RowsFollowRole`: the rows are at every moment those of the last role, and `EveryoneSettles`: every message is handled, and the rows stay so |
| `ProvisioningPipelined` | delivered in order, handled together; none | **violation** of `DemotedLoseTheirRow` |
| `HttpAccess` | — | `HandlersAreGated` and `DocumentedAreAdmitted`: controllers are reached as the README's endpoint table says, no more and no less; `AcceptedCanBeReadBack`; `OnlyKnownGaps`: apart from what express.json or the router cannot read, a subject that is no uuid and a failing query, a 500 comes only from the three gaps of section 4; `TypeOK` |
| `Lifecycle` | closing channel, failing boot steps, two signals; fairness | `CleanExit`, `ReadyOverOpenChannel`, `TypeOK`; `ShutdownEnds`: a shutdown ends the process whatever hangs |

Bounds. *Driver runs*: one user suffices for the races of `DriverConcurrent`, because
operations on different users share only the channel; `DriverReliable` has one of either
sort. Each race in the hazard list is between two writers of one row; two requests
and two messages add a third and fourth. One vehicle type and one plate tell set
from unset, which is all the guards see. *Address run*: five operations
cover create, set default, delete and two racing ones; two users and two ids let one user
name the other's address. *Provisioning runs*: one user, because no query names the rows
of two; three messages are the fewest with a driver who is demoted after a promotion
and a `user.registered` that may come last; one request may start and end anywhere between them; one
fault aborts a transaction or crashes the process at any point. *Access run*:
every method, path and pair of tokens; every body with one field at, just
inside and just outside each limit, complete or alone. *Consumer runs*:
one message of every kind, a duplicate, one whose publisher set
`x-attempt` to the limit, and a second poison message with an event behind it; a prefetch
limit of two (the code has eight) lets an event and its duplicate, or one of them and the
poison, be out together, makes others wait, and is filled by the two poison messages; `MaxFailures` and `MaxCrashes` bound the faults per message and run; the
failure counter saturates one above the four deliveries the documented policy
allows. The null message stands between an event and its duplicate in one of the two initial states and is absent in
the other: next to it nothing can be relied on to be settled. Its deaths are not counted, so their number has no bound.
*Lifecycle run*: two signals, so that one `shutdown()` overtakes
the other; two requests, a probe and a delivery in progress.

Symmetry is used only over requests, messages, ids or users that no property
names, and never with a liveness property.

Fairness. `ConsumerMixed`: weak fairness of dispatch, record, commit
and ack: the event loop and the database answer. Strong fairness of the
broker's push: a message behind one that keeps failing is at the head of the
queue again and again, not continuously. Weak fairness of a poison handler's
failure: it throws in the end. Transient failures and crashes are not fair and are
bounded. `Endless` messages fail every time and stay below the retry limit; as many of them
as the prefetch limit hold every slot, and the messages behind them are `Starved`.
`HealthySettle` excepts these, and `StarvedAreNeverServed` says that the exception is needed.
All this assumes that the channel stays open and that the broker does not cancel the consumer: the service
opens neither again, and goes on answering `/healthz`, the path the platform probes, with 200. After such an event nothing
is consumed until somebody restarts the process. It is assumed for `Provisioning` too. And it assumes a queue without a null message.
The poison messages also keep the queue from ever draining, so no state of the run is a deadlock.
`Provisioning`: weak fairness of each message's and each request's next step: the
broker delivers what is queued, queries return, and Postgres grants a lock when its
holder ends. Requests need not be sent, and faults are bounded and not fair. That a holder
does end is `NoTransactionDeadlock`. (A delivery that waits for another one with the same
event id holds no row yet, and cannot be part of a circle.)
`Lifecycle`: weak fairness of the shutdown's awaits (the broker answers, or
the AMQP heartbeat fails and rejects the pending call), not of each but of all together: when two
shutdowns overlap, either may get on. And of the 10 s timer. Requests
and deliveries get none: one of them may wait for `drain` forever.

## 4. Disagreements with the documentation

1. *Lost event* (`DriverLostEvent`). README "Events published" says an event follows each toggle
   and each demotion of an available driver. The publish is a separate call after
   the commit and nothing remembers that it is due.
2. *Ghost availability* (`DriverGhost`). README "Events consumed" says that
   a demoted available driver is announced unavailable. A toggle that races with the demotion leaves
   the removed driver announced available, without any fault.
3. *Deleted default* (`AddressDeletedDefault`). README says DELETE answers 409 for the
   current default. The use-case compares the id of the row with the id of the path as
   strings; an id in capital letters passes the schema, finds the row and is not
   recognised. (Operations that overlap can also delete the default: the check and the
   delete are two queries. `DefaultIsNeverDeleted` is therefore about orderly users only.)
4. *No retry limit* (`ConsumerRetryLimit`). README says "3-retry policy via Rabbit nack". The
   count is read from a header that a requeue leaves unchanged.
5. *Demoted driver keeps the row* (`ProvisioningPipelined`). README says a demotion cleans up
   the driver row. The consumer handles up to eight messages together: a demotion that reads
   before the promotion ahead of it commits finds nothing to delete.

Smaller observations made while modelling, which no run is about:

- `user.role_changed` to admin inserts a customer row (the handler treats customer and
  admin alike), while README says that admins have neither profile row.
- Express, not the error mapper, answers an unknown path: HTML instead of RFC 7807.
- Malformed or oversized JSON is a 500: `body-parser`'s error is no `DomainError`, and the mapper ignores its status.
- So is a path with a malformed percent-encoding in place of an id: Express fails to decode it before it looks at the method
  or runs the role guard, with an error whose status the mapper ignores.
- A message that is the JSON text `null` ends the process: reading its `eventType` throws, and so does the catch block,
  which reads its `eventId` before the nack. The message is redelivered to the next process, and ends that one.
- A display name is made of the local part of an email when the event has none; longer than 80 characters, it makes a poison message.
- `OnlyKnownGaps` names the three places where the schemas admit what the
  value objects or columns refuse with a 500: a phone shorter than seven without its white space, a
  country that is not two letters, and a text with U+0000.

## 5. Proofs

`tlapm` checks every leaf; nothing is assumed but the named constants
assumptions of the modules (sentinels differ from real values, the sets of
requests and messages are disjoint, bounds are naturals). **Every safety
property of a passing run is a theorem**: the invariants, the action
properties and the five refinements, for any number of users, messages, requests, ids, texts and faults.
The liveness property `ShutdownEnds` is one under fairness written with guards, and the safety
half of `EveryoneSettles` is one. Four invariants are
proved without a run of their own: `DeletedStaysDeleted`, which `BookSpec` shows too; `AckedIsApplied`,
which `InboxSpec` shows; `OwnersAreProvisioned`; and
`KilledBeforeServing`, a conjunct of the lifecycle's inductive invariant.

- `DriverAvailability_proofs`: `TypeCorrect`, `RowsStayWellFormed`,
  `EventsStayWarranted`, `OkAlwaysMeansAnnounced`, `ChangesOweEvents` under every fault;
  `ReliableProcessAnnounces`, `ReliableProcessAgrees` and the refinement
  `ReliableProcessImplementsLedger` under the assumption `Reliable`: neither crash nor closed channel.
  `RowsWellFormed` is not inductive: a save writes an entity read long ago. The
  invariant adds that every entity held by a suspended request is well formed.
  `EventsWarranted` needs to know which phase implies that nothing was sent yet: an operation
  waiting to publish is committed and has sent nothing, and a message that is
  recorded can never again reach its publish, which is what keeps a redelivery from
  publishing twice. For serial users `SerialInv` adds that at most one operation on a user is
  active and that what it read is still true: the entity to be saved is the present row after
  `setAvailable` or `updateAttributes`, the row a transaction read is the row in the table. `Moves`
  says that a step touches one operation and one user, so the others need no second look. With
  `Reliable`, `HeardInv` says that the announced value is the table's unless an event is pending,
  and then the refinement mapping's `heard` is simply the availability in the table.
- `AddressBook_proofs`: `TypeCorrect`, `OwnersNeverChange`, `DefaultsAreOwned`,
  `NoOrphanAddresses`. The invariant says of every suspended operation what it may
  rely on: a held address entity carries the owner of its id, a held customer
  entity has a default that, *if its row still exists*, is the user's own; the foreign
  key does the rest. `IsFresh` (ids are never generated twice) is what makes the
  first of these hold. `DeletedAreGone`, `DefaultsAreKept`, `DefaultsMoveOnRequest` are about orderly users
  (`OrderlyInv`): one operation at a time, whose reads are still true when it writes (`ReadIsTrue`), while
  the other users' operations hold no id of theirs. The same invariant gives the refinement
  `ImplementsOrderlyBook`: because the reads are true, the last query of an operation does to the tables
  what reading and writing in one step would, and every other step changes no row of an orderly user.
- `Provisioning_proofs`: `TypeCorrect`, `NoDriverWithoutCustomer`, `SavedAreNotDenied`, `SteadyDriversAreFound`,
  `OwnEditsAreShown`, and the refinement `HandlersImplementRegistry`. `TransactionsKnow`: a transaction past its
  customer step has seen or written a customer row, which nobody deletes. `RequestsKnow`, `SteadyKnow`: what a request
  has seen while its user kept the driver row. `OneByOneKnow`: for a user whose
  messages are handled one by one, nobody else inserts or deletes a row that an open transaction has
  looked at. `Counted`: the recorded messages are the first *n*, without a gap, which makes
  `applied` of the registry a count. `RowsFollowRoles`: with no gap, the rows are those of message *n*
  (`FollowsRoles`), because the driver row a one-by-one transaction has looked at is still the row at its
  commit, and a PATCH changes what a row says but not whether it is there. `NoDeadlock` needs
  no order of delivery: whoever is waited for because of a driver row
  has only its commit ahead, and whoever is waited for because of a customer row is past its own customer step:
  it can wait for a driver row only, which leads to the first case. `HandledStaySettled` is the safety half of
  `EveryoneSettles`: once all messages are handled they stay so, and the rows are those of the last role.
  `HandlersImplementInbox` assumes no order of delivery either. `commits` is counted up by every commit and is not
  derived from the dedup table; that it is one exactly for the recorded messages is an invariant (`RecordsKnow`), because a handler
  that finds its event recorded returns at once. So the commit is the inbox's `Apply`, the ack
  its `Acknowledge`, and a failure, a crash or a redelivery is no step of it.
- `HttpAccess_proofs`: `TypeCorrect`, `NobodyElseIsServed`, `NobodyIsTurnedAway`, `AcceptedReadBack`,
  `LimitsAgree`, for every set of tokens and every set of bodies, with texts and coordinates of any size. The invariant says
  which checks a call has passed at each stage. `LimitsAgree` is about calls that are read without an error and whose queries
  work: the history variable `fault` marks those that fail for a reason outside the call (the database, a row
  taken away by another operation, a closed channel), which end as a 500 too.
- `UserEventsConsumer_proofs`: `TypeCorrect`, `EffectsOnce`, `AckedAlwaysApplied`, `OvertakingBounded` and the
  refinement `ConsumerImplementsInbox`. The invariant adds that two open transactions never hold
  the same event id and that an open transaction's id is not recorded: Postgres'
  unique key, and the reason why the effects are counted at most once. `OvertakingBounded`: the broker pushes the
  oldest ready message, so whatever is older and not settled holds one of the slots, and there was room for
  one more; afterwards nothing settled becomes unsettled. A consequence is `StarvedStayQueued`: an endless
  message is never settled (`EndlessStay`; its event is never recorded, because only
  a valid message records one), so nothing passes as many of them as the limit.
- `ServiceLifecycle_proofs`: `TypeCorrect`, `ExitsClean`, `SignalsCutNoRequest`, `ReadyMeansOpen`. The
  invariant adds that nothing is served before `main()` is up, that a shutdown past `consumer.stop`
  left the channel closed, and that from the start of the consumer on `activeChannel` is
  non-null only over an open channel: a close event missed during the boot makes the
  consumer's start fail. `ShutdownsEnd` derives `ShutdownEnds` from `Spec` and `FairByGuards`, the
  weak fairness of `FairSpec` with the steps' guards in place of `ENABLED`, which no installed prover handles: each
  signal's `shutdown()` only moves forward. While one awaits the broker over an open channel, whichever call is
  answered first closes the channel; over a closed one, whichever is answered first arms the timer; an armed timer
  ends the process. Which signal moves does not matter, so no counting of the signals is needed.

Only model-checked: `HealthySettle`; that all messages are handled, the other half of
`EveryoneSettles`; that `FairByGuards` is the fairness of `FairSpec`, under which the run checks `ShutdownEnds`; and the five violations. The first two need fairness of every message
and an induction on how many are left, inside a temporal formula.

## 6. Not modelled

- Configuration, logging, clock, request ids, the Prisma client: no decision any
  property depends on.
- The two address lookups (`list-addresses`, `get-address-for-service`): one query and a
  comparison, without a later step that could act on a stale read. The response mappers rename fields.
- `connect()`'s exchange declarations, and a second connection: the service never reconnects.
- The wire formats of events and problem documents.
- The broker's cancel of the consumer (`if (!msg) return`): nothing reacts to it, and nothing is delivered afterwards.
- HEAD and OPTIONS requests, helmet and the request logger.

Worth adding if the code changes: an outbox (findings 1 and 2) would make
`EveryChangeAnnounced` hold in `DriverConcurrent`; a retry counter that the service writes
itself would turn `RetriesAreLimited` into a property of `ConsumerMixed`; a lock in
the handlers would let `Provisioning` drop the case distinction on `Deliveries`, and so would a prefetch limit
of one, which `OvertakingBounded` turns into delivery one by one, as long as auth-service publishes a user's events in order.
