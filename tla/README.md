# TLA+ models of the sample microservices project

This directory holds the formal models of the sample microservices project: an
Ordering service in DDD/CQRS style (ASP.NET Core, MediatR, Entity Framework
Core, SQL Server), an event bus over RabbitMQ, and a front end whose forms are
validated in the browser by `jquery.validate.unobtrusive.js`. The models say what
these parts promise when requests are repeated, processes die, statements fail,
threads interleave and answers come late. TLC checks them on small instances, and
TLAPS proves the most important of them for every instance.

`PROJECT.json` lists the components, the runs, what each definition stands for
(`map`: file, lines, symbol), the mutations that show that each property can
fail, the disagreements between code and documentation, the hazards and the
theorems.

How to run one check, inside this directory:

    tlc -workers 2 -config CommandPipeline_safety.cfg MCCommandPipeline.tla
    tlapm CommandPipelineProofs.tla

## 1. The system

| Component | State it keeps | Operations | Talks to |
|---|---|---|---|
| Command pipeline: `OrdersController`, MediatR behaviours, `IdentifiedCommandHandler`, `CreateOrder`/`CancelOrder` handlers, `OrderingContext` | per request: the change tracker and `_currentTransaction`; in the database: `ordering.requests`, `ordering.orders` | one command per HTTP request, inside a transaction that the EF execution strategy may run again | database, event log, bus |
| Request idempotency: `RequestManager`, `ClientRequest` | rows of `ordering.requests` | `ExistAsync`, `CreateRequestForCommandAsync` | called inside the command's transaction |
| Integration event log (outbox): `IntegrationEventLogService`, `OrderingIntegrationEventService` | one row per event with a state | save in the command's transaction; after the commit retrieve, mark, publish, mark | database, bus |
| Event bus: `EventBusRabbitMQ` | queue name, consumer channel | `Subscribe`, `SubscribeDynamic`, `Unsubscribe`, `Publish`, `Consumer_Received`, recreation of the channel, `Dispose` | subscriptions manager, persistent connection, broker |
| Subscriptions manager | dictionary of handlers by event name, list of event types | add, remove, look up, clear | called by API threads and by consumers |
| Persistent connection | connection, `_disposed`, lock | `TryConnect`, shutdown, blocked and callback handlers, `Dispose` | RabbitMQ client |
| Order aggregate: `Order`, `OrderItem`, `OrderStatus` | lines, status, domain events; row in the database | `AddOrderItem`, six status methods, load and save through the repository | mediator (domain events) |
| Buyer aggregate | payment methods | `VerifyOrAddPaymentMethod` | mediator |
| Start-up: `Program`, `MigrateDbContext`, `OrderingContextSeed` | schema, two tables of constants | migrate, seed, run the host | database, orchestrator |
| Client-side validation: `jquery.validate.unobtrusive.js` on `jquery.validate.js` | per form: the parsed rules, the validator (errors, pending questions, previous answers), what the page shows | adapters, `parse`, `parseElement`, `attachValidation`, `onError`, `onErrors`, `onSuccess`, `onReset` | the page, its user, the server's remote checks |
| Composition, filters, validators, entity configurations | none | registrations, verdicts, schema | |
| `Public` (MVC front end), `ValuesController`, tests, csproj | none of the protocol | | |

What is hard in it, by component:

* **Command pipeline and idempotency.** Several deliveries of one request id run
  at once, in one process or several, with no coordination but the rows of SQL
  Server. The execution strategy runs the lambda again on the *same*
  `OrderingContext`, so that what the failed run left in the change tracker and
  in `_currentTransaction` is seen by the retry. The identified handler swallows
  every exception of the inner command, and the transaction commits all the same.
  It is correct when a request id is executed at most once, an Ok is about
  something recorded, and every request ends.
* **Outbox.** Saving the event, committing, publishing and marking are steps with
  a fault or a crash possible between any two. It is correct when what is on the
  bus was persisted, and when a row says the truth about the bus.
* **Event bus.** API calls take several steps (bind, register, consume; remove,
  unbind, close) while consumers enumerate the very lists these calls change, and
  a channel that is created anew numbers its deliveries from one again while the
  work pool of the old one still runs. It is correct when a subscribed name is
  bound and consumed, handlers are left out for no other reason than such a change,
  and messages are taken off the queue in the end.
* **Persistent connection.** Every thread that finds the connection lost, and
  every handler of every connection there has been, calls `TryConnect`; one lock is
  held for all the retries of one of them, nobody looks again whether the
  connection is still lost once inside, and `IsConnected` and `Dispose` do not take
  the lock. It is correct when the connection in use is watched, a loss is made
  good, and nobody waits for ever.
* **Order aggregate.** Lines are merged in an `int` and a discount; rows have no
  concurrency token, so sessions act on stale copies; domain events are dispatched
  and cleared before a save that may fail and be repeated. An exception of a status
  method is swallowed by the identified handler, and the commit saves what was
  changed before it without dispatching anything.
* **Start-up.** Two retry policies are nested around a context that the inner one
  disposes; several hosts seed one database at once and may die half-way.
* **Client-side validation.** One thread, but a question to the server is answered
  at any later time: after the user has typed on, submitted, reset the form, or
  asked again. The script keeps its own notes on elements the plugin creates and
  forgets, pages parse forms again after adding fields, and some rules the adapters
  make have no method among the scripts that are loaded, so that checking them throws. It is correct when what
  is sent was approved as it is sent, and what is shown agrees with what the
  validator knows. The rules are correct when the client asks for what the
  annotations of the view model ask for.

The full list, each at its line, is `hazards` in `PROJECT.json`.

## 2. The modules

| Module | What it is |
|---|---|
| `CommandPipeline` | the core: pipeline, idempotency, transaction and outbox |
| `IdempotentReceiver` | the abstract specification of what a sender is promised |
| `MCCommandPipeline` | the commands of the small instances, symmetry of scopes |
| `CommandPipelineProofs` | inductive invariant and theorems; the pipeline implements the abstract receiver |
| `SubscriptionsManager` | the dictionary; its operations are used as parts of the bus's actions |
| `EventBusRabbitMQ` | extends the manager: API thread, broker, consumers, channels |
| `MCEventBusRabbitMQ` | event names and types of the instances |
| `OrderItems` | the pure part of the order: lines, merging, totals, wrap-around |
| `OrderAggregate` | extends it: construction, stale copies, status methods, saving |
| `MCOrderAggregate` | small prices, discounts and units |
| `OrderProofs` | invariants of the lines, of statuses and events, and theorems |
| `StartUp` | migration, seeding, policies, hosts, crashes and restarts |
| `StartUpProofs` | inductive invariant and theorems |
| `EventBusProofs` | invariants of the dictionary, of a call in progress, of the first channel; theorems |
| `PersistentConnection` | `TryConnect`, its lock and retries, the handlers, `Dispose` |
| `ConnectionProofs` | inductive invariant and theorems |
| `UnobtrusiveAdapters` | the pure part of the script: attributes to rules, and what a rule accepts |
| `UnobtrusiveRules` | extends it: one field, its rules against its annotations |
| `UnobtrusiveValidation` | extends it: one form with remote rules, its validator and what it shows |
| `MCUnobtrusiveRules`, `MCUnobtrusiveValidation` | the annotations, values and fields of the instances |
| `RulesProofs` | what each annotation becomes; the rules against the annotations |
| `UnobtrusiveProofs` | inductive invariant of a form, the types of its questions, theorems |
| `LeftFold` | what a left fold computes, for any step: the proofs instantiate it |

### CommandPipeline

A *scope* is one request with its `OrderingContext`. `pc[s]` is the await the
scope stands at, so that one action is everything between two awaits:

| Code | State or action |
|---|---|
| `OrdersController.CancelOrderAsync` | `Receive`, `ReceiveWithoutId`, `Reply` |
| `TransactionBehaviour.Handle` | `Begin`, `BeginOnStaleField`, `BeginFails`, `Rethrow`, `AbandonTransaction` |
| `OrderingContext._currentTransaction` | `tx[s]`: none, open, dead (the server dropped it), disposed (the field still holds it) |
| change tracker | `tracked[s]` (the `ClientRequest`), `dirty[s]` (an unsaved order) |
| `IdentifiedCommandHandler.Handle` | `Exist`, the swallowing in `Insert`, `AddEvent`, `Load`, `HandlerFails` |
| `RequestManager` | `Known`, `Recheck`, `Insert`, `RequestManagerFails` |
| command handlers | `AddEvent`, `Load`, `Save` |
| `CommitTransactionAsync` | `Flush`, `Commit`, `CommitFails`, `CommitUnacknowledged` |
| `PublishEventsThroughEventBusAsync` | `Retrieve`, `MarkEventAsInProgress`, `Publish`, `MarkEventAsPublished`, `PublishFails`, `MarkEventAsFailed`, `EventLogFails` |
| SQL Server | `HoldsRequestRow`, `OrderRowFree`: an uncommitted row locks its key; `Persist`: what a commit makes visible |
| a process that dies | `Crash` |

A command is reduced to its type, the order it names and the verdict that
validators and domain model give. `CreateOrder` has no endpoint in this
repository: its command, validator, handler and identified handler are registered
and modelled as they are written. `attempt` counts the runs of the lambda; it is a
variable of the code's execution strategy and also what tells the promises
that hold always from those that hold when nothing was retried.

`IdempotentReceiver` is the promise in four sets: a request id is executed in one
step, once, and announced and confirmed only afterwards. The refinement maps
`executed` to the committed request rows, `applied` to the ids with committed
writes, `announced` to the ids with an event on the bus and `confirmed` to those
answered Ok.

### SubscriptionsManager and EventBusRabbitMQ

The manager's operators are parts of the bus's actions. Nothing in it is locked, and
`AddSubscription` puts the handler into the dictionary before it puts its type into the
list, so it is two steps of the bus, `Register` and `RegisterType`, with consumers in
between; `Unsubscribe` uses `DoRemoveHandler`, where the one consumer that could notice
an order among its steps is already reading a list that has changed. The bus keeps the call in progress (`api`),
the broker's side (`bindings`, `queue`, `unacked`), the channel the field holds
(`channel`, with its generation and its delivery tags) and, per generation, the
work pool of the client library (`pools`) with what `Consumer_Received` is doing to
its first delivery (`consumer`). `NoteModified` is the version check of a .NET
enumerator: a list that changes under a `foreach` makes it throw at its next move.
`Dispose` closes the channel while deliveries may be in work, and
`ClearAfterDispose` empties the dictionary; a delivery that is still in work then
fails to be acknowledged and has the channel created anew, and the messages it
takes find no handler. That happens in the model, and nothing in the repository
says what should happen.
The API is called by one thread at a time, as `Startup` does; consumers interleave
with every one of its steps.

### OrderItems and OrderAggregate

`AddOrderItem`, with the exceptions it and the constructor throw and the half-done
merge an exception leaves (`AfterThrow`), is a function of the lines. Units wrap at
`IntMax` as an unchecked `int` does. After `SaveNew` the order is a row that
sessions load (`Load`), change by the status methods and save (`SaveEntities`,
`SaveFails`) or give up (`Abandon`); `Dispatch` empties the domain events before
the save. A session is a command inside the transaction: when a status method throws
(`StatusChangeException`), `IdentifiedCommandHandler` swallows the exception,
`TransactionBehaviour` commits, and the plain `SaveChangesAsync` of
`CommitTransactionAsync` stores the status that an earlier call has set (`Written`),
without its domain events; `lost` remembers these. Only `SetCancelledStatus` has a caller today; the others are the public
interface of the aggregate and are called in any order.

### StartUp

`at[h]` is the call host `h` stands at. `Migrate` and `MigrateFails` are
`InvokeSeeder` under the outer policy, `SeedMigrate`, `Any`, `SaveChanges`,
`SeedFails` and `UpdateFails` are `SeedAsync` under the inner one, `CatchException`
is the `catch` of `MigrateDbContext`, which rethrows in Kubernetes only. `Crash`
and `Restart` are the process and its orchestrator.

### PersistentConnection

A process is a thread of the service or, named by the connection's number, the
thread that runs the handlers of a connection. `pc[p]` is where it is in
`TryConnect`; `Enter` takes the lock, `CreateConnection` and `BrokerUnreachable`
are one attempt under the retry policy, `TestConnection` is the `if (IsConnected)`
after it, and `Subscribe` attaches the three handlers. A handler attached to a
connection that has closed meanwhile runs at once, on the same thread, which holds
the lock and may take it again: `Subscribe` then goes back to "trying". `Lose`,
`Trouble` and `Recover` are what happens to a connection from outside; `Handle` is
the body the three handlers share. `Dispose` sets the flag and
`DisposeConnection` closes the connection, without the lock. The ghosts `untended`
and `gaveUp` remember which `TryConnect` returned false or threw.

### UnobtrusiveAdapters, UnobtrusiveRules and UnobtrusiveValidation

The script is vendored in `src/Public/wwwroot/lib` and loaded by
`_ValidationScriptsPartial.cshtml`; no view has a form of its own yet, so that the
page and its user are an environment that may do anything in any order.

`UnobtrusiveAdapters` is `setValidationValues`, `getModelPrefix`,
`appendModelPrefix` and every adapter the script registers (`Adapted`), and what the
plugin's methods accept (`Passes`). A name is the sequence of its parts, a text the
sequence of its characters ("a" a letter, "#" none). The page loads the validation
plugin without `additional-methods.js`, which holds the methods of the rules
`creditcard`, `extension` and `accept`; `HasExtension` says whether that file is
there, on which the script's choice of adapters for files depends, and `Unloaded` is
the set of rules without a method. Calling one of them throws. `Passes` spells out the
methods that the properties of `UnobtrusiveRules` look into; the verdict of every other
built-in method (`email`, `url`, `date`, `number`, `range`...) on a filled field is the
constant operator `Accepts`, which a run gives and the proofs leave open.

`UnobtrusiveRules` parses one element and checks values, `Asked` being the reading
of each annotation on its own, as the server has it.

`UnobtrusiveValidation` has one action per event of a form: parsing all of it, an
element of it or an added field, typing, leaving a field, submitting, resetting,
an answer, a failed request. A handler runs to its end with everything it
triggers. `v` is the plugin's validator together with what the form shows;
`Checked`, `form`, `element`, `submit`, `stopRequest` and `remoteSuccess` are the
plugin's functions of these names as far as the script relies on them, `onError`,
`onErrors`, `onSuccess`, `onReset` are the script's own; of the summary only its class
is kept, its list being messages.

`Throws` says when `check` gets to a rule without a method: the rules are tried in the
order of the adapters with "required" first, and a rule that fails before it ends the
check (`Ahead`). The exception leaves `element` with what `prepareElement` did
(`Interrupted`); out of the submit handler it keeps nothing from being sent (`submit`).
Fields with `equalto` are not in the form: the method attaches a handler to the other
field (jquery.validate.js:1491-1497), and the rule is compared with its annotation in
`UnobtrusiveRules` only (`FieldAssumption`). What a run of this module
made visible, beside its properties:

* a second parse never reaches an existing validator: `attachValidation` calls
  `form.validate(options)`, which returns the validator that is there, with its
  old rules (hence `settings` beside `options`);
* a failed request has no handler, so `pendingRequest` stays above zero and the
  form is not submitted until the field is asked about anew;
* a submit can be lost: when the last answer arrives, `stopRequest` checks the form
  again, which may ask a new question, and forgets the submit all the same;
* an answer that arrives after a reset still shows its error, on a form that is
  empty by then;
* with an `errorClass` of the page's own, an error after a reset is shown without
  the script's class: the plugin finds the old error element and the script's
  `onError` is not called. `ShownIsInvalid` excepts that case by name.

## 3. What is checked

| Run | Question and answer |
|---|---|
| `pipeline_safety` | Three deliveries of a create and a cancel request, all faults, one retry, crashes at every await. A request id is executed at most once by registered transactions (`AtMostOnce`); an Ok is recorded (`OkIsRecorded`); an event on the bus is persisted with its order (`PublishedIsPersisted`); no event of an answered request is left half-way (`SettledOutbox`). Holds. |
| `pipeline_receiver` | Two deliveries of any of six requests, one per path through the handlers, two retries, every fault but those at the commit and a broken connection. Every request ends (`EveryRequestEnds`) and the pipeline refines `IdempotentReceiver` (`ImplementsReceiver`). Holds. |
| `not_performed_twice` | With a failed commit after a failed save the retry writes the order without its request row, and a later delivery writes it again. The idempotency README promises otherwise. |
| `started_order_exists` | `OrderStartedIntegrationEvent` is published for an order the domain model refused. |
| `event_bus` | Up to four API calls on two names while a message of each is processed; handlers throw, an unbinding fails, the broker or `Dispose` closes the channel once. A subscribed name is bound (`SubscribedIsBound`) and consumed (`SubscribedIsConsumed`); handlers of a message are left out only when its list changes meanwhile or in the moment between a handler and its type (`SkippedOnlyMeanwhile`); `AckedAfterProcessing`, and `MessagesAreTaken`. Holds. |
| `connection` | Two threads and the handlers of up to five connections call `TryConnect` while connections break, are blocked and recover, the broker is unreachable twice, the bus is disposed. With the lock free a connection in use is watched (`WatchedWhenConnected`); a loss is made good unless the code gives up (`LossIsMadeGood`); every call comes back (`EveryCallReturns`). Holds. |
| `order_aggregate` | Three items out of all small combinations, two sessions, three loads, any status methods, failing saves and swallowed exceptions. `TotalIsCombined`, `HighestDiscountWins`; up to the events that a swallowed exception loses, events come in the order of the flow (`EventsFollowTheFlow`) and a status is announced before it is stored (`StatusIsAnnounced`). Holds. |
| `discount_within_total` | Merging an item accepts a discount above the line's total, which the constructor refuses. |
| `paid_is_not_cancelled` | A stale copy turns a paid order into a cancelled one. |
| `start_up` | Two hosts, both policies with their three retries, five faults or crashes. A host that logged no exception, and every host in Kubernetes, runs on seeded tables (`RunsSeeded`), and every host comes to run (`EveryHostRuns`). Holds. |
| `field_rules` | Every field with any of seven annotations, alone or together, a checkbox or not, with and without the field it is compared with, and values of up to three characters. What the client refuses breaks an annotation (`NeverStricter`); what it accepts meets all of them unless two become one rule (`ExactUnlessOverlapping`). Holds. |
| `form_validation` | An address with a built-in and a remote rule; a field added later has a remote rule of its own and is part of the question about the address, or it is a file, whose rule has no method. Any events in any order, late answers, a failed request, the script's error class and one of the page's own. What is sent is approved as it is sent, unless a rule without a method has thrown (`SentIsChecked`), which never happens after waiting for the server (`WaitingIsWhole`); what is shown agrees with what the validator knows, also when a check stopped half-way (`ShownIsInvalid`); `LinkIsOfAnError`, `PendingIsCounted`. Holds. |

Four of the twelve runs end in a violation on purpose: each checks one sentence of
the repository's documentation, or one exception message of its code, against what
the code does. `findings` quotes the sentence and tells the shortest trace. The
passing runs state what does hold beside it; `AtMostOnce`, for instance, is the
part of "not performed twice" that survives every fault, and says which executions
fall outside it.

More disagreements were met on the way and are in the models, without a run
of their own. A cancellation of an order that does not exist is answered 400 and
its repetition 200, where the idempotency wiki speaks of the same result (`Exist`
answers for a duplicate whatever the first run came to). A message whose handler
threw is acknowledged all the same, where the event bus wiki wants it retried
(`Ends`, `BasicAck`; a comment at the acknowledgement admits it). And neither retry
policy of the start-up catches the exceptions a broken network raises under EF's
own strategy, so that outside Kubernetes a host may run unseeded (`CatchException`;
`RunsSeeded` speaks of a host that logged no exception). `Order.cs` says that domain
events are dispatched when changes are committed; a status that was set before another
status method threw is committed, and its event is lost (`StatusChangeException`,
`lost`). Only `SetCancelledStatus` has a caller yet, so it takes a handler that calls
two status methods. And a comment of the script says that without an `extension` method
`accept` validates the extension of a file: with the scripts the front end loads there
is neither, the check throws, and the form is sent (`Throws`, `submit`).

### Bounds, and why they are enough

* `pipeline_safety`: two scopes race for one id and a third repeats it
  afterwards, or races for another id. Ids are independent but for the row of an
  order, so two suffice. `MaxRetryCount = 1` (the code has 10): what a retry
  changes is that the context is not fresh, and every later retry finds the same
  stale context. The theorems below hold for any number.
* `pipeline_receiver` takes two scopes, six ids (with two cancellations of one
  order, for the row lock) and two retries. The faults `commit` and `connection`
  are left out because with them the refinement is false: that is
  `not_performed_twice`.
* `event_bus`: four calls are enough for subscribe, unsubscribe, and again, on
  either name. `MaxGen = 4` channels are never used up: with two messages and one
  drop no execution wants a fifth, and one that did would show as a deadlock.
* `connection`: two calls and three events make up to five connections, with a
  reconnection running inside another, a third process waiting for the lock, and
  retries that run out (`RetryCount = 1`; the code's default is five).
* `field_rules`: three characters are one more than the largest limit but one
  among the annotations; the pattern and the password rule each accept some of the
  values and refuse others. A name has two parts, as the prefix that
  `appendModelPrefix` moves has one.
* `form_validation`: a form has up to two fields (`MaxFields`) out of three, for what
  the second remote field and the file bring into it has nothing to do with each other:
  with a rule that throws in the form nothing is ever waited for. Fields have an empty
  and a filled value, so that an answer about an old value differs from one about the
  current one, and the address also one that its own rule refuses; two remote fields
  make the additional field of a question and the "last pending" test matter; the
  file's `required` stands before the rule without a method, so that an empty field
  fails and a filled one throws. One failed request is enough, as `pendingRequest` never
  recovers from it by itself.
* `order_aggregate`: `IntMax = 3` with units up to 2 makes three items of one
  product wrap around; three loads give a session a stale copy, and a second one
  after it.
* `start_up`: five faults are more than the three retries of the outer policy (the
  inner one never gets past its first: the context is disposed), so it gives up,
  with one or two faults left for the other host.
* Symmetry (`ScopeSymmetry`) is used in `pipeline_safety` only, which has no
  liveness property; scopes appear in no constant.

Deadlock is checked in every run. Where the system may rest there is an explicit
stuttering action whose guard says when (`Quiescent`, `Waits`, `Rests`, `AllRun`):
a state in which somebody waits for ever for somebody else is reported. Three
configurations switch the check off: a service may stop using its connection, a
checked field and a sent form are done.

### Fairness

* `CommandPipeline`: weak fairness of `Progress(s)` for each scope: the thread pool
  resumes an await that can complete, and a statement ends by success or by
  failure (a command timeout at the latest). Nothing is assumed about which. No
  fairness of `Receive` and none of `Crash`.
* `EventBusRabbitMQ`: weak fairness of the API call in progress, of each work pool
  and of the broker's delivery of each ready message. Nothing obliges a service to
  subscribe, and a handler is assumed to return or throw. `MessagesAreTaken`
  excepts the two ways in which the code stops consuming for good (`Stopped`),
  which are themselves hazards of the code.
* `PersistentConnection`: weak fairness of each process inside `TryConnect`,
  waiting for the lock included, and of each handler that was raised. A monitor is
  released by whoever holds it, and the holder's attempts are bounded by the retry
  policy. Nothing is assumed of `Recover`, of `Dispose` or of threads that have not
  called. Weak fairness of `Enter` is enough since attempts and events are bounded;
  a thread that is overtaken for ever would need unbounded calls by others.
* `UnobtrusiveValidation`, `UnobtrusiveRules`, `OrderAggregate`: no liveness
  property and no fairness. That a submitted form is sent in the end is not true
  of the code (see above).
* `StartUp`: weak fairness of each host's next step and of its restart, which the
  comment at `WebHostExtensions.cs:65` relies on. Faults and crashes are bounded,
  not prevented.

### Mutations

For each property of a passing run `PROJECT.json` names a definition and a
plausible wrong version of it in the same module (`HoldsNoRequestRow`, the primary key of
the request table missing; `FlushNothing`, no save at the commit;
`AckOnArrival`, automatic acknowledgement; `LatestDiscount`; `FirstIsSeeded`, both
tables judged by the first; and so on). With it in place TLC finds the property
violated under the same configuration. Nothing else uses these definitions.

## 4. What is proved

For every value of the constants (any set of scopes, request ids, hosts, events,
handlers, messages, threads; any finite set of fields; any number of retries and
calls, any set of faults) that satisfies the named assumptions (`RequestAssumption`,
`RetryAssumption`, `CommandAssumption`, `FaultAssumption`; `ItemAssumption`,
`OrderAssumption`; `StartAssumption`; `NameAssumption`, `BusAssumption`;
`ConnectionAssumption`; `HasExtensionAssumption`, `FieldAssumption`,
`ElementsAssumption`, `ValuesAssumption`), which TLC evaluates in every run that uses
them:

| Theorem | Says |
|---|---|
| `CommandPipelineProofs!TypeCorrect` | `Spec => []TypeOK`; the lambda runs at most `MaxRetryCount + 1` times |
| `CommandPipelineProofs!AtMostOnceHolds` | `Spec => []AtMostOnce` |
| `CommandPipelineProofs!OkIsRecordedHolds` | `Spec => []OkIsRecorded` |
| `CommandPipelineProofs!PublishedIsPersistedHolds` | `Spec => []PublishedIsPersisted` |
| `CommandPipelineProofs!SettledOutboxHolds` | `Spec => []SettledOutbox` |
| `CommandPipelineProofs!ReceiverImplemented` | `NoCommitFails => (Spec => ImplementsReceiver)` |
| `OrderProofs!TypeCorrect` | `Spec => []TypeOK`; units that overflow are still an `int` |
| `OrderProofs!TotalIsCombinedHolds` | `Spec => []TotalIsCombined`, for any number of items |
| `OrderProofs!HighestDiscountWinsHolds` | `Spec => []HighestDiscountWins` |
| `OrderProofs!EventsFollowTheFlowHolds` | `Spec => []EventsFollowTheFlow` |
| `OrderProofs!StatusIsAnnouncedHolds` | `Spec => []StatusIsAnnounced` |
| `StartUpProofs!TypeCorrect` | `Spec => []TypeOK`; no policy retries more often than it says |
| `StartUpProofs!RunsSeededHolds` | `Spec => []RunsSeeded` |
| `EventBusProofs!TypeCorrect` | `Spec => []TypeOK`; no list has a handler twice |
| `EventBusProofs!SubscribedStaysBound` | `Spec => []SubscribedIsBound` |
| `EventBusProofs!SkippedOnlyThen` | `Spec => SkippedOnlyMeanwhile` (an action property) |
| `EventBusProofs!SubscribedStaysConsumed` | `Spec => []SubscribedIsConsumed` |
| `EventBusProofs!AckedIsProcessed` | `Spec => []AckedAfterProcessing` |
| `ConnectionProofs!WatchedHolds` | `Spec => []WatchedWhenConnected` |
| `ConnectionProofs!TypeCorrect` | `Spec => []TypeOK`; at most one connection is created per call and per event |
| `UnobtrusiveProofs!SentIsCheckedHolds` | `Spec => []SentIsChecked` |
| `UnobtrusiveProofs!ShownIsInvalidHolds` | `Spec => []ShownIsInvalid` |
| `UnobtrusiveProofs!LinkIsOfAnErrorHolds` | `Spec => []LinkIsOfAnError` |
| `UnobtrusiveProofs!PendingIsCountedHolds` | `Spec => []PendingIsCounted` |
| `UnobtrusiveProofs!WaitingIsWholeHolds` | `Spec => []WaitingIsWhole` |
| `UnobtrusiveProofs!TypeCorrect` | `Spec => []TypeOK`; a question to the server is a list of values of the form |
| `RulesProofs!NeverStricterHolds` | `Spec => []NeverStricter`, for any annotations, parameters and values |
| `RulesProofs!ExactUnlessOverlappingHolds` | `Spec => []ExactUnlessOverlapping` |
| `RulesProofs!TypeCorrect` | `Spec => []TypeOK`; there is a verdict only after a rule |

Every safety property of a passing run is in this table. The theorems of
`UnobtrusiveProofs` are about forms without `equalto` fields (`FieldAssumption`), and
about any `Accepts`. `SentIsChecked` has the hypothesis that no rule without a method
has thrown (`Broken`): with one, what is sent is not checked.

**CommandPipeline.** None of the properties is inductive. `IInv` adds what a
reader of the code has in mind at each await:

* `TxInv`: the transaction is open from `Begin` to the commit, dead only on the
  way to a commit that will fail, and never open while the scope answers;
* `TrackerInv`: an unsaved order is there only with its tracked `ClientRequest`,
  and a first run starts with nothing tracked;
* `RowsInv`: what the open transaction wrote. Its heart: a private request row
  means that the id is not committed, and a private order without a request row
  means that the lambda ran before;
* `OutcomeInv`: what is committed on behalf of the scope; a log row implies the
  request row and, if the domain model accepts, the order;
* `AnswerInv`: what the sender heard;
* `OneHolder`: at most one open transaction holds a given uncommitted request row
  (the key of the table), without which `RowsInv` is lost at a commit: the other
  holder's id would be committed under its feet;
* `RegisteredIsRecorded`: a write with a request row has its id in the table,
  which with `RowsInv` makes `AtMostOnce` inductive.

There is a lemma per action, with one step per conjunct the action can disturb;
the theorem `Invariance` puts them together, and each property follows from `IInv`.
`PersistType` is the lemma about what a commit makes visible.

**The refinement.** `NoCommitFails` excludes the two faults `commit` and
`connection`. `RInv` then adds `CleanInv` to `IInv`: what `IInv` says of the first
run of the lambda holds of every run, for the only other way to a dirty retry, a
failed statement of the `RequestManager`, leaves the disposed transaction in the
field, and the retry ends at `BeginOnStaleField`. `WrittenIsRecorded` follows: every
committed write has its request id in the table. The mapping is named (`Applied`,
`Announced`, `Confirmed`) and `ReceiverNext` says what an abstract step is in these
names; `Executes` treats the commit, `Announces` the bus, `Answers` every step that
answers, `Unseen` all the others, and `StepMaps` puts them together.

**Loops.** The list of an order and the adapters of the script are gone through by
loops, which are folds in the models. `LeftFold` says what a fold is, for any step:
its step is a CONSTANT, and a module instantiates it with its own
(`INSTANCE LeftFold WITH Step <- Offer`). The induction it needs comes from the
library's theorem that a nonempty set of naturals has a minimal member
(`LeastNumber`, `Induction`). `FoldLeft` of the community modules is defined by a
recursive function over sets of positions; `IterExists` and `FoldIsIter` show that
there is such a function, and `FoldValues` that it is the loop.

**OrderAggregate, the lines.** `LInv` says what the lines are made of: a product has
one line, and has it exactly if an item of it was accepted (`ProductInv`); the line
carries the first price and, unless an int is too small, the sum of the units accepted
(`LineInv`) and, until an item is refused, their highest discount (`DiscountInv`); and
the order is worth its items. That each line is right does not make the total follow: a
merge changes one summand of one sum and appends one to another, so both are compared
through the lemmas about `Sum` (`SumAppend`, `SumChanged`). An accepted item never has
negative units, so if the units of a product fit an int now they did so before
(`UnitsNotNegative`): this is why the hypothesis of `TotalIsCombined` can stand inside
the invariant, and `Wrap` be the identity under it (`WrapFits`). `NewLineStep`,
`MergeStep` and `ThrowStep` are the three outcomes of `AddOrderItem`; once the order is
saved its lines are forgotten (`Empty`).

**OrderAggregate, the statuses.** `SInv` relates each loaded copy to what the mediator has been
given: with the events already dispatched or lost (`Known`) and those the copy has
raised (`Seen`), the flow has no gap (`Flow`) and the copy's status is explained (`Explained`). It is
needed because the properties speak of the row, while a gap would begin in a copy
that is stored much later, after other sessions have dispatched theirs, or after a
failed save has emptied its events. `DispatchStep` is the step all copies share;
`WrapType` and `LinesType` are the lemmas about the pure operators.

**StartUp.** `SeedInv` says what a host knows at each call: at the second table
the first one is filled, and after the seeder, without an exception, both are. The
point is the *second* run of the seeder's delegate, which begins with `table[h]`
where the failed run left it: it has a disposed context and can only throw, so
nothing need be known about it. `BothTables` is the lemma that turns "1 and 2"
into "all".

**EventBusRabbitMQ.** Four invariants build on one another.

* `Types`: the types, with the arguments of a call in progress (`ApiOK`), that the
  dictionary knows the type of every name with a typed handler unless it is just being
  registered (`TypedIsKnown`, inductive once no list has a handler twice), and that who
  works has a delivery in its pool (`Working`). `RemoveAtProperties` is the lemma about lists,
  `AddProperties` and `RemoveProperties` those about the dictionary's operations.
* `Calls`: what a call knows between its steps. A name at "add" is bound, a name at
  "unbind" has no handler left, and a bus that has forgotten its queue has no
  handlers and no call that could register one (`Bound`, `Emptied`).
  `SubscribedIsBound` is a conjunct and not inductive without the others.
* `Order`: the first channel. Tags grow along its pool, a tag stands for one
  delivery, and as long as nobody else closes a channel and the bus has its queue,
  all that is in the pool is unacknowledged (`First`, `InOrder`). Hence `BasicAck`
  finds exactly the delivery it means, the broker never closes the channel for a
  wrong tag, and the bus stays on its first channel: which is what
  `SubscribedIsConsumed` and `AckedAfterProcessing` need.
* `Snapshots`: the handlers a consumer still has before it, if their list has not
  changed, have their type, or it is on its way. A handler that throws on a missing
  type therefore does so in that one moment (`SkippedOnlyThen`).

**PersistentConnection.** `IInv` is mutual exclusion (`Exclusion`: inside
`TryConnect` beyond `Enter` is exactly the holder of the lock) and `Tended`: a
connection without handlers is one that a `TryConnect` is not done with or returned
false about. The number of connections is bounded by an account (`Paid`): those
created, the processes that are on their way to create one (`Pending`) and the lost
ones that have no handlers yet (`Lost`, each of which may still be told to a handler
attached too late) are together at most the calls and events so far. `Own` says why
the account holds: the connection a `TryConnect` works on is in nobody else's hands,
and nothing is closed on purpose before `Dispose`.

**UnobtrusiveValidation.** `Sound` relates the parts of the validator to each other
and to what is shown, and is kept by each of the plugin's functions
(`FormSound`, `ElementSound`, `SubmitSound`, `StopSound`, `AnswerSound`, `ResetSound`,
`FailureSound`), so that an event, a composition of them, keeps it. `Page` says that
a validator has rules of parsed fields only, `Rules` what is true of every rule set
the adapters make, `Answered` that a question the server approved is the last one
asked. `SentPassed` is the step at which a form is sent without an exception: nothing fails
and nothing is asked, so each remote question was asked before, with these very values,
and was approved. `Waits` is why no exception comes between an answer and the
submission it lets through: a submit that did not throw and in which nothing failed got
past every rule ahead of one without a method, which it would have met next
(`NoneMissing`), so a form that waits has none (`Whole`), and its rules never change.
`InterruptedSound` is the check that stops half-way.

The types of the form (`Typed`) need one fact about the rules: the parameter of a
remote rule is a list of names. `OfferHanded` shows that each adapter keeps it, the
one for remote rules because `additionalfields` is split into a list, the others
because they set other rules (`PlainOrRemote` goes through those the script
registers), and `RulesInRemote` carries it through the fold. `DataIsQuestion` then
says that what is sent is a list of values of the form or "undefined", and one lemma
for each function of the plugin that it keeps the shape of the validator.

**UnobtrusiveRules.** `Becomes(a, r, x)` says on its own what the annotation `a`
becomes: the rule `r` with the parameter `x`. `AdapterStep` shows that the adapter of
an annotation adds just these rules to those there are, `OfferedRules`, by induction
along the adapters, that every rule in the end is one of these, and that none is lost
unless two annotations become the same rule (`Disjoint`). `Means` compares each
annotation with the rules it becomes, method by method; `WholeMatch` is the one for
expressions: the search that `MatchesRegex` makes, from the left and by the first
alternative, finds the whole value exactly if the value is one of the alternatives.

What is assumed of an element (`Written`) is what ASP.NET writes: a limit is a number;
`minlength` has no upper limit, `maxlength` no lower one; `nonalphamin` is written only
if it is not zero (with zero the script would refuse a value without any such
character: `HasNonAlphas` asks for a match first); the other property of a comparison
is one of the same model, written with "*."; and no alternative of an expression begins
another one. Without the last, the first alternative found may be too short, for the
server and for the client alike: both then refuse what the expression, read as a set of
words, allows. `FieldAssumption` says that `additionalfields`, where there is one, is a
list of names, which `splitAndTrim` makes of any attribute.

**Only model-checked.** Liveness (`EveryRequestEnds`, `MessagesAreTaken`,
`LossIsMadeGood`, `EveryCallReturns`, `EveryHostRuns`) is outside what the prover
handles. The inductive invariants were each checked by TLC on the instances of the runs
before they were proved; of `Typed`, the range of list lengths was cut for that.

## 5. What is not modelled

* **Buyer.** `VerifyOrAddPaymentMethod` searches the methods of one buyer in memory,
  adds one or not, and raises an event. Only a unit test calls it; the sessions and
  handlers it would run among, on which what could go wrong depends (one card
  inserted twice, for instance), are not written.
* **Several API threads in the bus.** `ConfigureEventBus` in `Startup` is the only
  caller. With several, an unbinding could overtake a new binding.
* **Checkout.** `ToOrderItemDTO` has no caller, and the handler type that `Startup`
  subscribes has no class. The conversion keeps no state.
* JSON, wording, logging, `TimesSent`, addresses, draft orders; the parsing of the
  csv files (which rows a table gets plays no part in the protocol);
  `ResilientTransaction`, `SetBuyerId`, `SetPaymentId`, which have no caller.
* Of the browser: `equalto` fields in a form with its events, groups of fields, submit buttons that cancel validation, the
  page's own callbacks, and what the plugin does without the script.
* `Public`'s views, `ValuesController`, `IdentityService` and the composition code
  keep no protocol state; `site.js` is a comment. The tests were read as statements
  of what the code promises.
* Transient errors that EF's execution strategy hides during start-up.

What is external to the repository (SQL Server's locks, the broker, the RabbitMQ
client's work pools and recovery, ASP.NET Core's scopes, the orchestrator) is
modelled from how the code uses it and marked `external` in `map`.

## 6. How the parts fit together

The command pipeline publishes through the bus, the bus uses the persistent
connection, and the order aggregate runs inside the pipeline's `Save`. They are
modelled apart, and each says in its own module what it takes from the others:

* `CommandPipeline` sees of the bus a publication that succeeds or throws (`Publish`,
  `PublishFails`), which is what `EventBusRabbitMQ.Publish` with its retries comes to;
  of the order it sees whether the domain model throws (`Verdict`).
* `EventBusRabbitMQ` takes a connection as given; `PersistentConnection` says when
  there is one (`LossIsMadeGood`) and when there is none for good (`gaveUp`).
* `OrderAggregate` has the sessions that the pipeline's transactions are, without the
  transactions: `SaveFails` is the failed statement, and the retry that follows works
  on the same tracked copy, as the pipeline's does.

The compositions that are checked as such are the pipeline with its outbox and
idempotency, which is one module since they share a transaction, the bus with its
subscriptions manager, the order with its lines, the form with its adapters, and the
pipeline against the abstract receiver.
