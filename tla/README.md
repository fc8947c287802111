# sqs-go in TLA+

A TLA+ development of `github.com/vmyroslav/sqs-go`: a consumer for Amazon SQS that polls a queue with one
pool of goroutines, handles messages with another and shuts down gracefully. The modules are translated from
the Go code; TLC checks them on small instances, TLAPS proves every invariant and action property the runs check for
every value of the constants. Line numbers refer to the files under `consumer/`, unless a path says otherwise.

## 1. Inventory

| Part | State it keeps | Operations | Talks to |
|---|---|---|---|
| Poller (`poller.go`) | per call: a context with `cancel`, `errCh`, a wait group; per worker: `retryCount`, the batch being sent | `Poll`, `runWorker`, `backoff` | SQS (`ReceiveMessage`), the messages channel (sends, closes), its caller's context |
| Processor (`processor.go`) | per call: a wait group; per worker: the message in hand | `Process`, `processMessage` | the messages channel (receives), adapter, handler, acknowledger |
| Acknowledgers (`confirmer.go`, `confirmer_strategy.go`) | none | `Ack`, `Reject`, `calculateVisibilityTimeout`, `createAcknowledger` | SQS (`DeleteMessage`, `ChangeMessageVisibility`) |
| Consumer (`consumer.go`) | `mu`, `isRunning`, `isClosing`, `stopSignalCh` (capacity 1), `stoppedCh` for the life of the value; contexts, two error channels and the messages channel per `Consume` | `NewSQSConsumer`, `Consume`, `Close`, `IsRunning` | poller, processor, the callers' goroutines |
| Configuration (`config.go`, `observability/config.go`) | a value | `NewConfig`, options, `IsValid`, `NewConfig` of observability | the constructor |
| Middlewares (`middleware.go`) | one goroutine and channel per message in `TimeLimit` | `IgnoreErrors`, `PanicRecover`, `TimeLimit`, `MiddlewareAdapter`, observability | wrap the handler |
| Adapters (`adapter.go`) | none | `Transform` | called by the processor |
| Metrics (`observability/metrics.go`) | a `sync.Map` of instruments | `Counter`, `Histogram`, `Gauge`, `RecordDuration` | every component |
| Trace context (`observability/context.go`, `tracer.go`) | a pool of carriers | `ExtractTraceContext`, spans | the processor |
| Examples (`examples/*/main.go`) | the variable `err`, shared by `main` and the goroutine that waits for the signal | `main`, middlewares of their own | configuration, `Consume`, `Close` |
| SQS (external) | messages, receive counts, visibility timeouts | `ReceiveMessage`, `DeleteMessage`, `ChangeMessageVisibility` | poller, acknowledgers |
| Generated mock of the connector | - | - | tests only |

How they interact: `Consume` makes the messages channel (three slots per processor worker), derives two
contexts from the caller's, starts `Poll` and `Process` in goroutines of their own, and waits in one `select`
for the context, the stop signal and the two results. `Poll` closes the channel when it returns, and this
ends `Process` once the channel is drained. `Close` sets `isClosing`, sends the stop signal under the mutex and
waits for `stoppedCh` or its timer. `Consume`'s deferred function cancels both contexts and clears both flags.

What makes it hard: three layers of goroutines whose ends depend on each other (workers, `Poll`/`Process`,
`Consume`); selects with several ready cases; a bounded channel whose writer does not look at the context;
cancellation in the middle of a batch or of a message; calls to SQS that fail or come back after the context
ended; a mutex kept across a channel send; and state that lives as long as the consumer value (`stopSignalCh`,
`stoppedCh`) serving calls that come and go. Around them: visibility timeouts that run while a message waits, a handler
that a time limit leaves behind, panics in goroutines nobody recovers, caches filled by whoever comes first, integers that
overflow after many failures.

What makes each part correct:

- Poller: no message it received is lost, sent twice or sent after the close; its result says what happened; the
  context, and one worker's threshold, end the whole pool.
- Processor: every message taken is handled at most once and settled as its handler decided; `nil` under a
  live context means that everything is done; it ends.
- Consumer: one call runs at a time; the flags tell the truth; `stoppedCh` is closed after a complete drain and
  never twice; `Close` returns; `Consume` returns the error it met.
- Together: a shutdown reported complete leaves no message behind.
- Acknowledgers, middlewares and SQS: a message leaves the queue only when its handler has succeeded; two handlers work on one
  message only for a known reason; a panic ends the process only where nothing recovers it.
- Metrics and traces: one instrument for each name, no failed type assertion, no trace of another message.
- Configuration and examples: what validation accepts runs; a signal ends the process and the exit code says how.

## 2. Modules

| Module | What it models |
|---|---|
| `Poller` | one `Poll` call; the reader of the channel and the caller's context are its environment |
| `Processor` | one `Process` call with its acknowledger; the writer of the channel and the context are its environment |
| `Lifecycle` | `Consume`, `Close`, `IsRunning` on one consumer value; any number of calls |
| `StopSignals` | `Lifecycle` with a record of the call each stop signal was sent to |
| `Delivery` | abstract: what a `Consume` call promises about messages |
| `SQSConsumer` | one `Consume` call: `Lifecycle`, `Poller` and `Processor` joined; implements all three and `Delivery` |
| `RetryTiming` | the two delays that double, as sets of possible values: `backoff` and `calculateVisibilityTimeout`, with the receive count it starts from |
| `Redelivery` | the way of a message through SQS and back: `Processor`'s workers, acknowledgers, middlewares, visibility timeouts, crash and restart |
| `Instruments` | `getOrCreateInstrument` under concurrent first uses |
| `TraceCarriers` | `ExtractTraceContext` and its pool |
| `Observability` | the two above as the workers of both pools and the goroutines in `Consume` use them |
| `Config` | both `Config` types: defaults, options, validation, the buffer size |
| `Application` | the examples' `main`: `Config`, `Lifecycle` and `RetryTiming` with a signal and an exit code |
| `MC*` | the same modules with symmetry sets or sets of inputs for TLC |
| `PollerProofs`, `ProcessorProofs`, `LifecycleProofs`, `SQSConsumerProofs`, `RedeliveryProofs`, `ObservabilityProofs`, `ApplicationProofs` | the theorems about the module they are named for; `SQSConsumerProofs` also about `Delivery`, `ObservabilityProofs` about its two parts, `ApplicationProofs` about `Config` |
| `DataLemmas` | facts they share: sequences, induction on numbers, the delays of `RetryTiming` |

Definitions that begin with "Mutant:" are not part of the specifications: each is a plausible wrong version of
the action that follows it, kept to show that some property notices.

### Poller

A worker's place in `runWorker` is `pollerPc`: `check` (top of the loop), `receiving`
(inside `ReceiveMessage`), `backoff` (asleep), `sending` (at `ch <- msg`), `done`. The atomic steps are the points where
another goroutine can interfere: the check of the context, the outcome of the call, each send. A delivery is
one hand-over of a message by SQS; deliveries are numbered in the order they are issued, and payloads do not
exist. `parentCtx` is the set of causes that ended the caller's context: Go reports the first, the model allows either,
because a deadline is counted as a failure (`poller.go:123`) and a cancellation is not. A reply may succeed after the
context ended. `errCh` is the set of workers that reported: each sends at most once, and the channel has
room for all. `ErrorNumberThreshold = 0` stands for every value that disables the threshold. The length of the
backoff does not appear here (`RetryTiming` has it); `WakeUp` is possible at any time. `PollReturns` includes the deferred `close(ch)` and `cancel()`.

### Processor

`procPc` is `select`, the stages of `processMessage` (`transform`, `handle`, `ack`, `reject`) and `done`. Each
stage has a step for every outcome. The handler with its middlewares is one step with two outcomes here; `Redelivery` opens it.
`handling` records what became of a delivery in the program, `queue` what our calls made of it in SQS:
`hidden` (its visibility timeout runs), `deleted`, `visible` (timeout set to 0) or `delayed`. With the context over, both
cases of the select are ready and either is taken.

### Lifecycle

`consume[c]` follows a call: `idle`, `select`, `drainPoller`, `drainProcessor` (the two receives after the stop
signal), `deferred`, `locking` (the deferred `c.mu.Lock()`), `returned`. The mutex is a variable only for the one
section that can block inside it, `Close` between its check and its send (`mu = k`, `close[k] = "sending"`); other
critical sections are single steps that need `mu = NoOne`. The first lines of `Consume` (contexts,
channels) touch nothing shared and are part of `StartConsume`/`RefuseConsume`; starting the goroutines a
little after the unlock is not visible to anyone, because nobody else can see the call's channels. A panic of
`close(c.stoppedCh)` is the result `panic`; the deferred function runs then as well. `PollMayReturn` and `ProcessMayReturn` say
when the two goroutines may report; `SQSConsumer` shows that the real ones obey.

A signal in `stopSignalCh` carries nothing: whoever is in its select takes it. `StopSignals` EXTENDS `Lifecycle` with two history
variables, `sentTo` (the calls that were running when the signal was sent) and `stoppedBy` (the same of the signal that stopped a
call), so that `StoppedOnlyWhenAsked` can tell the signal of a call's own `Close` from one that an earlier call left behind.
`Record` follows every step of `Lifecycle` and forbids none.

### SQSConsumer and Delivery

`SQSConsumer` INSTANCEs the three components over shared variables: `buf` and `taken` belong to both ends of the
channel, `poller[run]` and `processor[run]` are the results of `Poll` and `Process`, the poller's parent context is the
call's context plus `cancelPoller`, and the processor's is the call's context plus `cancelProcess`. Every step is a step of
one or two components with the rest unchanged. The refinement to `Delivery` maps a
delivery to `unseen` (not issued), `held` (in a batch, the channel or a worker's hands) or `finished`.

### RetryTiming and Redelivery

The unit of time is 100 ms, the base delay of both formulas; `Longest` stands for every duration far above each limit. A
`float64` beyond the range of `int64` (from 2^37 times the base delay on) converts to a value that depends on the
processor, so `Delay` is a set: the most negative value or the largest.

`Redelivery` uses `Processor`'s actions for the select, the channel and `Transform`, and refines the rest. For each message it has
what SQS knows (`visibility`, `receiveCount`), for each delivery which message it is (`messageOf`), the receive count it was made
with (`attempt`), what a `Reject` asked for (`asked`) and whether its visibility timeout ran out in the program (`timedOut`). The handler has a life of its own
(`handler`, `outcome`), because with `TimeLimit` (`middleware.go:44`) it runs in a goroutine that outlives the
worker's interest in it. A stack of middlewares is a list outside a time limit, the limit or none, and a list inside;
`Through` takes a result from the innermost to the outermost. A panic that nothing on its side of the limit recovers sets `crashed`;
`Restart` is a new process: the queue is what it was, everything the old one held is gone. `AckFails` covers a lost answer: the delete may
have taken effect. A delete with a receipt that is not the latest may or may not. `sameQueue` is FALSE when `cfg.QueueURL`
is not the URL given to `Consume` (`consumer.go:218`, `:98`). Both middlewares of `examples/json` are among the stack's.
`MiddlewareAdapter` has both its outcomes: `adapted` hands the message on, as the logging middleware of `examples/json` does; `replacing`
hands on something of another type, so that the assertion fails, no handler is called and the error goes back through the stack
(`middleware.go:79`, the action `Unexpected`). The exponential rejector starts from `ReceiveCount`, which is 1 for an attribute that is missing or no
`int32` (`confirmer.go:109`). The poller asks SQS for all system attributes, so `attempt` is always a number here.

### Instruments, TraceCarriers and Observability

`metricPc` follows one call of `getOrCreateInstrument`: `LoadOrStore`, `Do` (one caller of the `sync.Once` runs the factory, the others
wait), `Create` (the result replaces the Once in the map), `Leave`, `Load` and the type assertions. A factory's error has
the result type of its kind and is no case of its own. `TraceCarriers` has the pool, the attributes each carrier was reset
to, and the propagator's reads key by key, with the deferred `Put` after them. `Observability` EXTENDS both: a worker of the processor extracts
the trace and then records, in the code's order, what `Transform`, `Handle` and `Ack`/`Reject` record; one of the poller records a poll
and its messages. `Consume`'s goroutine records the gauges of the active workers and of the buffer before it starts the two pools (`consumer.go:201`), and
those of the workers again in the deferred function (`:179`), where a refused call records too and workers may still be at work. These
are all eight names of `observability/metric_options.go`. A failed assertion stops everything: it is a panic in a goroutine that nothing recovers.

### Config and Application

`Config` folds options over the defaults; sizes are integers of `Width` bits and `Int32` is the conversion. An
`observability.Config` is one that its `NewConfig` can make (`MadeObservabilities`, with a nil propagator or not) or the zero value
`&observability.Config{}`, the only other one a program can have, since the fields are unexported. `WithObservability` takes both; `HasProviders` is what `NewTracer` and `NewMetrics` need
(`consumer.go:91`), or `NewSQSConsumer` panics (`Prepare`). `Application` is `main` of the
examples: `NewConfig` from constants or, converted from `int`, from the environment, `Consume` with a context that never ends, and
a goroutine that calls `Close` after a signal. Both assign the same `err`: a data race, so each assignment and the test of `err`
are separate steps in any order. `Consume` and `Close` are `Lifecycle`'s actions with one call of each. One worker of
the poller is followed through its failures, so that the pause `backoff` gives is tied to the count that the threshold stops. `PollReturns` has the panic of `make(chan error, poolSize)` for a negative
pool (`poller.go:53`), which only the validation keeps out of reach.

## 3. Runs

| Run | Instance | Question |
|---|---|---|
| `poller` | 2 workers, threshold 2, batches of 0-2, channel of 2, 5 deliveries | messages forwarded exactly once, none after the close; results justified; cancellation and the threshold end `Poll` |
| `processor` | 2 workers, `immediate`, channel of 2, 3 deliveries | settlement, at-most-once handling, nothing abandoned, `nil` means drained; `Process` ends |
| `lifecycle` | 2 `Consume` (overlapping allowed), 2 `Close` | results true, `stoppedCh` only after a clean drain, one stop per `Close`; what makes the flags wrong and a shutdown panic, whose signal stops a call |
| `consumer` | 1 poller worker, 2 processor workers, channel of 2, batches of up to 2, 3 deliveries | refinement of `Lifecycle`, `Poller`, `Processor` and `Delivery` |
| `consumer_live` | 2 poller workers, 1 processor worker, channel of 1, 2 deliveries, fair | what ends, and what may not |
| `redelivery` | 1 message, 2 deliveries, 2 workers, `exponential`, 6 stacks, 3 first receive counts, one or two queue URLs, fair | what deletes a message, what handles it twice at once, what ends the process, what a reject asks for, whether a time limit frees the worker |
| `observability` | 2 `Consume`, 1 worker of each pool, batches of 0-1, 1 carrier, no traces; or 1 `Consume`, 2 processor workers, 2 carriers, messages with a trace or without | one instrument per name, no failed assertion, no foreign trace |
| `application` | 18 programs (3 of them the examples), 17-bit integers, 40 failures in a row, fair | validation, overflow, the backoff beyond it, a signal at any moment, the exit code |
| `find_*` | the smallest instance that shows it | the disagreements of section 5 |

Why the bounds are enough. Two workers show every interference between workers, since workers
share only the channel, the context and `errCh`. Five deliveries with batches of two and a channel
of two let a worker block in the middle of a batch while the other holds one too. A threshold of two has a
failure below it and one at it, and a success that resets the count. Two `Consume` and two `Close` calls are what
leftover state needs: one pair leaves it, the other finds it. `find_overlap` needs three calls (one runs, one is
refused, one slips through). In the composition the channel is smaller than in the code (three slots per processor worker)
so that it fills up within few deliveries: a full channel is what the shutdown has to cope with, and three deliveries
between two slots and two processor workers reach every combination of waiting, held and blocked. `MaxDeliveries` and `MaxRetries` bound the counters of the model only: at the bound SQS returns
empty batches, or calls no longer fail without reaching the threshold.

In `redelivery` two deliveries of one message are the shortest history with a stale receipt, an overlap and a growing timeout; the first counts 4, 18
and 36 put them on both sides of each limit of `VisibilityTimeout` (more than two seconds at 6, refused by SQS at 20,
overflow at 38), and the stacks put each middleware on either side of a limit. In `observability` the messages may go on for ever: the
state is finite because what has been recorded is forgotten; all five
goroutines at once are beyond TLC, so each behaviour of `MCObservability` moves one of two groups: in the first the two `Consume` calls and the two workers record
some names in pairs, in the second two workers share the pool of carriers, which nobody else uses. In
`application` 40 failures reach past the overflow at 37, and 17 bits stand for 32: the smallest width with which
43200 and the pool sizes of the code are numbers. `Refuse` stands for every failure of `main` before the signal is awaited.

Deadlock is checked for `poller`, `processor` and `observability`. It is switched off where the system really can
stop: two `Consume` calls (`find_close_stuck`, and so `lifecycle`), the composition (`find_shutdown_hang`), a handler
that never ends with its message deleted (`redelivery`), a process that has ended (`application`).

Symmetry is used in `lifecycle`, `consumer` and `observability`, which check safety properties only.

Fairness. Every goroutine is scheduled, so each has weak fairness on its steps. `ReceiveMessage`, `Transform`, `Handle`, `Ack` and
`Reject` come back, with an outcome left open: the code sets no time limit of its own, so this is an assumption about
SQS, the SDK and the handler. `Redelivery` does without it for the handler: `HandlerEnds` is not fair there, and only the limit's timer
is. Sleeps and `Close`'s timer end. In `Poller` the reader of the channel is assumed to go on receiving; in `SQSConsumer` it is
not, it is the real processor. `Application` assumes that a cancelled `Poll` and a `Process` with its channel closed return. Nobody is assumed to call
anything, to send a signal or to end a context. Weak fairness is on a worker as
a whole: which case of a select is taken, or which outcome a call has, is never forced.

## 4. Proofs

`tlapm` proves every theorem for any finite or infinite pools (finite numbers of calls, and a finite pool of processors in the composition), capacities, thresholds and
batch sizes, from the named assumptions of the modules. Most of them (`PollerAssumption`, `ProcessorAssumption`, `LifecycleAssumption`, `InstrumentsAssumption`, `TraceAssumption`,
`ObservabilityAssumption`, `SQSConsumerAssumption`) only say what kind of value each constant is. Three say something about the code:
`ConfigAssumption` lets `Width` be 17 to 32 bits (32 in the code, 17 for TLC; less could not hold 43200), and that `nil` is not the name of a provider;
`ApplicationAssumption` gives the options the types of the parameters of the `With` functions (`config.go:82-143`), which Go's compiler checks; and `RedeliveryAssumption` names the
three strategies, because `createAcknowledger` treats every other string as `sync`.

- `DataLemmas`. The library's induction theorems cannot be instantiated here, but that every set of numbers has a least element (`WFMin`) can be cited for a set, and gives
  `Induction`: a set of numbers with 0 that is closed under successor is all of them. With it the proofs about recursive functions and folds are made: one first shows by induction that
  the function a recursive definition CHOOSEs exists, then what it computes. The powers of two are those up to 2^24, where `RetryTiming` stops counting: `PowersBounded`, and from it
  `DelayIs`, `TimeoutsGrow` and `TimeoutIsLong` about the two delays, for every count.
- `PollerProofs`. `SafetyInv` = types, the batch of a worker is non-empty exactly while it sends, all workers are done once
  `Poll` has returned, and the reason a worker had to leave (`ReasonsToLeave`): this is what `ResultIsJustified` needs, because
  `Poll` looks only at `errCh`. `SendBeforeClose` and `ResultJustified` follow. `Forwarding` is a second
  induction on top: `NothingLostOrDuplicated` is inductive given `SafetyInv`, with one lemma per kind of move (new batch,
  head of a batch to the channel, head of the channel to the reader) resting on `DataLemmas`.
- `ProcessorProofs`. `SafetyInv` = types, the channel holds only fresh deliveries, a delivery is in at most one
  worker's hands, the worker's stage matches `handling`, and why a worker is done. `Settlement` and `NothingAbandoned` are
  conjuncts; `Drain` needs the reasons to leave; `HandledOnce` is an action property from `StageMatches`.
- `LifecycleProofs`. `SafetyInv` = types, an idle call owns nothing, error channels hold what their goroutine returned, a result is
  chosen once and on leaving, `Process` returned `nil` for a reason, a `Close` that saw the stop saw `stoppedCh`. `ResultIsJustified` for a `nil`
  that comes from the processor needs `ProcessorHasReason` and that `cancelProcess` is called only after the choice.
  `FlagInv` adds the flags: they match the calls until a refused call has cleared them (`FlagsTruthful`), a `Close` at its send has announced itself
  (`SendsAnnounced`), and `stoppedCh` was first closed by a call that returned `nil` (`FirstShutdownSafe`). `StopsAnnounced` is about `StopSignals`: while the flags match there is one running
  call, so each signal, in the channel or taken, was sent to exactly one; that call has returned, or it is the one that takes it, and then its `Close` is still announced (`RecordInv`).
  `OneStopEach` is an induction over cardinalities: each step that starts a drain takes a signal out, and each signal put in adds a `Close` to those that have sent.
- `ObservabilityProofs`. For the instruments, the invariant ties the map, the Once and the callers of a name: only one caller is inside the Once, the map has
  a result exactly when the factory was called, and the result is of a kind the program records under that name (any of the eight). For the carriers: one in use is in one worker's hands and not in the pool, so what is read of it is what it was
  reset to (`OwnTraceExtracted`). The composition keeps the specifications of both its parts
  (`PartsImplemented`), and all that a goroutine still has to record, `Consume`'s included, is among the eight `KnownUses`, where no name has two kinds (`NoClash`): so the type assertions of the cache
  hold (`NeverPanics`), and the parts' theorems hold of `Observability`.
- `SQSConsumerProofs`. The refinements, by step simulation. The invariant is the conjunction of the three components' invariants, each instantiated
  with what the composition puts in the place of its environment. Given it, every step of `SQSConsumer` is a step of
  `Lifecycle`, of `Poller` and of `Processor`, or leaves their variables alone (`LifecycleStep`, `PollerStep`, `ProcessorStep`): a `Poll` that returns `nil` does so
  when `Lifecycle` allows it because of the poller's `ReasonsToLeave`, and a message sent is fresh for the processor because of
  `NothingLostOrDuplicated`. So the components' own lemmas preserve the invariant, and nothing is proved twice. `DeliveryStep` then maps
  each step to the contract; the one that matters, `DrainProcessor` to `ReportStopped`, needs all three invariants: the processor returned `nil` and is not
  cancelled, so the channel is closed and empty and no worker holds anything; the poller has returned, so no batch is left; and
  everything issued is in one of these places. `StoppedHoldsNothing` is inductive in the contract together with its types, and so `ShutdownLeavesNothing` holds of the consumer.
- `RedeliveryProofs`. A step of `Redelivery` other than a restart is a step of `Processor` or leaves its variables alone (`ProcessesAsProcessor`), so the processor's own lemmas
  preserve what is needed of it: the channel holds fresh deliveries, each is in one worker's hands (`ProcessorInv`; a restart establishes it anew). On top of it `SafetyInv` has what
  relates the program to the queue:
  - `IssuedInOrder`: deliveries are numbered as they are issued, and the program knows only issued ones;
  - `OutcomeWhenEnded` and `StageDecided`: a worker is about to acknowledge only with a handler's success or `IgnoreErrors`, and to reject a success only because of the time limit or
    `timeTracking`. The step is `Result`, which takes an outcome through the stack: what a list of any length makes of it is `FailureStays`, `SuccessStays` and `ResultStays`, by induction over the list; an adapter
    that stops a message (`Unexpected`) starts from an error;
  - `AskedIsLetGo`: no worker holds a delivery whose reject has succeeded; `HiddenUntilTimeout`: the message of a delivery cannot be received again before the timeout ran out or the reject
    succeeded. `OverlapHasCause` follows from the two: an earlier delivery still being handled has not been rejected by its worker, unless a time limit made the worker let go;
  - `DeletedForGood`: what `SettledByOutcome` says of a message, which a late `AckFails` or a stale receipt may delete too;
  - `CountsGrow` and `AskedIsAccepted`: later deliveries have higher receive counts, and what was asked for is one of the values of `VisibilityTimeout` for the count (`CountsAreTaken`: a count of SQS is taken as it is), accepted by SQS.
    `RejectsSpaceOut` follows with `TimeoutsGrow` and `TimeoutIsLong`, for every receive count.
- `ApplicationProofs`. Every step is one of `Lifecycle` or leaves its variables alone (`RefinesLifecycle`), so `Lifecycle`'s invariants hold and its lemmas preserve them. `AppInv` adds, for the one call and
  its `Close`: `CallExplained` (without a stop signal the call leaves its select only over an error of the poller; a `nil` means a clean drain or a poller that gave up),
  `MainFollowsCall` (`main` is where the call is, and calls with a valid configuration) and `ErrExplained` (whoever stored `err` last, it tells how things ended: this, and not
  `ExitTellsOutcome`, is inductive, because `Close`'s goroutine may still overwrite `err` before the exit). `ValidConfigRuns` needs that configurations are typed:
  `ConfigTyped`, by induction over the options (`ConfigureTyped`), as in `NoNilProvider`, which shows that only the zero observability configuration has a nil provider; `PollHasPool` says that a
  poller that runs has workers; `NegativeBuffer` is the arithmetic of the overflow in `Width` bits.
  `BackoffPaces` is inductive with `PauseIs`, which says what `Pause` contains for every number of failures.

Proved this way: every invariant of every run that passes, the action property `HandledAtMostOnce` and the refinements. Only model-checked: everything temporal beyond safety
(`CancellationEndsPoll`, `ThresholdEndsPoll`, `CloseEndsProcess`, `ContextEndsProcess`, `CloseReturns`, `PollerLeaksOnlyWhenFull`, `ShutdownEnds`, `LimitFreesWorker`,
`SignalEndsProcess`), because liveness under fairness is out of the prover's reach.

## 5. Where the code does not do what it says

| Run | What happens |
|---|---|
| `find_overlap` | A refused `Consume` clears `isRunning` of the running one (the deferred function at `consumer.go:169` is registered before the gate); a third call runs beside the first. |
| `lifecycle` | The second graceful shutdown of one consumer value closes `stoppedCh` again and panics (`consumer.go:244`). Before that, its `Close` returns `nil` in the middle of the drain, because `stoppedCh` is closed already (`:290`). The run reaches the panic; `PanicOnlyOnSecondShutdown` says that nothing else does. |
| `find_close_stuck` | A leftover stop signal makes `Close` block in its send with the mutex held, `Consume` waits for the mutex: both hang, and the timeout has not started (`consumer.go:285`). |
| `find_poller_error_lost` | The poller's error and the processor's `nil` are ready together and `Consume` may return `nil` (`consumer.go:251`). In the same way an ended context can be answered with `nil` instead of `ctx.Err()`. |
| `find_shutdown_hang` | The context ends during a graceful shutdown while a poller worker is blocked on the full channel: `Consume` never returns (`consumer.go:231`). Without a shutdown the same block leaks the poller after `Consume` has returned; `PollerLeaksOnlyWhenFull` shows that it is the only way it leaks. |
| `redelivery` | The exponential rejector takes the larger of the delay and `maxDelay` (`confirmer.go:117`): never less than two seconds where its test writes down 0, and from the 20th receive more than SQS accepts. `RejectsSpaceOut` states what the code does. |

Further behaviours are in the models without being forbidden by a property:

- a second `Close` returns `nil` at once while the first is waiting or after it timed out (`consumer.go:275`), and a `Close` whose
  signal was not the reason `Consume` returned reports a timeout although the consumer has stopped (`:294`);
- a signal between `signal.NotifyContext` and the gate of `Consume` is lost: `Close` finds nothing to close (`examples/simple/main.go:64`);
  `SignalEndsProcess` starts after it;
- the result of `Close` can take the place of `Consume`'s in the examples' `err` (`examples/simple/main.go:68`); `ExitTellsOutcome`
  says what the exit code is still worth;
- the time tracking middleware of `examples/json` turns success into an error (`examples/json/main.go:139`): with it nothing is deleted;
- three configurations pass `IsValid` and panic: `&observability.Config{}`, whose providers are nil, in `NewSQSConsumer` (`consumer.go:91`); a processor pool above a
  third of the largest `int32`, which makes the size of the channel negative, in `Consume`; `WithPropagator(nil)`, which is kept, at the first message.
  `ValidConfigRuns` says that no others do (a channel too large for the memory is not modelled);
- a stop signal that its call did not take stops the next call (`consumer.go:226`): `StoppedOnlyWhenAsked` names it as a cause and does not forbid it, as nothing written says what should become of it;
- a message that cannot be transformed is neither acknowledged nor rejected (`processor.go:96`), and with a `cfg.QueueURL` that is not the URL given to `Consume` nothing is
  settled at all (`consumer.go:218`);
- from the 37th failure in a row on the backoff may be no pause at all (`poller.go:192`); `BackoffPaces` says that it is never before.

## 6. Not modelled, and the plan

Left out for good: payloads and their conversion (`adapter.go`), log texts, metric values and attributes, spans and
their options, the service name and version, `Set` and `Keys` of the carrier (the consumer does not call them), dead-letter queues
and the order of messages, the exporters, the metrics server and the pace of the producers in the examples, the generated mock of
the connector.

What is left of the plan:

1. `Redelivery` with the real poller in front of it: receives in batches, two messages, and a time to live in the channel.
2. The safety core of the liveness properties as invariants with proofs: in a state where a goroutine has not ended, it can move or waits for another that can, with the
   exceptions of `find_close_stuck` and `find_shutdown_hang`.

The modules are written for this: parameters are CONSTANTS with named assumptions, each operation is one action, no
RECURSIVE operator is used, and the compositions reuse the components' actions by INSTANCE or EXTENDS.

## 7. Running

    tlc -config MCPoller.cfg MCPoller        # likewise the other cfg files, with the module of the same name
    tlc -config MCSQSConsumerLive.cfg MCSQSConsumer
    tlc -config FindOverlap.cfg MCLifecycle  # FindCloseStuck too; the other two are MCSQSConsumer's
    tlapm PollerProofs.tla                   # likewise the other *Proofs modules and DataLemmas

With two workers, `consumer`, `consumer_live`, `redelivery` and `observability` take one to three minutes, the other runs
seconds. `SQSConsumerProofs` and `RedeliveryProofs` take about two minutes, the other proofs less.
