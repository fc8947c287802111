----------------------------- MODULE Application -----------------------------
(***************************************************************************)
(* A program around the consumer, as the repository's examples are         *)
(* (examples/simple, examples/json and examples/observability, main.go):   *)
(* it makes a Config, calls Consume once with a context that never ends    *)
(* and has a goroutine call Close when SIGINT or SIGTERM arrives.  Both    *)
(* goroutines keep their error in the same variable.  One worker of the    *)
(* poller, the one whose receives fail most often in a row, is followed    *)
(* through its pauses; the rest of Poll and Process is Lifecycle's.        *)
(***************************************************************************)
EXTENDS Config, RetryTiming

CONSTANTS
  Programs,      (* records of a url and the options it is given           *)
  MaxFailures    (* bound: receives that fail in a row                     *)

ASSUME ApplicationAssumption ==
  /\ Programs \subseteq [url : STRING, options : Seq(Options)]
  /\ Nil \notin Observabilities

VARIABLES
  mu, isRunning, isClosing, stopSignalCh, stoppedCh, consume, result, ctx,
  pollerCanceled, processCanceled, poller, pollerErrCh, processor, processErrCh,
  close,
  config,        (* the Config made of the options                         *)
  mainPc,        (* "start", "ready", "consuming" or "returned"            *)
  signalled,     (* SIGINT or SIGTERM has arrived                          *)
  hookDone,      (* the goroutine has stored what Close returned           *)
  err,           (* the variable err that both assign: nil or an error     *)
  exit,          (* how the process has ended, "none" while it runs        *)
  retryCount,    (* of the poller's worker                                 *)
  pause          (* what it sleeps, or slept last                          *)

Main == "main"
Hook == "hook"

L == INSTANCE Lifecycle WITH
       Calls <- {Main}, Closers <- {Hook}, PollResults <- {"nil", "error"},
       ProcessResults <- {"nil", "error"}, Causes <- {}, Overlapping <- FALSE,
       NoOne <- "noOne"

lifecycleVars ==
  <<mu, isRunning, isClosing, stopSignalCh, stoppedCh, consume, result, ctx,
    pollerCanceled, processCanceled, poller, pollerErrCh, processor, processErrCh, close>>
programVars == <<mainPc, signalled, hookDone, err, exit>>
retryVars == <<retryCount, pause>>
vars == <<lifecycleVars, config, programVars, retryVars>>

(* The options of the examples; the third takes them from its environment, *)
(* as int, and converts each to int32.                                     *)
SimpleOptions ==
  << <<"ProcessorWorkerPoolSize", 10>>, <<"PollerWorkerPoolSize", 2>>,
     <<"MaxNumberOfMessages", 10>>, <<"WaitTimeSeconds", 2>>,
     <<"VisibilityTimeout", 10>>, <<"ErrorNumberThreshold", 0>> >>

JSONOptions == Append(SimpleOptions, <<"GracefulShutdownTimeout", 1>>)

ObservabilityOptions(env) ==
  << <<"ProcessorWorkerPoolSize", Int32(env.ProcessingWorkers)>>,
     <<"PollerWorkerPoolSize", Int32(env.PollingWorkers)>>,
     <<"MaxNumberOfMessages", Int32(env.MaxMessages)>>,
     <<"WaitTimeSeconds", Int32(env.WaitTimeSeconds)>>,
     <<"VisibilityTimeout", Int32(env.VisibilityTimeout)>>,
     <<"ErrorNumberThreshold", 0>>,
     <<"GracefulShutdownTimeout", Int32(env.ShutdownTimeout)>>,
     <<"Observability", NewObservability(<< <<"tracerProvider", "otel">>,
        <<"meterProvider", "otel">>, <<"propagator", "global">> >>)>> >>

-----------------------------------------------------------------------------
(* main *)

(* NewConfig refuses the options, or a later step before the signal is     *)
(* awaited fails, such as the first messages: panic or log.Fatalf.         *)
Refuse ==
  /\ mainPc = "start"
  /\ exit' = "refused"
  /\ UNCHANGED <<lifecycleVars, config, mainPc, signalled, hookDone, err, retryVars>>

(* NewConfig accepts the options, NewSQSConsumer makes the tracer and the  *)
(* metrics, or panics for want of a provider, signal.NotifyContext is      *)
(* called and the goroutine started.                                       *)
Prepare ==
  /\ mainPc = "start"
  /\ IsValid(config)
  /\ IF HasProviders(ObservabilityOf(config))
        THEN mainPc' = "ready" /\ UNCHANGED exit
        ELSE exit' = "panicked" /\ UNCHANGED mainPc
  /\ UNCHANGED <<lifecycleVars, config, signalled, hookDone, err, retryVars>>

(* Consume: make(chan, bufferSize), the gate and the two goroutines.       *)
CallConsume ==
  /\ mainPc = "ready"
  /\ IF BufferSize(config) < 0
        THEN exit' = "panicked" /\ UNCHANGED <<lifecycleVars, mainPc>>
        ELSE L!StartConsume(Main) /\ mainPc' = "consuming" /\ UNCHANGED exit
  /\ UNCHANGED <<config, signalled, hookDone, err, retryVars>>

(* err = sqsConsumer.Consume(...)                                          *)
StoreResult ==
  /\ mainPc = "consuming"
  /\ consume[Main] = "returned"
  /\ mainPc' = "returned"
  /\ err' = IF result[Main] = "nil" THEN "nil" ELSE "error"
  /\ UNCHANGED <<lifecycleVars, config, signalled, hookDone, exit, retryVars>>

(* err != nil decides about the exit code; the goroutine may have assigned *)
(* its own result in between.                                              *)
Exit ==
  /\ mainPc = "returned"
  /\ exit' = IF err = "nil" THEN "ok" ELSE "failed"
  /\ UNCHANGED <<lifecycleVars, config, mainPc, signalled, hookDone, err, retryVars>>

-----------------------------------------------------------------------------
(* The signal and the goroutine *)

(* Before signal.NotifyContext it kills the process; afterwards one more   *)
(* signal changes nothing.                                                 *)
Signal ==
  /\ ~signalled
  /\ signalled' = TRUE
  /\ exit' = IF mainPc = "start" THEN "killed" ELSE exit
  /\ UNCHANGED <<lifecycleVars, config, mainPc, hookDone, err, retryVars>>

CallClose ==
  /\ signalled
  /\ mainPc # "start"
  /\ L!CloseReturnsEarly(Hook) \/ L!AnnounceClose(Hook)
  /\ UNCHANGED <<config, programVars, retryVars>>

(* Mutant: the goroutine ends the process when Close has returned.         *)
ExitAfterClose ==
  /\ ~hookDone
  /\ close[Hook] \in {"early", "stopped", "timeout"}
  /\ hookDone' = TRUE
  /\ exit' = "ok"
  /\ UNCHANGED <<lifecycleVars, config, mainPc, signalled, err, retryVars>>

(* err = sqsConsumer.Close()                                               *)
StoreCloseResult ==
  /\ ~hookDone
  /\ close[Hook] \in {"early", "stopped", "timeout"}
  /\ hookDone' = TRUE
  /\ err' = IF close[Hook] = "timeout" THEN "error" ELSE "nil"
  /\ UNCHANGED <<lifecycleVars, config, mainPc, signalled, exit, retryVars>>

-----------------------------------------------------------------------------
(* The consumer *)

Receiving == poller[Main] = "running" /\ ~pollerCanceled[Main]

GivesUp == config.ErrorNumberThreshold > 0 /\ retryCount + 1 >= config.ErrorNumberThreshold

(* A receive of the followed worker fails and it sleeps.                   *)
ReceiveFails ==
  /\ Receiving
  /\ ~GivesUp
  /\ retryCount < MaxFailures
  /\ retryCount' = retryCount + 1
  /\ pause' \in Pause(retryCount + 1)
  /\ UNCHANGED <<lifecycleVars, config, programVars>>

ReceiveSucceeds ==
  /\ Receiving
  /\ retryCount' = 0
  /\ pause' = 0
  /\ UNCHANGED <<lifecycleVars, config, programVars>>

(* Poll makes errCh of the size of its pool, which panics for a negative   *)
(* one; it returns an error for an empty pool or a worker at the threshold.*)
PollReturns ==
  /\ IF config.PollerWorkerPoolSize < 0
        THEN /\ poller[Main] = "running"
             /\ exit' = "panicked"
             /\ UNCHANGED lifecycleVars
        ELSE /\ \/ L!PollMayReturn(Main, "nil") /\ L!PollReturns(Main, "nil")
                \/ /\ config.PollerWorkerPoolSize = 0 \/ GivesUp
                   /\ L!PollReturns(Main, "error")
             /\ UNCHANGED exit
  /\ UNCHANGED <<config, mainPc, signalled, hookDone, err, retryVars>>

(* Process returns an error for an empty pool, or a negative one.          *)
ProcessReturns ==
  /\ IF config.ProcessorWorkerPoolSize < 1
        THEN L!ProcessReturns(Main, "error")
        ELSE L!ProcessMayReturn(Main, "nil") /\ L!ProcessReturns(Main, "nil")
  /\ UNCHANGED <<config, programVars, retryVars>>

(* p.Extract of a nil propagator, at the first message.                    *)
MessagePanics ==
  /\ processor[Main] = "running"
  /\ ObservabilityOf(config).propagator = Nil
  /\ exit' = "panicked"
  /\ UNCHANGED <<lifecycleVars, config, mainPc, signalled, hookDone, err, retryVars>>

ConsumeStep == L!ConsumeStep(Main) /\ UNCHANGED <<config, programVars, retryVars>>
CloseStep == L!CloseStep(Hook) /\ UNCHANGED <<config, programVars, retryVars>>
Report ==
  /\ L!ReportPoll(Main) \/ L!ReportProcess(Main)
  /\ UNCHANGED <<config, programVars, retryVars>>

Init ==
  /\ L!Init
  /\ \E program \in Programs : config = NewConfig(program.url, program.options)
  /\ mainPc = "start"
  /\ signalled = FALSE
  /\ hookDone = FALSE
  /\ err = "nil"
  /\ exit = "none"
  /\ retryCount = 0
  /\ pause = 0

MainStep == exit = "none" /\ (CallConsume \/ ConsumeStep \/ StoreResult \/ Exit)
HookStep == exit = "none" /\ (CallClose \/ CloseStep \/ StoreCloseResult)
PollStep == exit = "none" /\ PollReturns
ProcessStep == exit = "none" /\ ProcessReturns
ReportStep == exit = "none" /\ Report

Next ==
  \/ MainStep
  \/ HookStep
  \/ PollStep
  \/ ProcessStep
  \/ ReportStep
  \/ exit = "none" /\ (Refuse \/ Prepare \/ Signal \/ ReceiveFails \/ ReceiveSucceeds
                         \/ MessagePanics)

Spec == Init /\ [][Next]_vars

(* The goroutines are scheduled, the timer fires, a cancelled Poll returns *)
(* and a Process whose channel is closed too: handlers come back.          *)
Fairness ==
  WF_vars(MainStep) /\ WF_vars(HookStep) /\ WF_vars(PollStep) /\ WF_vars(ProcessStep)
    /\ WF_vars(ReportStep)

FairSpec == Spec /\ Fairness

-----------------------------------------------------------------------------
(* Properties *)

(* A signal that arrives while Consume is at work ends the process; one    *)
(* that arrives between signal.NotifyContext and Consume may not, because  *)
(* Close finds nothing to close and nobody calls it again.                 *)
SignalEndsProcess ==
  signalled /\ consume[Main] # "idle" /\ close[Hook] = "idle" ~> exit # "none"

(* The exit code says what happened although Close's goroutine writes to   *)
(* the same variable: the program ends well only after a clean drain, or   *)
(* the poller has given up (its error can be lost), and it fails only when *)
(* the poller gave up or Close ran out of time.                            *)
ExitTellsOutcome ==
  /\ exit = "ok" => (stoppedCh /\ processor[Main] = "nil") \/ poller[Main] = "error"
  /\ exit = "failed" => poller[Main] = "error" \/ close[Hook] = "timeout"

(* The program uses the consumer as Lifecycle's environment does: whatever *)
(* the options, what Consume, Close, Poll and Process do in it are steps   *)
(* of Lifecycle with one call and one closer.                              *)
UsesLifecycle == L!Spec

(* What IsValid accepts runs: no pool is empty or negative, and the        *)
(* process panics for three things that IsValid does not look at only: in  *)
(* NewSQSConsumer for an Observability that NewConfig has not made         *)
(* (consumer.go:91-92), at the start of Consume when the size of the       *)
(* messages channel overflows (consumer.go:156), and later for a nil       *)
(* propagator (processor.go:85).                                           *)
ValidConfigRuns ==
  /\ exit = "panicked" =>
       \/ mainPc = "start" /\ config.Observability = ZeroObservability
       \/ mainPc = "ready" /\ config.ProcessorWorkerPoolSize > MaxInt \div 3
       \/ /\ mainPc \notin {"start", "ready"}
          /\ config.Observability # Nil /\ config.Observability.propagator = Nil
  /\ processor[Main] # "error"
  /\ poller[Main] = "error" => config.ErrorNumberThreshold > 0

(* The pause between failing receives is the doubled base delay, at most   *)
(* maxDelay, until the delay overflows: from the 37th failure in a row on  *)
(* it may also be none at all (poller.go:192).                             *)
BackoffPaces ==
  retryCount > 0 =>
    \/ retryCount <= 4 /\ pause = 2 ^ retryCount
    \/ retryCount > 4 /\ pause = MaxDelay
    \/ retryCount > MaxDoublings /\ pause = 0
=============================================================================
