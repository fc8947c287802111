---------------------------- MODULE SQSConsumer ----------------------------
(***************************************************************************)
(* One Consume call of SQSConsumer (consumer/consumer.go) with everything  *)
(* it starts: Lifecycle's protocol, Poller's workers and Processor's       *)
(* workers, joined by the messages channel, the contexts and the error     *)
(* channels.                                                               *)
(*                                                                         *)
(* The messages channel is buf of both Poller and Processor.  Poller's     *)
(* parent context is the context of the call plus cancelPoller;            *)
(* Processor's is the context of the call plus cancelProcess.  The channel *)
(* is closed from the step in which Poll returns.                          *)
(***************************************************************************)
EXTENDS Naturals, Sequences, FiniteSets

CONSTANTS
  run,                (* the Consume call                                  *)
  Closers, CallerCauses, NoOne,
  PollerWorkers, ErrorNumberThreshold, MaxNumberOfMessages, MaxDeliveries, MaxRetries,
  ProcessorWorkers, AckStrategy,
  SlotsPerWorker      (* room in the channel per processor: 3 in the code  *)

ASSUME SQSConsumerAssumption ==
  /\ NoOne \notin Closers /\ IsFiniteSet(Closers)
  /\ CallerCauses \subseteq {"canceled", "deadline"}
  /\ ErrorNumberThreshold \in Nat
  /\ MaxNumberOfMessages \in Nat \ {0}
  /\ MaxDeliveries \in Nat
  /\ MaxRetries \in Nat
  /\ IsFiniteSet(ProcessorWorkers)
  /\ AckStrategy \in {"sync", "immediate", "exponential"}
  /\ SlotsPerWorker \in Nat

VARIABLES
  mu, isRunning, isClosing, stopSignalCh, stoppedCh,
  consume, result, ctx, pollerCanceled, processCanceled,
  poller, pollerErrCh, processor, processErrCh, close,
  canceled, issued, pollerPc, batch, retryCount, errCh,
  buf, taken,
  procPc, cur, handling, queue

lifecycleVars == <<mu, isRunning, isClosing, stopSignalCh, stoppedCh,
                   consume, result, ctx, pollerCanceled, processCanceled,
                   poller, pollerErrCh, processor, processErrCh, close>>
pollVars == <<canceled, issued, pollerPc, batch, retryCount, errCh>>
processVars == <<procPc, cur, handling, queue>>
vars == <<lifecycleVars, pollVars, buf, taken, processVars>>

(* bufferSize, which grows with the processor's pool.                      *)
Capacity == SlotsPerWorker * Cardinality(ProcessorWorkers)

Started(state) == IF state = "idle" THEN "running" ELSE state

pollerCtx == ctx[run] \cup (IF pollerCanceled[run] THEN {"canceled"} ELSE {})

processCtxEnded == ctx[run] # {} \/ processCanceled[run]

L == INSTANCE Lifecycle WITH
       Calls <- {run}, Causes <- CallerCauses, Overlapping <- FALSE,
       PollResults <- {"nil", "error"}, ProcessResults <- {"nil", "error"}

P == INSTANCE Poller WITH
       parentCtx <- pollerCtx, pollResult <- Started(poller[run])

R == INSTANCE Processor WITH
       ctxEnded <- processCtxEnded,
       closed <- poller[run] \in {"nil", "error"},
       procResult <- Started(processor[run])

-----------------------------------------------------------------------------
(* What the callers do: call Consume, call Close, end the context.         *)
CallConsume ==
  /\ L!CallConsume(run)
  /\ UNCHANGED <<pollVars, buf, taken, processVars>>

CallClose(k) ==
  /\ L!CloseReturnsEarly(k) \/ L!AnnounceClose(k)
  /\ UNCHANGED <<pollVars, buf, taken, processVars>>

ContextEnds ==
  /\ \E cause \in CallerCauses : L!ContextEnds(run, cause)
  /\ UNCHANGED <<pollVars, buf, taken, processVars>>

(* What Consume and Close do once called.                                  *)
ConsumeStep ==
  /\ L!ConsumeStep(run)
  /\ UNCHANGED <<pollVars, buf, taken, processVars>>

CloseStep(k) ==
  /\ L!CloseStep(k)
  /\ UNCHANGED <<pollVars, buf, taken, processVars>>

(* Mutant: the goroutine leaves Poll's workers behind when it is cancelled.*)
PollAbandoned ==
  /\ pollerCtx # {}
  /\ L!PollReturns(run, "nil")
  /\ UNCHANGED <<pollVars, buf, taken, processVars>>

(* The goroutine around Poll: its workers, its return, its report.         *)
PollWorks(w) ==
  /\ poller[run] = "running"
  /\ UNCHANGED <<lifecycleVars, processVars>>
  /\ P!Worker(w)

PollReturns ==
  /\ \E res \in {"nil", "error"} : L!PollReturns(run, res)
  /\ UNCHANGED processVars
  /\ P!PollReturns

ReportPoll ==
  /\ L!ReportPoll(run)
  /\ UNCHANGED <<pollVars, buf, taken, processVars>>

(* Mutant: the goroutine leaves Process's workers behind.                  *)
ProcessAbandoned ==
  /\ processCtxEnded
  /\ L!ProcessReturns(run, "nil")
  /\ UNCHANGED <<pollVars, buf, taken, processVars>>

(* The goroutine around Process, likewise.                                 *)
ProcessWorks(v) ==
  /\ processor[run] = "running"
  /\ UNCHANGED <<lifecycleVars, pollVars>>
  /\ R!Worker(v)

ProcessReturns ==
  /\ \E res \in {"nil", "error"} : L!ProcessReturns(run, res)
  /\ UNCHANGED pollVars
  /\ R!ProcessReturns

ReportProcess ==
  /\ L!ReportProcess(run)
  /\ UNCHANGED <<pollVars, buf, taken, processVars>>

(* Consume and every Close have returned.                                  *)
Terminated ==
  /\ L!Terminated
  /\ UNCHANGED vars

Init == L!Init /\ P!Init /\ R!Init

Next ==
  \/ CallConsume
  \/ \E k \in Closers : CallClose(k) \/ CloseStep(k)
  \/ ContextEnds
  \/ ConsumeStep
  \/ \E w \in PollerWorkers : PollWorks(w)
  \/ PollReturns
  \/ ReportPoll
  \/ \E v \in ProcessorWorkers : ProcessWorks(v)
  \/ ProcessReturns
  \/ ReportProcess
  \/ Terminated

Spec == Init /\ [][Next]_vars

(* Goroutines are scheduled; Transform, Handle and the calls to SQS come   *)
(* back; sleeps and the timer of Close end.  Nobody has to call Consume or *)
(* Close or to end the context, and a send on a full channel has to wait.  *)
Fairness ==
  /\ WF_vars(ConsumeStep)
  /\ \A k \in Closers : WF_vars(CloseStep(k))
  /\ \A w \in PollerWorkers : WF_vars(PollWorks(w))
  /\ WF_vars(PollReturns)
  /\ WF_vars(ReportPoll)
  /\ \A v \in ProcessorWorkers : WF_vars(ProcessWorks(v))
  /\ WF_vars(ProcessReturns)
  /\ WF_vars(ReportProcess)

FairSpec == Spec /\ Fairness

-----------------------------------------------------------------------------
(* Properties *)

(* Each component behaves here as its own module lets it behave alone: the *)
(* environment each of them was checked under is the one it really has.    *)
LifecycleSpec == L!Spec
PollerSpec == P!Spec
ProcessorSpec == R!Spec

D == INSTANCE Delivery WITH
       Deliveries <- 1..MaxDeliveries,
       message <- [d \in 1..MaxDeliveries |->
                     IF d > issued THEN "unseen"
                     ELSE IF R!Finished(d) THEN "finished" ELSE "held"],
       stopped <- stoppedCh,
       ended <- ctx[run] # {}

(* The consumer implements Delivery: when the graceful shutdown is         *)
(* reported complete under a live context, every message SQS handed over,  *)
(* wherever it was when Close was called (in a ReceiveMessage result, in   *)
(* the channel, in a handler), is finished, and none is received later.    *)
DeliverySpec == D!Spec

(* After Consume has returned, its poller ends too, except for one reason: *)
(* a worker blocked on a full channel that nobody reads any more.          *)
PollerLeaksOnlyWhenFull ==
  consume[run] = "returned" ~>
    poller[run] # "running" \/ (Len(buf) = Capacity /\ processor[run] # "running")

(* A graceful shutdown, once asked for, ends by itself if the caller does  *)
(* not end the context as well.                                            *)
ShutdownEnds ==
  stopSignalCh = 1 ~> consume[run] = "returned" \/ ctx[run] # {}

(* Close keeps to its timeout: past the check it returns, whatever the     *)
(* poller and the processor are doing.                                     *)
CloseReturns == L!CloseReturns

(* The two below state what the documentation of Consume says; both fail.  *)

(* "Returns an error if the consumer ... encounters an unrecoverable       *)
(* error": a poller at its error threshold is not answered with nil.       *)
PollerErrorReturned ==
  poller[run] = "error" /\ consume[run] = "returned" => result[run] # "nil"

(* "Context cancellation will immediately stop the consumer", during a     *)
(* graceful shutdown as well.                                              *)
ContextEndsConsume ==
  isRunning /\ ctx[run] # {} ~> consume[run] = "returned"

=============================================================================
