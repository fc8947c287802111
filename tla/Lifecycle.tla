----------------------------- MODULE Lifecycle -----------------------------
(***************************************************************************)
(* SQSConsumer.Consume, Close and IsRunning (consumer/consumer.go) as seen *)
(* by the goroutines that call them: the mutex, the two flags, the stop    *)
(* signal, the stopped channel and, for each Consume call, its contexts    *)
(* and the goroutines and error channels it makes.  One consumer value may *)
(* be used for several Consume calls, one after another or overlapping,    *)
(* and any number of goroutines may call Close.                            *)
(*                                                                         *)
(* The poller and the processor of a call are seen here only through the   *)
(* moment they return and what they return; modules Poller and Processor   *)
(* say when that happens, and SQSConsumer puts the three together.         *)
(***************************************************************************)
EXTENDS Naturals, FiniteSets

CONSTANTS
  Calls,          (* the Consume calls                                     *)
  Closers,        (* the Close calls                                       *)
  PollResults,    (* what Poll may return: a subset of {"nil", "error"}    *)
  ProcessResults, (* what Process may return: likewise                     *)
  Causes,         (* how a context may end: "canceled", "deadline"         *)
  Overlapping,    (* Consume may be called while another call runs         *)
  NoOne           (* nobody holds the mutex                                *)

ASSUME LifecycleAssumption ==
  /\ PollResults \subseteq {"nil", "error"}
  /\ ProcessResults \subseteq {"nil", "error"}
  /\ Overlapping \in BOOLEAN
  /\ NoOne \notin Closers
  /\ IsFiniteSet(Calls) /\ IsFiniteSet(Closers)

VARIABLES
  mu,               (* the Close call that keeps c.mu across its send       *)
  isRunning,        (* c.isRunning                                          *)
  isClosing,        (* c.isClosing                                          *)
  stopSignalCh,     (* signals in c.stopSignalCh, whose capacity is 1       *)
  stoppedCh,        (* c.stoppedCh has been closed                          *)
  consume,          (* where each Consume call is                           *)
  result,           (* what each Consume call returns                       *)
  ctx,              (* what has ended the context of each Consume call      *)
  pollerCanceled,   (* cancelPoller of the call has been called             *)
  processCanceled,  (* cancelProcess of the call has been called            *)
  poller,           (* the call's Poll: idle, running or what it returned   *)
  pollerErrCh,      (* "none", a result waiting there, or "taken"           *)
  processor,        (* the call's Process, likewise                         *)
  processErrCh,
  close             (* where each Close call is, or how it returned         *)

flagVars == <<mu, isRunning, isClosing, stopSignalCh, stoppedCh>>
callVars == <<consume, result, pollerCanceled, processCanceled>>
pollVars == <<poller, pollerErrCh>>
processVars == <<processor, processErrCh>>
vars == <<flagVars, callVars, ctx, pollVars, processVars, close>>

pollerCtxEnded(c) == ctx[c] # {} \/ pollerCanceled[c]
processCtxEnded(c) == ctx[c] # {} \/ processCanceled[c]

(* Consume leaves its select, or its drain, for the deferred function.     *)
Leave(c, from, res) ==
  /\ consume[c] = from
  /\ consume' = [consume EXCEPT ![c] = "deferred"]
  /\ result' = [result EXCEPT ![c] = res]

-----------------------------------------------------------------------------
(* Consume *)

(* The gate under the lock: refused, or running with both goroutines.      *)
StartConsume(c) ==
  /\ mu = NoOne
  /\ ~isRunning
  /\ consume[c] = "idle"
  /\ consume' = [consume EXCEPT ![c] = "select"]
  /\ isRunning' = TRUE
  /\ poller' = [poller EXCEPT ![c] = "running"]
  /\ processor' = [processor EXCEPT ![c] = "running"]
  /\ UNCHANGED <<mu, isClosing, stopSignalCh, stoppedCh, result, pollerCanceled,
                 processCanceled, ctx, pollerErrCh, processErrCh, close>>

(* "consumer is already running": the deferred function runs all the same. *)
RefuseConsume(c) ==
  /\ mu = NoOne
  /\ isRunning
  /\ Leave(c, "idle", "alreadyRunning")
  /\ UNCHANGED <<flagVars, pollerCanceled, processCanceled, ctx, pollVars, processVars, close>>

(* case <-ctx.Done(): return ctx.Err().                                    *)
SeeContext(c) ==
  /\ ctx[c] # {}
  /\ Leave(c, "select", "ctxErr")
  /\ UNCHANGED <<flagVars, pollerCanceled, processCanceled, ctx, pollVars, processVars, close>>

(* Mutant: the signal stays for the next reader, as if it were a close.    *)
SeeStopSignalAsBroadcast(c) ==
  /\ consume[c] = "select"
  /\ stopSignalCh = 1
  /\ pollerCanceled' = [pollerCanceled EXCEPT ![c] = TRUE]
  /\ consume' = [consume EXCEPT ![c] = "drainPoller"]
  /\ UNCHANGED <<flagVars, result, processCanceled, ctx, pollVars, processVars, close>>

(* Mutant: the processor is cancelled along with the poller.               *)
SeeStopSignalCancelingBoth(c) ==
  /\ consume[c] = "select"
  /\ stopSignalCh = 1
  /\ stopSignalCh' = 0
  /\ pollerCanceled' = [pollerCanceled EXCEPT ![c] = TRUE]
  /\ processCanceled' = [processCanceled EXCEPT ![c] = TRUE]
  /\ consume' = [consume EXCEPT ![c] = "drainPoller"]
  /\ UNCHANGED <<mu, isRunning, isClosing, stoppedCh, result, ctx, pollVars, processVars, close>>

(* Mutant: the poller is not cancelled before it is waited for.            *)
SeeStopSignalWithoutCancel(c) ==
  /\ consume[c] = "select"
  /\ stopSignalCh = 1
  /\ stopSignalCh' = 0
  /\ consume' = [consume EXCEPT ![c] = "drainPoller"]
  /\ UNCHANGED <<mu, isRunning, isClosing, stoppedCh, result, pollerCanceled,
                 processCanceled, ctx, pollVars, processVars, close>>

(* case <-c.stopSignalCh: cancelPoller() and wait for the poller.          *)
SeeStopSignal(c) ==
  /\ consume[c] = "select"
  /\ stopSignalCh = 1
  /\ stopSignalCh' = 0
  /\ pollerCanceled' = [pollerCanceled EXCEPT ![c] = TRUE]
  /\ consume' = [consume EXCEPT ![c] = "drainPoller"]
  /\ UNCHANGED <<mu, isRunning, isClosing, stoppedCh, result, processCanceled, ctx,
                 pollVars, processVars, close>>

(* Mutant: the report is taken for an error without a look at it.          *)
SeePollerAsError(c) ==
  /\ pollerErrCh[c] \in {"nil", "error"}
  /\ Leave(c, "select", "pollerErr")
  /\ pollerErrCh' = [pollerErrCh EXCEPT ![c] = "taken"]
  /\ UNCHANGED <<flagVars, pollerCanceled, processCanceled, ctx, poller, processVars, close>>

(* case err := <-pollerErrCh: return err, nil or not.                      *)
SeePoller(c) ==
  /\ pollerErrCh[c] \in {"nil", "error"}
  /\ Leave(c, "select", IF pollerErrCh[c] = "nil" THEN "nil" ELSE "pollerErr")
  /\ pollerErrCh' = [pollerErrCh EXCEPT ![c] = "taken"]
  /\ UNCHANGED <<flagVars, pollerCanceled, processCanceled, ctx, poller, processVars, close>>

(* case err := <-processErrCh: likewise.                                   *)
SeeProcessor(c) ==
  /\ processErrCh[c] \in {"nil", "error"}
  /\ Leave(c, "select", IF processErrCh[c] = "nil" THEN "nil" ELSE "processErr")
  /\ processErrCh' = [processErrCh EXCEPT ![c] = "taken"]
  /\ UNCHANGED <<flagVars, pollerCanceled, processCanceled, ctx, pollVars, processor, close>>

(* Mutant: the poller's error is logged and forgotten.                     *)
DrainPollerIgnoringError(c) ==
  /\ consume[c] = "drainPoller"
  /\ pollerErrCh[c] \in {"nil", "error"}
  /\ pollerErrCh' = [pollerErrCh EXCEPT ![c] = "taken"]
  /\ consume' = [consume EXCEPT ![c] = "drainProcessor"]
  /\ UNCHANGED <<flagVars, result, pollerCanceled, processCanceled, ctx, poller, processVars, close>>

(* Mutant: stoppedCh is closed as soon as polling has stopped, too.        *)
DrainPollerAnnouncing(c) ==
  /\ consume[c] = "drainPoller"
  /\ pollerErrCh[c] = "nil"
  /\ pollerErrCh' = [pollerErrCh EXCEPT ![c] = "taken"]
  /\ consume' = [consume EXCEPT ![c] = "drainProcessor"]
  /\ stoppedCh' = TRUE
  /\ UNCHANGED <<mu, isRunning, isClosing, stopSignalCh, result, pollerCanceled,
                 processCanceled, ctx, poller, processVars, close>>

(* After the stop signal: <-pollerErrCh, with nothing else to wake it.     *)
DrainPoller(c) ==
  /\ consume[c] = "drainPoller"
  /\ pollerErrCh[c] \in {"nil", "error"}
  /\ pollerErrCh' = [pollerErrCh EXCEPT ![c] = "taken"]
  /\ IF pollerErrCh[c] = "error"
        THEN Leave(c, "drainPoller", "pollerErr")
        ELSE consume' = [consume EXCEPT ![c] = "drainProcessor"] /\ UNCHANGED result
  /\ UNCHANGED <<flagVars, pollerCanceled, processCanceled, ctx, poller, processVars, close>>

(* <-processErrCh, then close(c.stoppedCh), which panics the second time;  *)
(* the deferred function runs then too.                                    *)
DrainProcessor(c) ==
  /\ processErrCh[c] \in {"nil", "error"}
  /\ processErrCh' = [processErrCh EXCEPT ![c] = "taken"]
  /\ Leave(c, "drainProcessor",
           IF processErrCh[c] = "error" THEN "processErr"
           ELSE IF stoppedCh THEN "panic" ELSE "nil")
  /\ stoppedCh' = (stoppedCh \/ processErrCh[c] = "nil")
  /\ UNCHANGED <<mu, isRunning, isClosing, stopSignalCh, pollerCanceled, processCanceled,
                 ctx, pollVars, processor, close>>

(* The deferred function: cancelPoller() and cancelProcess() ...           *)
CancelContexts(c) ==
  /\ consume[c] = "deferred"
  /\ consume' = [consume EXCEPT ![c] = "locking"]
  /\ pollerCanceled' = [pollerCanceled EXCEPT ![c] = TRUE]
  /\ processCanceled' = [processCanceled EXCEPT ![c] = TRUE]
  /\ UNCHANGED <<flagVars, result, ctx, pollVars, processVars, close>>

(* Mutant: isClosing is not reset.                                         *)
ClearRunningOnly(c) ==
  /\ mu = NoOne
  /\ consume[c] = "locking"
  /\ consume' = [consume EXCEPT ![c] = "returned"]
  /\ isRunning' = FALSE
  /\ UNCHANGED <<mu, isClosing, stopSignalCh, stoppedCh, result, pollerCanceled,
                 processCanceled, ctx, pollVars, processVars, close>>

(* ... and, under the lock, both flags.                                    *)
ClearFlags(c) ==
  /\ mu = NoOne
  /\ consume[c] = "locking"
  /\ consume' = [consume EXCEPT ![c] = "returned"]
  /\ isRunning' = FALSE
  /\ isClosing' = FALSE
  /\ UNCHANGED <<mu, stopSignalCh, stoppedCh, result, pollerCanceled, processCanceled, ctx,
                 pollVars, processVars, close>>

-----------------------------------------------------------------------------
(* The two goroutines of a call: the moment Poll or Process returns, and   *)
(* the send of its result, for which the channel always has room.          *)

PollReturns(c, res) ==
  /\ poller[c] = "running"
  /\ poller' = [poller EXCEPT ![c] = res]
  /\ UNCHANGED <<flagVars, callVars, ctx, pollerErrCh, processVars, close>>

ReportPoll(c) ==
  /\ poller[c] \in {"nil", "error"}
  /\ pollerErrCh[c] = "none"
  /\ pollerErrCh' = [pollerErrCh EXCEPT ![c] = poller[c]]
  /\ UNCHANGED <<flagVars, callVars, ctx, poller, processVars, close>>

ProcessReturns(c, res) ==
  /\ processor[c] = "running"
  /\ processor' = [processor EXCEPT ![c] = res]
  /\ UNCHANGED <<flagVars, callVars, ctx, pollVars, processErrCh, close>>

ReportProcess(c) ==
  /\ processor[c] \in {"nil", "error"}
  /\ processErrCh[c] = "none"
  /\ processErrCh' = [processErrCh EXCEPT ![c] = processor[c]]
  /\ UNCHANGED <<flagVars, callVars, ctx, pollVars, processor, close>>

(* When they return: Poll without an error only under an ended context,    *)
(* Process without one only under an ended context or with the messages    *)
(* channel closed, which Poll does as it returns.                          *)
PollMayReturn(c, res) ==
  res \in PollResults /\ (res = "nil" => pollerCtxEnded(c))

ProcessMayReturn(c, res) ==
  res \in ProcessResults /\ (res = "nil" => processCtxEnded(c) \/ poller[c] \in {"nil", "error"})

-----------------------------------------------------------------------------
(* Close *)

(* Nothing to close, or somebody is at it: return nil.                     *)
CloseReturnsEarly(k) ==
  /\ mu = NoOne
  /\ ~isRunning \/ isClosing
  /\ close[k] = "idle"
  /\ close' = [close EXCEPT ![k] = "early"]
  /\ UNCHANGED <<flagVars, callVars, ctx, pollVars, processVars>>

(* Mutant: the intent to close is not announced.                           *)
AnnounceNothing(k) ==
  /\ mu = NoOne
  /\ isRunning /\ ~isClosing
  /\ close[k] = "idle"
  /\ close' = [close EXCEPT ![k] = "sending"]
  /\ mu' = k
  /\ UNCHANGED <<isRunning, isClosing, stopSignalCh, stoppedCh, callVars, ctx, pollVars, processVars>>

(* Past the check the lock is kept until the signal is sent.               *)
AnnounceClose(k) ==
  /\ mu = NoOne
  /\ isRunning /\ ~isClosing
  /\ close[k] = "idle"
  /\ close' = [close EXCEPT ![k] = "sending"]
  /\ mu' = k
  /\ isClosing' = TRUE
  /\ UNCHANGED <<isRunning, stopSignalCh, stoppedCh, callVars, ctx, pollVars, processVars>>

(* Mutant: the lock is not released.                                       *)
SendAndKeepLock(k) ==
  /\ close[k] = "sending"
  /\ stopSignalCh = 0
  /\ stopSignalCh' = 1
  /\ close' = [close EXCEPT ![k] = "waiting"]
  /\ UNCHANGED <<mu, isRunning, isClosing, stoppedCh, callVars, ctx, pollVars, processVars>>

(* Mutant: an unbuffered stopSignalCh, which needs a Consume in its select.*)
SendUnbuffered(k) ==
  /\ close[k] = "sending"
  /\ stopSignalCh = 0
  /\ \E c \in Calls : consume[c] = "select"
  /\ stopSignalCh' = 1
  /\ mu' = NoOne
  /\ close' = [close EXCEPT ![k] = "waiting"]
  /\ UNCHANGED <<isRunning, isClosing, stoppedCh, callVars, ctx, pollVars, processVars>>

(* c.stopSignalCh <- struct{}{} waits for room, then c.mu.Unlock().        *)
SendStopSignal(k) ==
  /\ close[k] = "sending"
  /\ stopSignalCh = 0
  /\ stopSignalCh' = 1
  /\ mu' = NoOne
  /\ close' = [close EXCEPT ![k] = "waiting"]
  /\ UNCHANGED <<isRunning, isClosing, stoppedCh, callVars, ctx, pollVars, processVars>>

SeeStopped(k) ==
  /\ close[k] = "waiting"
  /\ stoppedCh
  /\ close' = [close EXCEPT ![k] = "stopped"]
  /\ UNCHANGED <<flagVars, callVars, ctx, pollVars, processVars>>

(* GracefulShutdownTimeout seconds have passed.                            *)
TimeOut(k) ==
  /\ close[k] = "waiting"
  /\ close' = [close EXCEPT ![k] = "timeout"]
  /\ UNCHANGED <<flagVars, callVars, ctx, pollVars, processVars>>

ContextEnds(c, cause) ==
  /\ cause \notin ctx[c]
  /\ ctx' = [ctx EXCEPT ![c] = @ \cup {cause}]
  /\ UNCHANGED <<flagVars, callVars, pollVars, processVars, close>>

-----------------------------------------------------------------------------
Init ==
  /\ mu = NoOne
  /\ isRunning = FALSE
  /\ isClosing = FALSE
  /\ stopSignalCh = 0
  /\ stoppedCh = FALSE
  /\ consume = [c \in Calls |-> "idle"]
  /\ result = [c \in Calls |-> "none"]
  /\ ctx = [c \in Calls |-> {}]
  /\ pollerCanceled = [c \in Calls |-> FALSE]
  /\ processCanceled = [c \in Calls |-> FALSE]
  /\ poller = [c \in Calls |-> "idle"]
  /\ pollerErrCh = [c \in Calls |-> "none"]
  /\ processor = [c \in Calls |-> "idle"]
  /\ processErrCh = [c \in Calls |-> "none"]
  /\ close = [k \in Closers |-> "idle"]

(* What Consume does on its own once it has been called.                   *)
ConsumeStep(c) ==
  \/ SeeContext(c)
  \/ SeeStopSignal(c)
  \/ SeePoller(c)
  \/ SeeProcessor(c)
  \/ DrainPoller(c)
  \/ DrainProcessor(c)
  \/ CancelContexts(c)
  \/ ClearFlags(c)

CloseStep(k) ==
  \/ SendStopSignal(k)
  \/ SeeStopped(k)
  \/ TimeOut(k)

PollStep(c) ==
  \/ \E res \in PollResults : PollMayReturn(c, res) /\ PollReturns(c, res)
  \/ ReportPoll(c)

ProcessStep(c) ==
  \/ \E res \in ProcessResults : ProcessMayReturn(c, res) /\ ProcessReturns(c, res)
  \/ ReportProcess(c)

(* The callers: whether they overlap their Consume calls is theirs.        *)
MayCall(c) ==
  Overlapping \/ \A d \in Calls \ {c} : consume[d] \in {"idle", "returned"}

(* Every call has returned.                                                *)
Terminated ==
  /\ \A c \in Calls : consume[c] = "returned"
  /\ \A k \in Closers : close[k] \in {"early", "stopped", "timeout"}
  /\ UNCHANGED vars

CallConsume(c) ==
  MayCall(c) /\ (StartConsume(c) \/ RefuseConsume(c))

Next ==
  \/ \E c \in Calls :
       \/ CallConsume(c)
       \/ ConsumeStep(c)
       \/ PollStep(c)
       \/ ProcessStep(c)
       \/ \E cause \in Causes : ContextEnds(c, cause)
  \/ \E k \in Closers : CloseReturnsEarly(k) \/ AnnounceClose(k) \/ CloseStep(k)
  \/ Terminated

Spec == Init /\ [][Next]_vars

(* Goroutines are scheduled, the mutex is granted, and the timer of Close  *)
(* fires.  Nothing is asked of the poller and the processor but that a     *)
(* result they have is reported.                                           *)
Fairness ==
  /\ \A c \in Calls :
       WF_vars(ConsumeStep(c)) /\ WF_vars(ReportPoll(c)) /\ WF_vars(ReportProcess(c))
  /\ \A k \in Closers : WF_vars(CloseStep(k))

FairSpec == Spec /\ Fairness

-----------------------------------------------------------------------------
(* Properties *)

Outcomes == {"nil", "error"}

TypeOK ==
  /\ mu \in Closers \cup {NoOne}
  /\ \A k \in Closers : mu = k <=> close[k] = "sending"
  /\ isRunning \in BOOLEAN
  /\ isClosing \in BOOLEAN
  /\ stopSignalCh \in 0..1
  /\ stoppedCh \in BOOLEAN
  /\ consume \in [Calls -> {"idle", "select", "drainPoller", "drainProcessor", "deferred",
                             "locking", "returned"}]
  /\ result \in [Calls -> {"none", "nil", "ctxErr", "pollerErr", "processErr",
                            "alreadyRunning", "panic"}]
  /\ ctx \in [Calls -> SUBSET Causes]
  /\ pollerCanceled \in [Calls -> BOOLEAN]
  /\ processCanceled \in [Calls -> BOOLEAN]
  /\ poller \in [Calls -> Outcomes \cup {"idle", "running"}]
  /\ pollerErrCh \in [Calls -> Outcomes \cup {"none", "taken"}]
  /\ processor \in [Calls -> Outcomes \cup {"idle", "running"}]
  /\ processErrCh \in [Calls -> Outcomes \cup {"none", "taken"}]
  /\ close \in [Closers -> {"idle", "sending", "waiting", "early", "stopped", "timeout"}]

Returned(state) == state \in Outcomes

(* What Consume returns has really happened: its context is over for       *)
(* ctx.Err(), the goroutine it blames has failed for an error, and it      *)
(* returns nil only once its Poll is over or its context is (never while   *)
(* it is polling undisturbed), although either goroutine can report first. *)
ResultIsJustified ==
  \A c \in Calls :
    /\ result[c] = "ctxErr" => ctx[c] # {}
    /\ result[c] = "pollerErr" => poller[c] = "error"
    /\ result[c] = "processErr" => processor[c] = "error"
    /\ result[c] = "nil" => Returned(poller[c]) \/ ctx[c] # {}

(* stoppedCh, which Close takes as the news that the consumer is stopped,  *)
(* is closed only by a Consume call whose poller and processor have both   *)
(* returned without an error.                                              *)
StoppedMeansDrained ==
  stoppedCh \/ (\E k \in Closers : close[k] = "stopped") =>
    \E c \in Calls : poller[c] = "nil" /\ processor[c] = "nil" /\ result[c] \in {"nil", "panic"}

Draining(c) == consume[c] \in {"drainPoller", "drainProcessor"}

(* One Close stops at most one Consume: the calls draining and the signal  *)
(* still in stopSignalCh never outnumber the signals sent.                 *)
OneStopPerClose ==
  stopSignalCh + Cardinality({c \in Calls : Draining(c)})
    <= Cardinality({k \in Closers : close[k] \in {"waiting", "stopped", "timeout"}})

(* A call between its gate and the end of its deferred function.           *)
Running(c) ==
  consume[c] \notin {"idle", "returned"} /\ result[c] # "alreadyRunning"

(* At most one Consume call is past the gate at any time.                  *)
AtMostOneRunning ==
  \A c, d \in Calls : Running(c) /\ Running(d) => c = d

(* A refused call has run its deferred function.                           *)
RefusalCleared ==
  \E c \in Calls : result[c] = "alreadyRunning" /\ consume[c] = "returned"

(* Until that happens the flags Close decides by match the calls: what     *)
(* IsRunning answers is true, only one call runs, and a shutdown is        *)
(* announced only while there is something to shut down.                   *)
FlagsMatchCalls ==
  ~RefusalCleared =>
    /\ isRunning <=> \E c \in Calls : Running(c)
    /\ isClosing => isRunning
    /\ AtMostOneRunning

(* close(c.stoppedCh) panics only after another call of the same consumer  *)
(* has been shut down gracefully: never in the first shutdown.             *)
PanicOnlyOnSecondShutdown ==
  \A c \in Calls : result[c] = "panic" =>
    \E d \in Calls \ {c} : poller[d] = "nil" /\ processor[d] = "nil" /\ result[d] = "nil"

(* Close keeps to its timeout: past the check, it returns.                 *)
CloseReturns ==
  \A k \in Closers : close[k] = "sending" ~> close[k] \in {"stopped", "timeout"}

=============================================================================
