----------------------------- MODULE Redelivery -----------------------------
(***************************************************************************)
(* The way of a message through SQS and back: one Process call (Processor) *)
(* with the acknowledger of its strategy (consumer/confirmer.go), the      *)
(* middlewares around the handler (consumer/middleware.go) and the queue,  *)
(* which hides a message while its visibility timeout runs, shows it again *)
(* when it ends, counts its receives and forgets it when it is deleted.    *)
(* The program may crash by a panic and be started again.  The close of    *)
(* the channel and the end of Process are SQSConsumer's.                   *)
(*                                                                         *)
(* A delivery is one receive of a message, with its receipt handle.  The   *)
(* user's middlewares are a stack: outer ones, a TimeLimit or not, inner   *)
(* ones; each part lists the outermost first.                              *)
(***************************************************************************)
EXTENDS Integers, Sequences, FiniteSets, RetryTiming

CONSTANTS
  Messages,         (* the messages in the queue                           *)
  FirstCounts,      (* how often a message may have been received before   *)
  Stacks,           (* stacks of middlewares to consider                   *)
  NoMessage,
  ProcessorWorkers, AckStrategy, Capacity, MaxDeliveries

Middlewares == {"ignoreErrors", "panicRecover", "adapted", "replacing", "timeTracking"}

ASSUME RedeliveryAssumption ==
  /\ NoMessage \notin Messages
  /\ FirstCounts \subseteq Nat
  /\ Stacks \subseteq [outer : Seq(Middlewares), limited : BOOLEAN, inner : Seq(Middlewares)]
  /\ AckStrategy \in {"sync", "immediate", "exponential"}
  /\ Capacity \in Nat
  /\ MaxDeliveries \in Nat

VARIABLES
  ctxEnded, buf, closed, taken, procPc, cur, handling, queue, procResult,
  visibility,     (* of each message: "visible", "hidden" or "deleted"     *)
  receiveCount,   (* ApproximateReceiveCount of each message               *)
  messageOf,      (* the message of each delivery                          *)
  attempt,        (* the receive count each delivery was made with         *)
  asked,          (* the timeout a Reject of the delivery set, or -1       *)
  timedOut,       (* deliveries whose first visibility timeout ran out     *)
  stack,          (* the middlewares in use                                *)
  sameQueue,      (* cfg.QueueURL is the queueURL given to Consume         *)
  handler,        (* the call of the user's handler for each delivery      *)
  outcome,        (* what that handler did                                 *)
  crashed         (* a panic has ended the process                         *)

processVars == <<ctxEnded, buf, closed, taken, procPc, cur, handling, queue, procResult>>
sqsVars == <<visibility, receiveCount, messageOf, attempt, timedOut>>
handlerVars == <<handler, outcome>>
settings == <<stack, sameQueue>>
vars == <<processVars, sqsVars, asked, handlerVars, settings, crashed>>

R == INSTANCE Processor

Deliveries == 1..MaxDeliveries
issued == Cardinality({d \in Deliveries : messageOf[d] # NoMessage})

(* The receipt handle of a delivery is the message's latest.               *)
Latest(d) == \A e \in Deliveries : messageOf[e] = messageOf[d] => e <= d

-----------------------------------------------------------------------------
(* Middlewares *)

(* What each middleware makes of the result of the handler it wraps: "ok", *)
(* "error" or "panic".                                                     *)
IgnoreErrors(result) == IF result = "error" THEN "ok" ELSE result

(* Mutant: the error made of the panic is dropped.                         *)
PanicForgotten(result) == IF result = "panic" THEN "ok" ELSE result

(* Mutant: the deferred function does not call recover.                    *)
PanicPassedOn(result) == result

PanicRecover(result) == IF result = "panic" THEN "error" ELSE result

(* A middleware for any type hands on the message it was given, as the     *)
(* logging one of examples/json does, or something that is not a T: then   *)
(* nothing further in is called and the assertion's error is the result.   *)
MiddlewareAdapter(sameType, result) == IF sameType THEN result ELSE "error"

(* The time tracking one of examples/json wraps a nil error as well.       *)
TimeTracking(result) == IF result = "ok" THEN "error" ELSE result

Pass(middleware, result) ==
  CASE middleware = "ignoreErrors" -> IgnoreErrors(result)
    [] middleware = "panicRecover" -> PanicRecover(result)
    [] middleware = "adapted"      -> MiddlewareAdapter(TRUE, result)
    [] middleware = "replacing"    -> MiddlewareAdapter(FALSE, result)
    [] middleware = "timeTracking" -> TimeTracking(result)

(* Through a list of middlewares, from the innermost to the outermost.     *)
Through(list, result) ==
  LET up[i \in 0..Len(list)] ==
        IF i = 0 THEN result ELSE Pass(list[Len(list) + 1 - i], up[i - 1])
  IN  up[Len(list)]

Has(middleware, list) == \E i \in DOMAIN list : list[i] = middleware

Used(middleware) == Has(middleware, stack.outer \o stack.inner)

(* What TimeLimit's goroutine, or without one the worker itself, gets.     *)
inside(d) == Through(stack.inner, outcome[d])

-----------------------------------------------------------------------------
(* SQS *)

(* ReceiveMessage hands the message over and the poller sends it to the    *)
(* channel; time that passes in between is time before the next step.      *)
Receive(m) ==
  /\ ~crashed
  /\ visibility[m] = "visible"
  /\ issued < MaxDeliveries
  /\ R!Feed(issued + 1)
  /\ visibility' = [visibility EXCEPT ![m] = "hidden"]
  /\ receiveCount' = [receiveCount EXCEPT ![m] = @ + 1]
  /\ messageOf' = [messageOf EXCEPT ![issued + 1] = m]
  /\ attempt' = [attempt EXCEPT ![issued + 1] = receiveCount[m] + 1]
  /\ UNCHANGED <<asked, timedOut, handlerVars, settings, crashed>>

(* The visibility timeout of the last receive, or the one a Reject has put *)
(* in its place, runs out, wherever the message is in the program.         *)
Reappear(m) ==
  /\ visibility[m] = "hidden"
  /\ visibility' = [visibility EXCEPT ![m] = "visible"]
  /\ timedOut' = timedOut \cup
       {d \in Deliveries : messageOf[d] = m /\ Latest(d) /\ asked[d] = -1}
  /\ UNCHANGED <<processVars, receiveCount, messageOf, attempt, asked, handlerVars,
                 settings, crashed>>

(* DeleteMessage takes effect: with an old receipt handle it may not.      *)
Deleted(d) ==
  \/ visibility' = [visibility EXCEPT ![messageOf[d]] = "deleted"]
  \/ ~Latest(d) /\ UNCHANGED visibility

-----------------------------------------------------------------------------
(* Workers *)

(* Select, the context, the channel and Transform are Processor's.         *)
Fetch(v) ==
  /\ R!Stop(v) \/ R!Take(v) \/ R!TransformSucceeds(v) \/ R!TransformFails(v)
  /\ UNCHANGED <<sqsVars, asked, handlerVars, settings, crashed>>

(* The handler is called, by the worker or by TimeLimit's goroutine.       *)
CallHandler(v) ==
  /\ procPc[v] = "handle"
  /\ handler[cur[v]] = "none"
  /\ ~Used("replacing")
  /\ handler' = [handler EXCEPT ![cur[v]] = "running"]
  /\ UNCHANGED <<processVars, sqsVars, asked, outcome, settings, crashed>>

(* The handler's call ends.  A panic that no middleware on this side stops *)
(* ends the process: neither TimeLimit's goroutine nor the worker recovers.*)
HandlerEnds(d, result) ==
  /\ handler[d] = "running"
  /\ handler' = [handler EXCEPT ![d] = "ended"]
  /\ outcome' = [outcome EXCEPT ![d] = result]
  /\ crashed' = (Through(IF stack.limited THEN stack.inner ELSE stack.outer \o stack.inner, result)
                   = "panic")
  /\ UNCHANGED <<processVars, sqsVars, asked, settings>>

(* Handle returns to processMessage, with or without an error.             *)
Conclude(v, result) ==
  \/ result = "ok" /\ R!HandleSucceeds(v)
  \/ result = "error" /\ R!HandleFails(v)

(* Mutant: processMessage does not wait for the handler, and takes what is *)
(* in its variable.                                                        *)
ResultUnawaited(v) ==
  /\ procPc[v] = "handle"
  /\ handler[cur[v]] = "running"
  /\ \E result \in {"ok", "error"} : Conclude(v, result)
  /\ UNCHANGED <<sqsVars, asked, handlerVars, settings, crashed>>

(* The result comes back through the stack, over done if it is limited.    *)
Result(v) ==
  /\ procPc[v] = "handle"
  /\ handler[cur[v]] = "ended"
  /\ Conclude(v, Through(stack.outer, inside(cur[v])))
  /\ handler' = [handler EXCEPT ![cur[v]] = "returned"]
  /\ UNCHANGED <<sqsVars, asked, outcome, settings, crashed>>

(* Mutant: the middleware waits for the handler's result after all.        *)
TimeLimitThenWait(v) ==
  /\ stack.limited
  /\ procPc[v] = "handle"
  /\ handler[cur[v]] = "ended"
  /\ Conclude(v, Through(stack.outer, "error"))
  /\ UNCHANGED <<sqsVars, asked, handlerVars, settings, crashed>>

(* case <-ctx.Done() of TimeLimit: the worker goes on with ctx.Err() while *)
(* the handler runs on, or stays at its send to done for ever.             *)
TimeLimit(v) ==
  /\ stack.limited
  /\ procPc[v] = "handle"
  /\ handler[cur[v]] \in {"running", "ended"}
  /\ Conclude(v, Through(stack.outer, "error"))
  /\ UNCHANGED <<sqsVars, asked, handlerVars, settings, crashed>>

(* An adapter's assertion fails, so that no handler is called: the error   *)
(* comes back through the stack, or a time limit around it fires before.   *)
Unexpected(v) ==
  /\ procPc[v] = "handle"
  /\ handler[cur[v]] = "none"
  /\ Used("replacing")
  /\ \/ Conclude(v, Through(stack.outer, Through(stack.inner, "error")))
     \/ stack.limited /\ Conclude(v, Through(stack.outer, "error"))
  /\ handler' = [handler EXCEPT ![cur[v]] = "returned"]
  /\ UNCHANGED <<sqsVars, asked, outcome, settings, crashed>>

(* Ack: DeleteMessage on cfg.QueueURL, which knows nothing of a receipt of *)
(* another queue.                                                          *)
AckSucceeds(v) ==
  /\ sameQueue
  /\ R!AckSucceeds(v)
  /\ Deleted(cur[v])
  /\ UNCHANGED <<receiveCount, messageOf, attempt, timedOut, asked, handlerVars, settings, crashed>>

(* It fails, or its answer is lost after it has taken effect.              *)
AckFails(v) ==
  /\ R!AckFails(v)
  /\ \/ UNCHANGED visibility
     \/ sameQueue /\ Deleted(cur[v])
  /\ UNCHANGED <<receiveCount, messageOf, attempt, timedOut, asked, handlerVars, settings, crashed>>

(* The timeouts Reject may ask for; a "sync" one asks for nothing.         *)
RejectTimeout(d) ==
  CASE AckStrategy = "immediate"   -> {0}
    [] AckStrategy = "exponential" -> VisibilityTimeout(ReceiveCount(attempt[d]))
    [] OTHER -> {}

(* Mutant: ChangeMessageVisibility is also tried with a value above the    *)
(* limit, as if SQS cut it.                                                *)
RejectUnchecked(v) ==
  /\ R!RejectSucceeds(v)
  /\ \E seconds \in RejectTimeout(cur[v]) : asked' = [asked EXCEPT ![cur[v]] = seconds]
  /\ UNCHANGED <<sqsVars, handlerVars, settings, crashed>>

(* ChangeMessageVisibility succeeds for a message in flight, a timeout SQS *)
(* accepts and a receipt of this queue.                                    *)
RejectSucceeds(v) ==
  /\ R!RejectSucceeds(v)
  /\ \/ AckStrategy = "sync" /\ UNCHANGED asked
     \/ /\ sameQueue
        /\ visibility[messageOf[cur[v]]] = "hidden"
        /\ \E seconds \in RejectTimeout(cur[v]) :
             /\ Accepted(seconds)
             /\ asked' = [asked EXCEPT ![cur[v]] = seconds]
  /\ UNCHANGED <<sqsVars, handlerVars, settings, crashed>>

RejectFails(v) ==
  /\ R!RejectFails(v)
  /\ UNCHANGED <<sqsVars, asked, handlerVars, settings, crashed>>

Settle(v) == AckSucceeds(v) \/ AckFails(v) \/ RejectSucceeds(v) \/ RejectFails(v)

-----------------------------------------------------------------------------
ContextEnds ==
  /\ ~crashed
  /\ R!ContextEnds
  /\ UNCHANGED <<sqsVars, asked, handlerVars, settings, crashed>>

(* A new process: what the old one held is gone, except in the queue.      *)
Restart ==
  /\ crashed
  /\ crashed' = FALSE
  /\ ctxEnded' = FALSE
  /\ buf' = <<>>
  /\ taken' = 1..issued
  /\ procPc' = [v \in ProcessorWorkers |-> "select"]
  /\ cur' = [v \in ProcessorWorkers |-> 0]
  /\ handler' = [d \in Deliveries |-> IF messageOf[d] = NoMessage THEN "none" ELSE "returned"]
  /\ UNCHANGED <<closed, handling, queue, procResult, sqsVars, asked, outcome, settings>>

Init ==
  /\ R!Init
  /\ visibility = [m \in Messages |-> "visible"]
  /\ receiveCount \in [Messages -> FirstCounts]
  /\ messageOf = [d \in Deliveries |-> NoMessage]
  /\ attempt = [d \in Deliveries |-> 0]
  /\ asked = [d \in Deliveries |-> -1]
  /\ timedOut = {}
  /\ stack \in Stacks
  /\ sameQueue \in BOOLEAN
  /\ handler = [d \in Deliveries |-> "none"]
  /\ outcome = [d \in Deliveries |-> "none"]
  /\ crashed = FALSE

Worker(v) ==
  /\ ~crashed
  /\ \/ Fetch(v) \/ CallHandler(v) \/ Result(v)
     \/ TimeLimit(v) \/ Unexpected(v) \/ Settle(v)

Next ==
  \/ \E m \in Messages : Receive(m) \/ Reappear(m)
  \/ \E v \in ProcessorWorkers : Worker(v)
  \/ \E d \in Deliveries, result \in {"ok", "error", "panic"} : ~crashed /\ HandlerEnds(d, result)
  \/ ContextEnds
  \/ Restart

Spec == Init /\ [][Next]_vars

(* Workers are scheduled, Transform and the calls to SQS come back, and    *)
(* the time limit fires.  A handler need not end.                          *)
FairSpec == Spec /\ \A v \in ProcessorWorkers : WF_vars(Worker(v))

-----------------------------------------------------------------------------
(* Properties *)

TypeOK ==
  /\ R!TypeOK
  /\ visibility \in [Messages -> {"visible", "hidden", "deleted"}]
  /\ receiveCount \in [Messages -> Nat]
  /\ messageOf \in [Deliveries -> Messages \cup {NoMessage}]
  /\ attempt \in [Deliveries -> Nat]
  /\ asked \in [Deliveries -> {-1} \cup 0..SQSMaxVisibility]
  /\ timedOut \subseteq 1..issued
  /\ handler \in [Deliveries -> {"none", "running", "ended", "returned"}]
  /\ outcome \in [Deliveries -> {"none", "ok", "error", "panic"}]
  /\ crashed \in BOOLEAN

(* A message leaves the queue only when the user's handler has succeeded   *)
(* with it, through redeliveries, stale receipts, lost answers and crashes *)
(* of processMessage, unless IgnoreErrors is in use.  And a reject of a    *)
(* message whose handler succeeds is the work of a middleware: of a time   *)
(* limit that fired first or of timeTracking's error.                      *)
SettledByOutcome ==
  /\ \A m \in Messages :
       visibility[m] = "deleted" =>
         \/ Used("ignoreErrors")
         \/ \E d \in Deliveries : messageOf[d] = m /\ outcome[d] = "ok"
  /\ \A d \in Deliveries :
       asked[d] # -1 /\ outcome[d] = "ok" => stack.limited \/ Used("timeTracking")

(* Two handlers are at work on one message only if the visibility timeout  *)
(* of the earlier delivery ran out, in the channel or in the handler, or   *)
(* if a time limit made its worker give up while the handler goes on       *)
(* (middleware.go:51).                                                     *)
OverlapHasCause ==
  \A d, e \in Deliveries :
    /\ d < e /\ messageOf[d] = messageOf[e]
    /\ handler[d] = "running" /\ handler[e] = "running"
    => \/ d \in timedOut
       \/ stack.limited /\ \A v \in ProcessorWorkers : cur[v] # d

(* PanicRecover keeps the process alive, but not from outside a time limit:*)
(* the panic is in the goroutine TimeLimit has started.                    *)
RecoverKeepsProcess ==
  crashed => /\ ~Has("panicRecover", stack.inner)
             /\ Has("panicRecover", stack.outer) => stack.limited

(* The exponential rejector never asks for less than its maxDelay of two   *)
(* seconds, nor for less than the last time, until the delay overflows at  *)
(* the 38th receive; from the 20th to the 37th SQS refuses what it asks.   *)
RejectsSpaceOut ==
  \A e \in Deliveries : AckStrategy = "exponential" /\ asked[e] # -1 =>
    /\ asked[e] >= 2
    /\ attempt[e] \notin 20..37
    /\ attempt[e] < 38 =>
         \A d \in Deliveries :
           d < e /\ messageOf[d] = messageOf[e] => asked[d] <= asked[e]

(* Whatever middlewares, visibility timeouts, stale receipts and lost      *)
(* answers do, between two crashes the program's part of the way of a      *)
(* message is a run of Processor: each step but a restart is one of its    *)
(* steps, or leaves its variables alone.                                   *)
StepsAsProcessor == [][[R!Next]_(R!vars) \/ Restart]_vars

(* With a time limit no worker is lost to a handler that never ends.       *)
LimitFreesWorker ==
  \A v \in ProcessorWorkers :
    stack.limited /\ procPc[v] = "handle" ~> procPc[v] # "handle" \/ crashed
=============================================================================
