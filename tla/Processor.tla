----------------------------- MODULE Processor -----------------------------
(***************************************************************************)
(* processorSQS (consumer/processor.go) and its acknowledger               *)
(* (consumer/confirmer.go): one Process call.  Each worker of the pool     *)
(* selects between the end of the context and the messages channel; a      *)
(* message it takes is transformed, handled and then acknowledged or       *)
(* rejected, and no failure on that way stops the worker.  Process returns *)
(* when every worker has left.                                             *)
(*                                                                         *)
(* The sending end of the channel, its close and the end of the context    *)
(* are the environment here; SQSConsumer supplies the real ones.           *)
(***************************************************************************)
EXTENDS Naturals, Sequences, Functions

CONSTANTS
  ProcessorWorkers,   (* the goroutines Process starts                     *)
  AckStrategy,        (* "sync", "immediate" or "exponential"              *)
  Capacity,           (* buffer size of the messages channel               *)
  MaxDeliveries       (* bound: deliveries that may come through           *)

ASSUME ProcessorAssumption ==
  /\ AckStrategy \in {"sync", "immediate", "exponential"}
  /\ Capacity \in Nat
  /\ MaxDeliveries \in Nat

VARIABLES
  ctxEnded,     (* the context given to Process is over                    *)
  buf,          (* the messages channel                                    *)
  closed,       (* the channel has been closed                             *)
  taken,        (* deliveries a worker has received from the channel       *)
  procPc,       (* where each worker is in its loop and processMessage     *)
  cur,          (* the delivery a worker works on, 0 when none             *)
  handling,     (* what became of each delivery in Transform and Handle    *)
  queue,        (* what our calls made of the message in SQS               *)
  procResult    (* "running" until Process returns                         *)

channel == <<buf, closed>>
processorVars == <<taken, procPc, cur, handling, queue, procResult>>
vars == <<ctxEnded, channel, processorVars>>

Deliveries == 1..MaxDeliveries

Move(v, from, to) ==
  /\ procPc[v] = from
  /\ procPc' = [procPc EXCEPT ![v] = to]

(* processMessage returns: the worker is back at its select.               *)
Release(v, from) ==
  /\ Move(v, from, "select")
  /\ cur' = [cur EXCEPT ![v] = 0]

-----------------------------------------------------------------------------
(* Workers *)

(* Mutant: a plain range over msgs that checks the context per message.    *)
StopAtNextMessage(v) ==
  /\ ctxEnded
  /\ buf # <<>>
  /\ Move(v, "select", "done")
  /\ buf' = Tail(buf)
  /\ taken' = taken \cup {Head(buf)}
  /\ UNCHANGED <<ctxEnded, closed, cur, handling, queue, procResult>>

(* case <-ctx.Done(): possible with messages waiting, select is unordered. *)
Stop(v) ==
  /\ ctxEnded
  /\ Move(v, "select", "done")
  /\ UNCHANGED <<ctxEnded, channel, taken, cur, handling, queue, procResult>>

(* case msg, ok := <-msgs, with a message; the context may be over.        *)
Take(v) ==
  /\ buf # <<>>
  /\ Move(v, "select", "transform")
  /\ cur' = [cur EXCEPT ![v] = Head(buf)]
  /\ buf' = Tail(buf)
  /\ taken' = taken \cup {Head(buf)}
  /\ UNCHANGED <<ctxEnded, closed, handling, queue, procResult>>

(* Mutant: ok is not looked at, so that the zero message of the closed     *)
(* channel is processed.                                                   *)
DrainedAsMessage(v) ==
  /\ closed
  /\ buf = <<>>
  /\ Move(v, "select", "transform")
  /\ UNCHANGED <<ctxEnded, channel, taken, cur, handling, queue, procResult>>

(* case msg, ok := <-msgs, with !ok: closed, and every message received.   *)
Drained(v) ==
  /\ closed
  /\ buf = <<>>
  /\ Move(v, "select", "done")
  /\ UNCHANGED <<ctxEnded, channel, taken, cur, handling, queue, procResult>>

(* Mutant: the worker looks at the context again before it handles.        *)
TransformThenCheck(v) ==
  /\ IF ctxEnded
        THEN /\ Move(v, "transform", "done")
             /\ cur' = [cur EXCEPT ![v] = 0]
        ELSE Move(v, "transform", "handle") /\ UNCHANGED cur
  /\ UNCHANGED <<ctxEnded, channel, taken, handling, queue, procResult>>

TransformSucceeds(v) ==
  /\ Move(v, "transform", "handle")
  /\ UNCHANGED <<ctxEnded, channel, taken, cur, handling, queue, procResult>>

(* A message the adapter cannot transform is neither acknowledged nor      *)
(* rejected: it reappears after its visibility timeout.                    *)
TransformFails(v) ==
  /\ Release(v, "transform")
  /\ handling' = [handling EXCEPT ![cur[v]] = "untransformed"]
  /\ UNCHANGED <<ctxEnded, channel, taken, queue, procResult>>

HandleSucceeds(v) ==
  /\ Move(v, "handle", "ack")
  /\ handling' = [handling EXCEPT ![cur[v]] = "ok"]
  /\ UNCHANGED <<ctxEnded, channel, taken, cur, queue, procResult>>

HandleFails(v) ==
  /\ Move(v, "handle", "reject")
  /\ handling' = [handling EXCEPT ![cur[v]] = "error"]
  /\ UNCHANGED <<ctxEnded, channel, taken, cur, queue, procResult>>

(* Every strategy acknowledges by DeleteMessage.                           *)
AckSucceeds(v) ==
  /\ Release(v, "ack")
  /\ queue' = [queue EXCEPT ![cur[v]] = "deleted"]
  /\ UNCHANGED <<ctxEnded, channel, taken, handling, procResult>>

(* Mutant: a failed DeleteMessage is answered by handling once more.       *)
AckFailsAndRetries(v) ==
  /\ Move(v, "ack", "handle")
  /\ UNCHANGED <<ctxEnded, channel, taken, cur, handling, queue, procResult>>

(* DeleteMessage fails, because of SQS or because the context is over: the *)
(* error is logged and the handled message stays in the queue.             *)
AckFails(v) ==
  /\ Release(v, "ack")
  /\ UNCHANGED <<ctxEnded, channel, taken, handling, queue, procResult>>

(* What a successful Reject does to the message: nothing ("sync"), a zero  *)
(* visibility timeout ("immediate") or a growing one ("exponential").      *)
Rejected ==
  CASE AckStrategy = "sync"        -> "hidden"
    [] AckStrategy = "immediate"   -> "visible"
    [] AckStrategy = "exponential" -> "delayed"

(* Mutant: the return after Reject is missing.                             *)
RejectThenAck(v) ==
  /\ Move(v, "reject", "ack")
  /\ queue' = [queue EXCEPT ![cur[v]] = Rejected]
  /\ UNCHANGED <<ctxEnded, channel, taken, cur, handling, procResult>>

RejectSucceeds(v) ==
  /\ Release(v, "reject")
  /\ queue' = [queue EXCEPT ![cur[v]] = Rejected]
  /\ UNCHANGED <<ctxEnded, channel, taken, handling, procResult>>

(* ChangeMessageVisibility fails; a "sync" Reject calls nothing.           *)
RejectFails(v) ==
  /\ AckStrategy # "sync"
  /\ Release(v, "reject")
  /\ UNCHANGED <<ctxEnded, channel, taken, handling, queue, procResult>>

Worker(v) ==
  \/ Stop(v)
  \/ Take(v)
  \/ Drained(v)
  \/ TransformSucceeds(v)
  \/ TransformFails(v)
  \/ HandleSucceeds(v)
  \/ HandleFails(v)
  \/ AckSucceeds(v)
  \/ AckFails(v)
  \/ RejectSucceeds(v)
  \/ RejectFails(v)

(* Mutant: wg.Add inside the goroutine, so that Wait may see only some of  *)
(* the workers.                                                            *)
ProcessReturnsEarly ==
  /\ procResult = "running"
  /\ ProcessorWorkers = {} \/ \E v \in ProcessorWorkers : procPc[v] = "done"
  /\ procResult' = IF ProcessorWorkers = {} THEN "error" ELSE "nil"
  /\ UNCHANGED <<ctxEnded, channel, taken, procPc, cur, handling, queue>>

(* wg.Wait() and return nil; an empty pool is a WrongConfigError at once.  *)
ProcessReturns ==
  /\ procResult = "running"
  /\ \A v \in ProcessorWorkers : procPc[v] = "done"
  /\ procResult' = IF ProcessorWorkers = {} THEN "error" ELSE "nil"
  /\ UNCHANGED <<ctxEnded, channel, taken, procPc, cur, handling, queue>>

-----------------------------------------------------------------------------
(* Environment: the poller's end of the channel, and the context. *)

Feed(d) ==
  /\ ~closed
  /\ Len(buf) < Capacity
  /\ d \notin Range(buf) \cup taken
  /\ buf' = Append(buf, d)
  /\ UNCHANGED <<ctxEnded, closed, processorVars>>

CloseChannel ==
  /\ ~closed
  /\ closed' = TRUE
  /\ UNCHANGED <<ctxEnded, buf, processorVars>>

ContextEnds ==
  /\ ~ctxEnded
  /\ ctxEnded' = TRUE
  /\ UNCHANGED <<channel, processorVars>>

(* Process has returned and nobody will close the channel any more.        *)
Terminated ==
  /\ procResult # "running"
  /\ UNCHANGED vars

Init ==
  /\ ctxEnded = FALSE
  /\ buf = <<>>
  /\ closed = FALSE
  /\ taken = {}
  /\ procPc = [v \in ProcessorWorkers |-> "select"]
  /\ cur = [v \in ProcessorWorkers |-> 0]
  /\ handling = [d \in Deliveries |-> "none"]
  /\ queue = [d \in Deliveries |-> "hidden"]
  /\ procResult = "running"

Next ==
  \/ \E v \in ProcessorWorkers : Worker(v)
  \/ ProcessReturns
  \/ \E d \in Deliveries : Feed(d)
  \/ CloseChannel
  \/ ContextEnds
  \/ Terminated

Spec == Init /\ [][Next]_vars

(* Goroutines are scheduled, and Transform, Handle and the calls to SQS    *)
(* come back, with an outcome left open.  Nothing is asked of the poller.  *)
Fairness ==
  /\ \A v \in ProcessorWorkers : WF_vars(Worker(v))
  /\ WF_vars(ProcessReturns)

FairSpec == Spec /\ Fairness

-----------------------------------------------------------------------------
(* Properties *)

TypeOK ==
  /\ ctxEnded \in BOOLEAN
  /\ buf \in Seq(Deliveries) /\ Len(buf) <= Capacity
  /\ closed \in BOOLEAN
  /\ taken \subseteq Deliveries
  /\ procPc \in [ProcessorWorkers ->
       {"select", "transform", "handle", "ack", "reject", "done"}]
  /\ cur \in [ProcessorWorkers -> {0} \cup Deliveries]
  /\ \A v \in ProcessorWorkers : cur[v] = 0 <=> procPc[v] \in {"select", "done"}
  /\ handling \in [Deliveries -> {"none", "untransformed", "ok", "error"}]
  /\ queue \in [Deliveries -> {"hidden", "deleted", "visible", "delayed"}]
  /\ procResult \in {"running", "nil", "error"}

(* Only a message whose handler succeeded is deleted, and only one whose   *)
(* handler failed is made visible again by the consumer: processMessage    *)
(* never takes both ways for one delivery, nor the wrong one.              *)
SettledAsHandled ==
  \A d \in Deliveries :
    /\ queue[d] = "deleted" => handling[d] = "ok"
    /\ queue[d] \in {"visible", "delayed"} => handling[d] = "error"

Finished(d) == d \in taken /\ \A v \in ProcessorWorkers : cur[v] # d

(* No message is dropped between the channel and its handler, even when    *)
(* the context ends in between: every delivery taken from the channel and  *)
(* no longer in a worker's hands has been handled or could not be          *)
(* transformed.  What the end of the context leaves behind is in the       *)
(* channel.                                                                *)
NoneAbandoned ==
  \A d \in taken : Finished(d) => handling[d] # "none"

(* A delivery is handled at most once: its outcome never changes, whatever *)
(* happens to the calls that follow.                                       *)
HandledAtMostOnce ==
  [][\A v \in ProcessorWorkers :
       HandleSucceeds(v) \/ HandleFails(v) => handling[cur[v]] = "none"]_vars

(* Process returns nil under a live context only when the channel is       *)
(* closed and drained and every message received from it is finished:      *)
(* what the graceful shutdown relies on.                                   *)
NilMeansDrained ==
  procResult = "nil" /\ ~ctxEnded =>
    /\ closed
    /\ buf = <<>>
    /\ \A d \in taken : Finished(d)

(* Closing the channel ends Process: the backlog is worked off and every   *)
(* worker leaves.                                                          *)
CloseEndsProcess == closed ~> procResult # "running"

(* The end of the context ends Process, although messages may go on being  *)
(* received while both cases of the select are ready.                      *)
ContextEndsProcess == ctxEnded ~> procResult # "running"

=============================================================================
