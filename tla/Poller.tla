------------------------------- MODULE Poller -------------------------------
(***************************************************************************)
(* sqsPoller (consumer/poller.go): one Poll call and its pool of workers.  *)
(* A worker asks SQS for a batch and puts the batch, one message at a      *)
(* time, on the channel the processor reads.  Consecutive failures are     *)
(* counted per worker; at the threshold the worker leaves its error in     *)
(* errCh and cancels the context all workers share.  Poll waits for every  *)
(* worker, closes the channel and returns the first error or nil.          *)
(*                                                                         *)
(* A delivery is one message as handed out by one ReceiveMessage call (its *)
(* receipt handle); deliveries are numbered in the order SQS issues them.  *)
(* The receiving end of the channel and the end of the caller's context    *)
(* are the environment here; SQSConsumer supplies the real ones.           *)
(***************************************************************************)
EXTENDS Naturals, Sequences, Functions

CONSTANTS
  PollerWorkers,          (* the goroutines Poll starts                    *)
  ErrorNumberThreshold,   (* 0 stands for every value <= 0: no threshold   *)
  MaxNumberOfMessages,    (* most messages in one ReceiveMessage result    *)
  Capacity,               (* buffer size of the messages channel           *)
  MaxDeliveries,          (* bound: deliveries SQS issues in a behaviour   *)
  MaxRetries              (* bound: consecutive failures of one worker     *)

ASSUME PollerAssumption ==
  /\ ErrorNumberThreshold \in Nat
  /\ MaxNumberOfMessages \in Nat \ {0}
  /\ Capacity \in Nat
  /\ MaxDeliveries \in Nat
  /\ MaxRetries \in Nat

VARIABLES
  parentCtx,    (* what has ended the context given to Poll, so far        *)
  canceled,     (* Poll's own cancel() has been called                     *)
  issued,       (* deliveries issued by SQS so far                         *)
  pollerPc,     (* where each worker is in runWorker                       *)
  batch,        (* received messages a worker has still to send            *)
  retryCount,   (* runWorker's local counter                               *)
  errCh,        (* workers whose error lies in errCh; each sends once, and *)
                (* the channel has room for all of them                    *)
  buf,          (* the messages channel                                    *)
  taken,        (* deliveries the receiving end has taken                  *)
  pollResult    (* "running" until Poll returns; then the channel is closed*)

pollerVars == <<canceled, issued, pollerPc, batch, retryCount, errCh, pollResult>>
vars == <<parentCtx, buf, taken, pollerVars>>

Deliveries == 1..MaxDeliveries
Causes == {"canceled", "deadline"}

(* ctx.Err() and the kind of error a call under that context reports.  The *)
(* first cause decides in Go; with both present either kind is allowed.    *)
ctxCauses == parentCtx \cup (IF canceled THEN {"canceled"} ELSE {})
ctxEnded == ctxCauses # {}

closed == pollResult # "running"

Move(w, from, to) ==
  /\ pollerPc[w] = from
  /\ pollerPc' = [pollerPc EXCEPT ![w] = to]

-----------------------------------------------------------------------------
(* Workers *)

(* Mutant: the check at the top of the loop is missing.                    *)
CheckNothing(w) ==
  /\ Move(w, "check", "receiving")
  /\ UNCHANGED <<parentCtx, buf, taken, canceled, issued, batch, retryCount, errCh, pollResult>>

(* Top of the loop: leave when the context is over, otherwise call SQS.    *)
CheckContext(w) ==
  /\ Move(w, "check", IF ctxEnded THEN "done" ELSE "receiving")
  /\ UNCHANGED <<parentCtx, buf, taken, canceled, issued, batch, retryCount, errCh, pollResult>>

(* ReceiveMessage returns n messages; the connector may succeed even after *)
(* the context ended (the reply was already there).                        *)
ReceiveSucceeds(w, n) ==
  /\ Move(w, "receiving", IF n = 0 THEN "check" ELSE "sending")
  /\ issued + n <= MaxDeliveries
  /\ issued' = issued + n
  /\ batch' = [batch EXCEPT ![w] = [i \in 1..n |-> issued + i]]
  /\ retryCount' = [retryCount EXCEPT ![w] = 0]
  /\ UNCHANGED <<parentCtx, buf, taken, canceled, errCh, pollResult>>

(* Mutant: every error is taken for a cancellation.                        *)
ReceiveReturnsOnAnyError(w) ==
  /\ Move(w, "receiving", "done")
  /\ UNCHANGED <<parentCtx, buf, taken, canceled, issued, batch, retryCount, errCh, pollResult>>

(* errors.Is(err, context.Canceled): a silent return.                      *)
ReceiveCanceled(w) ==
  /\ "canceled" \in ctxCauses
  /\ Move(w, "receiving", "done")
  /\ UNCHANGED <<parentCtx, buf, taken, canceled, issued, batch, retryCount, errCh, pollResult>>

ThresholdReached(count) ==
  ErrorNumberThreshold > 0 /\ count >= ErrorNumberThreshold

(* Any other error, an expired deadline included, below the threshold.     *)
ReceiveFails(w) ==
  /\ retryCount[w] < MaxRetries
  /\ ~ThresholdReached(retryCount[w] + 1)
  /\ Move(w, "receiving", "backoff")
  /\ retryCount' = [retryCount EXCEPT ![w] = @ + 1]
  /\ UNCHANGED <<parentCtx, buf, taken, canceled, issued, batch, errCh, pollResult>>

(* Mutant: the worker reports its error but does not cancel the others.    *)
GiveUpAlone(w) ==
  /\ ThresholdReached(retryCount[w] + 1)
  /\ Move(w, "receiving", "done")
  /\ retryCount' = [retryCount EXCEPT ![w] = @ + 1]
  /\ errCh' = errCh \cup {w}
  /\ UNCHANGED <<parentCtx, buf, taken, canceled, issued, batch, pollResult>>

(* The failure that reaches the threshold: report, cancel() and return.    *)
GiveUp(w) ==
  /\ ThresholdReached(retryCount[w] + 1)
  /\ Move(w, "receiving", "done")
  /\ retryCount' = [retryCount EXCEPT ![w] = @ + 1]
  /\ errCh' = errCh \cup {w}
  /\ canceled' = TRUE
  /\ UNCHANGED <<parentCtx, buf, taken, issued, batch, pollResult>>

(* time.Sleep(p.backoff(retryCount)): not interrupted by the context.      *)
WakeUp(w) ==
  /\ Move(w, "backoff", "check")
  /\ UNCHANGED <<parentCtx, buf, taken, canceled, issued, batch, retryCount, errCh, pollResult>>

(* Mutant: the send gives up when the context is over, and the rest of the *)
(* batch goes with it.                                                     *)
SendUnlessCanceled(w) ==
  /\ IF ctxEnded
        THEN /\ Move(w, "sending", "done")
             /\ batch' = [batch EXCEPT ![w] = <<>>]
             /\ UNCHANGED buf
        ELSE /\ Len(buf) < Capacity
             /\ Move(w, "sending", IF Len(batch[w]) = 1 THEN "check" ELSE "sending")
             /\ buf' = Append(buf, Head(batch[w]))
             /\ batch' = [batch EXCEPT ![w] = Tail(@)]
  /\ UNCHANGED <<parentCtx, taken, canceled, issued, retryCount, errCh, pollResult>>

(* Mutant: an unbounded queue in place of the buffered channel.            *)
SendUnbounded(w) ==
  /\ Move(w, "sending", IF Len(batch[w]) = 1 THEN "check" ELSE "sending")
  /\ buf' = Append(buf, Head(batch[w]))
  /\ batch' = [batch EXCEPT ![w] = Tail(@)]
  /\ UNCHANGED <<parentCtx, taken, canceled, issued, retryCount, errCh, pollResult>>

(* ch <- msg: a plain send, which waits for room whatever the context says.*)
Send(w) ==
  /\ Len(buf) < Capacity
  /\ Move(w, "sending", IF Len(batch[w]) = 1 THEN "check" ELSE "sending")
  /\ buf' = Append(buf, Head(batch[w]))
  /\ batch' = [batch EXCEPT ![w] = Tail(@)]
  /\ UNCHANGED <<parentCtx, taken, canceled, issued, retryCount, errCh, pollResult>>

Worker(w) ==
  \/ CheckContext(w)
  \/ \E n \in 0..MaxNumberOfMessages : ReceiveSucceeds(w, n)
  \/ ReceiveCanceled(w)
  \/ ReceiveFails(w)
  \/ GiveUp(w)
  \/ WakeUp(w)
  \/ Send(w)

(* Mutant: Poll returns with the first error instead of waiting for the    *)
(* other workers.                                                          *)
PollReturnsAtFirstError ==
  /\ pollResult = "running"
  /\ errCh # {} \/ \A w \in PollerWorkers : pollerPc[w] = "done"
  /\ pollResult' = IF PollerWorkers = {} \/ errCh # {} THEN "error" ELSE "nil"
  /\ canceled' = TRUE
  /\ UNCHANGED <<parentCtx, buf, taken, issued, pollerPc, batch, retryCount, errCh>>

(* wg.Wait(), the choice of the result, and the deferred close(ch) and     *)
(* cancel(). An empty pool is refused before any worker starts.            *)
PollReturns ==
  /\ pollResult = "running"
  /\ \A w \in PollerWorkers : pollerPc[w] = "done"
  /\ pollResult' = IF PollerWorkers = {} \/ errCh # {} THEN "error" ELSE "nil"
  /\ canceled' = TRUE
  /\ UNCHANGED <<parentCtx, buf, taken, issued, pollerPc, batch, retryCount, errCh>>

-----------------------------------------------------------------------------
(* Environment: the processor's receive, and the caller's context.         *)

Receive ==
  /\ buf # <<>>
  /\ buf' = Tail(buf)
  /\ taken' = taken \cup {Head(buf)}
  /\ UNCHANGED <<parentCtx, pollerVars>>

ParentEnds(cause) ==
  /\ cause \notin parentCtx
  /\ parentCtx' = parentCtx \cup {cause}
  /\ UNCHANGED <<buf, taken, pollerVars>>

Init ==
  /\ parentCtx = {}
  /\ canceled = FALSE
  /\ issued = 0
  /\ pollerPc = [w \in PollerWorkers |-> "check"]
  /\ batch = [w \in PollerWorkers |-> <<>>]
  /\ retryCount = [w \in PollerWorkers |-> 0]
  /\ errCh = {}
  /\ buf = <<>>
  /\ taken = {}
  /\ pollResult = "running"

(* Poll has returned and the channel is drained: nothing is left to do, so *)
(* this is the one state in which stopping is not a deadlock.              *)
Terminated ==
  /\ closed
  /\ buf = <<>>
  /\ UNCHANGED vars

Next ==
  \/ \E w \in PollerWorkers : Worker(w)
  \/ PollReturns
  \/ Receive
  \/ \E cause \in Causes : ParentEnds(cause)
  \/ Terminated

Spec == Init /\ [][Next]_vars

(* Goroutines are scheduled, a ReceiveMessage call comes back (with what   *)
(* is left open), a sleep ends, and a live processor keeps receiving.      *)
Fairness ==
  /\ \A w \in PollerWorkers : WF_vars(Worker(w))
  /\ WF_vars(PollReturns)
  /\ WF_vars(Receive)

FairSpec == Spec /\ Fairness

-----------------------------------------------------------------------------
(* Properties *)

TypeOK ==
  /\ parentCtx \subseteq Causes
  /\ canceled \in BOOLEAN
  /\ issued \in 0..MaxDeliveries
  /\ pollerPc \in [PollerWorkers -> {"check", "receiving", "backoff", "sending", "done"}]
  /\ batch \in [PollerWorkers -> Seq(Deliveries)]
  /\ retryCount \in [PollerWorkers -> Nat]
  /\ errCh \subseteq PollerWorkers
  /\ buf \in Seq(Deliveries) /\ Len(buf) <= Capacity
  /\ taken \subseteq Deliveries
  /\ pollResult \in {"running", "nil", "error"}

(* No worker can reach "ch <- msg" once Poll has closed the channel: the   *)
(* close in Poll's deferred function is safe only because of wg.Wait.      *)
NoSendAfterClose ==
  closed => \A w \in PollerWorkers : pollerPc[w] = "done" /\ batch[w] = <<>>

(* Every message SQS handed over is in exactly one place: waiting in one   *)
(* worker's batch, in the channel, or with the receiving side.  The poller *)
(* loses none and forwards none twice, whatever is cancelled or failing    *)
(* around it.                                                              *)
NothingLost ==
  1..issued = (UNION {Range(batch[w]) : w \in PollerWorkers}) \cup Range(buf) \cup taken

NothingDuplicated ==
  /\ IsInjective(buf)
  /\ Range(buf) \cap taken = {}
  /\ \A w \in PollerWorkers :
       /\ IsInjective(batch[w])
       /\ Range(batch[w]) \cap (Range(buf) \cup taken) = {}
       /\ \A v \in PollerWorkers \ {w} : Range(batch[w]) \cap Range(batch[v]) = {}

NothingLostOrDuplicated == NothingLost /\ NothingDuplicated

(* Poll ends without an error only if the context it was given ended, and  *)
(* with an error only if the threshold is enabled and a worker reached it  *)
(* (or there are no workers).                                              *)
ResultIsJustified ==
  /\ pollResult = "nil" => parentCtx # {}
  /\ pollResult = "error" =>
       PollerWorkers = {} \/ \E w \in errCh : ThresholdReached(retryCount[w])

(* One worker at the threshold ends the whole call with its error: the     *)
(* others, which may be sleeping, receiving or sending, all notice the     *)
(* shared cancel(), and no later success hides the error.                  *)
ThresholdEndsPoll == errCh # {} ~> pollResult = "error"

(* The end of the caller's context ends Poll, as long as somebody reads    *)
(* the channel: a cancelled call, a sleeping worker and a half-sent batch  *)
(* all come to an end.                                                     *)
CancellationEndsPoll == parentCtx # {} ~> closed

=============================================================================
