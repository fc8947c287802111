---------------------------- MODULE RetryTiming ----------------------------
(***************************************************************************)
(* The two delays that double: backoff of the poller (consumer/poller.go)  *)
(* and calculateVisibilityTimeout of the exponential rejector              *)
(* (consumer/confirmer.go).  The unit of time is 100 ms, the base delay of *)
(* both.  Longest stands for it and for every longer duration: far above   *)
(* each limit a delay is compared with.                                    *)
(***************************************************************************)
EXTENDS Integers

BaseDelay == 1                   (* 100 ms                                 *)
MaxDelay == 20                   (* 2000 ms                                *)
Second == 10
Longest == 2 ^ 24
MaxDoublings == 36               (* 10^8 ns * 2^36 still fits in an int64  *)
MostNegative == -1               (* a duration below zero                  *)
SQSMaxVisibility == 43200        (* what SQS accepts, in seconds           *)
MaxReceiveCount == 2147483647    (* an int32                               *)

Smaller(a, b) == IF a < b THEN a ELSE b
Larger(a, b) == IF a < b THEN b ELSE a

(* The durations time.Duration(float64(baseDelay) * 2^n) may have: a       *)
(* float64 outside the int64 range converts to a value that depends on the *)
(* processor, the most negative one or the largest.                        *)
Delay(n) ==
  IF n <= MaxDoublings
    THEN {Smaller(BaseDelay * 2 ^ Smaller(n, 24), Longest)}
    ELSE {MostNegative, Longest}

(* Mutant: the larger of the two, as calculateVisibilityTimeout does.      *)
UncappedBackoff(retryCount) == {Larger(d, MaxDelay) : d \in Delay(retryCount)}

(* backoff: only a delay above maxDelay is replaced by it.                 *)
Backoff(retryCount) == {Smaller(d, MaxDelay) : d \in Delay(retryCount)}

(* time.Sleep of a duration below zero returns at once.                    *)
Pause(retryCount) == {Larger(d, 0) : d \in Backoff(retryCount)}

(* Mutant: the delay is capped, as backoff does.                           *)
CappedVisibilityTimeout(receiveCount) ==
  {Smaller(d, MaxDelay) \div Second : d \in Delay(receiveCount - 1)}

(* The ApproximateReceiveCount of a message as the rejector takes it: SQS  *)
(* counts from 1, and 0 stands for an attribute that is missing or is no   *)
(* number, which counts as 1 like one that does not fit in an int32.       *)
ReceiveCount(attribute) ==
  IF attribute \in 1..MaxReceiveCount THEN attribute ELSE 1

(* The seconds asked for, for a message received this often: the larger of *)
(* the delay and maxDelay, cut to whole seconds.  The conversion to int32  *)
(* overflows from count 36 on only for values SQS refuses before and after.*)
VisibilityTimeout(receiveCount) ==
  {Larger(d, MaxDelay) \div Second : d \in Delay(receiveCount - 1)}

Accepted(seconds) == seconds \in 0..SQSMaxVisibility
=============================================================================
