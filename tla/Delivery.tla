------------------------------ MODULE Delivery ------------------------------
(***************************************************************************)
(* What one Consume call and its graceful shutdown promise about messages, *)
(* without goroutines, channels or locks: a delivery that SQS has handed   *)
(* over is held until the consumer has finished with it; the consumer says *)
(* "stopped" only when it holds nothing, unless the caller has ended the   *)
(* context in the meantime; and once stopped it receives nothing more.     *)
(* SQSConsumer implements it.                                              *)
(***************************************************************************)
CONSTANT Deliveries

VARIABLES
  message,   (* "unseen", "held" or "finished", for each delivery          *)
  stopped,   (* the shutdown has been reported complete                    *)
  ended      (* the context of the call is over                            *)

vars == <<message, stopped, ended>>

Held == {d \in Deliveries : message[d] = "held"}

Init ==
  /\ message = [d \in Deliveries |-> "unseen"]
  /\ stopped = FALSE
  /\ ended = FALSE

Receive(batch) ==
  /\ ~stopped
  /\ \A d \in batch : message[d] = "unseen"
  /\ message' = [d \in Deliveries |-> IF d \in batch THEN "held" ELSE message[d]]
  /\ UNCHANGED <<stopped, ended>>

Finish(d) ==
  /\ message[d] = "held"
  /\ message' = [message EXCEPT ![d] = "finished"]
  /\ UNCHANGED <<stopped, ended>>

ReportStopped ==
  /\ ended \/ Held = {}
  /\ stopped' = TRUE
  /\ UNCHANGED <<message, ended>>

EndContext ==
  /\ ended' = TRUE
  /\ UNCHANGED <<message, stopped>>

Next ==
  \/ \E batch \in SUBSET Deliveries : Receive(batch)
  \/ \E d \in Deliveries : Finish(d)
  \/ ReportStopped
  \/ EndContext

Spec == Init /\ [][Next]_vars

-----------------------------------------------------------------------------
TypeOK ==
  /\ message \in [Deliveries -> {"unseen", "held", "finished"}]
  /\ stopped \in BOOLEAN
  /\ ended \in BOOLEAN

(* A shutdown reported complete under a live context left nothing behind,  *)
(* then or later.                                                          *)
StoppedHoldsNothing == stopped /\ ~ended => Held = {}

=============================================================================
