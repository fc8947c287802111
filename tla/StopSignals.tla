---------------------------- MODULE StopSignals ----------------------------
(***************************************************************************)
(* Lifecycle with a record of which call each stop signal was meant for.   *)
(* A signal in stopSignalCh (consumer/consumer.go) says nothing of the     *)
(* Close that sent it, and whoever is in its select takes it; the record   *)
(* keeps which calls were running when it was sent.  Its two variables are *)
(* history: they follow the steps of Lifecycle and allow or forbid none.   *)
(***************************************************************************)
EXTENDS Lifecycle

VARIABLES
  sentTo,      (* the calls that were running when the last signal was sent *)
  stoppedBy    (* of each call: sentTo of the signal it took, {} before     *)

recordVars == <<vars, sentTo, stoppedBy>>

Sent == stopSignalCh = 0 /\ stopSignalCh' = 1
Took(c) == consume[c] = "select" /\ consume'[c] = "drainPoller"

Record ==
  /\ sentTo' = IF Sent THEN {c \in Calls : Running(c)} ELSE sentTo
  /\ stoppedBy' = [c \in Calls |-> IF Took(c) THEN sentTo ELSE stoppedBy[c]]

RecordInit ==
  /\ Init
  /\ sentTo = {}
  /\ stoppedBy = [c \in Calls |-> {}]

RecordNext == Next /\ Record

RecordSpec == RecordInit /\ [][RecordNext]_recordVars

-----------------------------------------------------------------------------
(* Properties *)

(* The signal was sent to this very call, whose shutdown is announced.     *)
Asked(c) == stoppedBy[c] = {c} /\ isClosing

(* The signal was sent to another call, which returned and left it behind  *)
(* in the channel.                                                         *)
LeftBehind(c) ==
  \E d \in Calls \ {c} : stoppedBy[c] = {d} /\ consume[d] = "returned"

(* A Consume call that shuts down was asked to by a Close that is still    *)
(* announced, or has met the signal of an earlier call's Close, which that *)
(* call left in the channel.  It goes otherwise only after a refused call  *)
(* has cleared the flags of the running one (consumer.go:169-176).         *)
StoppedOnlyWhenAsked ==
  \A c \in Calls : Draining(c) => Asked(c) \/ LeftBehind(c) \/ RefusalCleared
=============================================================================
