---------------------------- MODULE Observability ----------------------------
(***************************************************************************)
(* The instrumentation as the consumer uses it: the workers of the         *)
(* processor extract the trace of each message (TraceCarriers) and, like   *)
(* the workers of the poller and the callers of Consume, record metrics on *)
(* instruments they share (Instruments), each goroutine in the order its   *)
(* code has.  A failed type assertion panics, which ends the process.      *)
(***************************************************************************)
EXTENDS Instruments, TraceCarriers, Sequences

CONSTANTS
  Pollers,     (* the goroutines of the poller                             *)
  Consumers,   (* the calls of Consume, each in a goroutine of its own     *)
  MaxBatch     (* messages in one answer of SQS                            *)

VARIABLES
  todo,        (* what each goroutine has still to record                  *)
  consumePc,   (* of each call of Consume                                  *)
  isRunning,   (* the flag that refuses a second call                      *)
  launched     (* a call has started the poller and the processor          *)

consumeVars == <<consumePc, isRunning, launched>>

(* The active workers of the poller and of the processor, and the buffer.  *)
RecordStarted ==
  <<<<"activeWorkers", "gauge">>, <<"activeWorkers", "gauge">>, <<"bufferSize", "gauge">>>>

(* The deferred function of every call, of a refused one too.              *)
RecordStopped == <<<<"activeWorkers", "gauge">>, <<"activeWorkers", "gauge">>>>

ConsumeRecords == {RecordStarted, RecordStopped}

RecordTransform == <<<<"processingDuration", "histogram">>, <<"messages", "counter">>>>
RecordHandle == RecordTransform
RecordAcknowledgment == <<<<"acknowledgmentDuration", "histogram">>, <<"messages", "counter">>>>
RecordPolling == <<<<"pollingDuration", "histogram">>, <<"pollingRequests", "counter">>>>

(* Mutant: the decorator counts with RecordDuration what others count with *)
(* Counter.                                                                *)
RecordReceivedAsDuration(n) ==
  <<<<"messagesReceived", "gauge">>>> \o [i \in 1..n |-> <<"messages", "histogram">>]

(* A batch: its length, and each of its messages.                          *)
RecordReceived(n) ==
  <<<<"messagesReceived", "gauge">>>> \o [i \in 1..n |-> <<"messages", "counter">>]

(* A message that cannot be transformed is not handled; an unsuccessful    *)
(* handler is followed by Reject, which records what Ack does.             *)
MessageRecords ==
  {RecordTransform, RecordTransform \o RecordHandle \o RecordAcknowledgment}

PollRecords ==
  {RecordPolling} \cup {RecordPolling \o RecordReceived(n) : n \in 0..MaxBatch}

RecordedUses ==
  UNION {{records[i] : i \in DOMAIN records} :
           records \in ConsumeRecords \cup MessageRecords \cup PollRecords}

(* Both pools and the callers of Consume record, and nothing but what is   *)
(* above.                                                                  *)
ASSUME ObservabilityAssumption ==
  /\ Callers = Workers \cup Pollers \cup Consumers
  /\ Uses = RecordedUses

vars == <<instrumentVars, traceVars, todo, consumeVars>>

Free(c) == metricPc[c] = "idle" /\ todo[c] = <<>>

(* Past the gate a call records before it starts any goroutine.            *)
StartConsume(m) ==
  /\ consumePc[m] = "called" /\ ~isRunning
  /\ isRunning' = TRUE
  /\ consumePc' = [consumePc EXCEPT ![m] = "starting"]
  /\ todo' = [todo EXCEPT ![m] = RecordStarted]
  /\ UNCHANGED <<instrumentVars, traceVars, launched>>

Launch(m) ==
  /\ consumePc[m] = "starting" /\ Free(m)
  /\ consumePc' = [consumePc EXCEPT ![m] = "waiting"]
  /\ launched' = TRUE
  /\ UNCHANGED <<instrumentVars, traceVars, todo, isRunning>>

(* A call is refused, or for whatever reason stops to wait: the deferred   *)
(* function clears the flag and records, while workers may go on.          *)
StopConsume(m) ==
  /\ \/ consumePc[m] = "called" /\ isRunning
     \/ consumePc[m] = "waiting"
  /\ isRunning' = FALSE
  /\ consumePc' = [consumePc EXCEPT ![m] = "deferred"]
  /\ todo' = [todo EXCEPT ![m] = RecordStopped]
  /\ UNCHANGED <<instrumentVars, traceVars, launched>>

StartMessage(w) ==
  /\ launched /\ Free(w)
  /\ \E trace \in MessageTraces, c \in Carriers : GetCarrier(w, trace, c)
  /\ UNCHANGED <<instrumentVars, todo, consumeVars>>

ExtractTrace(w) ==
  /\ Reset(w) \/ \E key \in Keys : ReadKey(w, key)
  /\ UNCHANGED <<instrumentVars, todo, consumeVars>>

Process(w) ==
  /\ PutCarrier(w)
  /\ \E records \in MessageRecords : todo' = [todo EXCEPT ![w] = records]
  /\ UNCHANGED <<instrumentVars, consumeVars>>

Poll(p) ==
  /\ launched /\ Free(p)
  /\ \E records \in PollRecords : todo' = [todo EXCEPT ![p] = records]
  /\ UNCHANGED <<instrumentVars, traceVars, consumeVars>>

RecordNext(c) ==
  /\ todo[c] # <<>>
  /\ Record(c, Head(todo[c]))
  /\ todo' = [todo EXCEPT ![c] = Tail(@)]
  /\ UNCHANGED <<traceVars, consumeVars>>

UseInstrument(c) ==
  /\ GetOrCreate(c)
  /\ UNCHANGED <<traceVars, todo, consumeVars>>

Alive == \A c \in Callers : metricPc[c] # "panicked"

Init ==
  /\ InstrumentsInit
  /\ TraceInit
  /\ todo = [c \in Callers |-> <<>>]
  /\ consumePc = [m \in Consumers |-> "called"]
  /\ isRunning = FALSE /\ launched = FALSE

Next ==
  /\ Alive
  /\ \/ \E m \in Consumers : StartConsume(m) \/ Launch(m) \/ StopConsume(m)
     \/ \E w \in Workers : StartMessage(w) \/ ExtractTrace(w) \/ Process(w)
     \/ \E p \in Pollers : Poll(p)
     \/ \E c \in Callers : RecordNext(c) \/ UseInstrument(c)

Spec == Init /\ [][Next]_vars

-----------------------------------------------------------------------------
(* Properties *)

(* No assertion fails at all: in the consumer every name is recorded with *)
(* one kind of instrument, whichever goroutine is first.                   *)
NoPanic == Alive
=============================================================================
