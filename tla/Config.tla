------------------------------- MODULE Config -------------------------------
(***************************************************************************)
(* consumer.Config (consumer/config.go) and observability.Config           *)
(* (consumer/observability/config.go): defaults, options, validation, and  *)
(* what NewSQSConsumer and Consume make of an accepted Config.  Sizes are  *)
(* integers of Width bits, which stands for the 32 of int32.               *)
(***************************************************************************)
EXTENDS Integers, SequencesExt

CONSTANTS
  Width,     (* bits of an int32: enough for 43200                         *)
  Nil        (* a nil pointer or interface                                 *)

ASSUME ConfigAssumption ==
  /\ Width \in 17..32
  /\ Nil \notin {"noop", "otel", "global"}

MaxInt == 2 ^ (Width - 1) - 1
MaxVisibility == 43200

(* The conversion int32(n), and what is left of a product.                 *)
Int32(n) == ((n + 2 ^ (Width - 1)) % 2 ^ Width) - 2 ^ (Width - 1)

Int32s == -(2 ^ (Width - 1)) .. MaxInt

(* Options are pairs <<field, value>>, applied in order: the last one of a *)
(* field counts.                                                           *)
Configure(config, options) ==
  FoldLeft(LAMBDA c, o : [c EXCEPT ![o[1]] = o[2]], config, options)

-----------------------------------------------------------------------------
(* Observability *)

DefaultObservability ==
  [tracerProvider |-> "noop", meterProvider |-> "noop", propagator |-> "global"]

(* WithTracerProvider and WithMeterProvider turn nil into the noop         *)
(* provider, WithPropagator takes nil as it is.                            *)
NilToNoop(option) ==
  IF option[1] # "propagator" /\ option[2] = Nil THEN <<option[1], "noop">> ELSE option

NewObservability(options) ==
  Configure(DefaultObservability, [i \in DOMAIN options |-> NilToNoop(options[i])])

(* What NewConfig makes, whatever its options.                             *)
MadeObservabilities ==
  [ tracerProvider : {"noop", "otel"}, meterProvider : {"noop", "otel"},
    propagator : {"global", Nil} ]

(* &observability.Config{}: its fields are unexported, so without NewConfig*)
(* all a program can have is the zero value.                               *)
ZeroObservability ==
  [tracerProvider |-> Nil, meterProvider |-> Nil, propagator |-> Nil]

Observabilities == MadeObservabilities \cup {ZeroObservability}

-----------------------------------------------------------------------------
(* Consumer *)

(* The options a Config is made of, as the With functions take them.       *)
Int32Fields ==
  {"ProcessorWorkerPoolSize", "PollerWorkerPoolSize", "MaxNumberOfMessages",
   "WaitTimeSeconds", "VisibilityTimeout", "ErrorNumberThreshold", "GracefulShutdownTimeout"}

Options ==
  (Int32Fields \X Int32s)
    \cup ({"Observability"} \X (Observabilities \cup {Nil}))
    \cup ({"AckStrategy"} \X STRING)

Default(url) ==
  [ QueueURL |-> url,
    ProcessorWorkerPoolSize |-> 10,
    PollerWorkerPoolSize |-> 2,
    MaxNumberOfMessages |-> 10,
    WaitTimeSeconds |-> 1,
    VisibilityTimeout |-> 30,
    ErrorNumberThreshold |-> -1,
    GracefulShutdownTimeout |-> 30,
    Observability |-> DefaultObservability,
    AckStrategy |-> "sync" ]

(* Mutant: the pool sizes are compared with == 0 instead of <= 0.          *)
IsValidWithNegativePools(c) ==
  /\ c.QueueURL \notin {"", "no URL"}
  /\ c.ProcessorWorkerPoolSize # 0
  /\ c.PollerWorkerPoolSize # 0
  /\ c.MaxNumberOfMessages \in 1..10
  /\ c.WaitTimeSeconds \in 0..20
  /\ c.VisibilityTimeout \in 0..MaxVisibility

(* A URL is "" or "no URL" (ParseRequestURI fails) or good.  The threshold *)
(* and the shutdown timeout, the strategy and Observability are not looked *)
(* at.                                                                     *)
IsValid(c) ==
  /\ c.QueueURL \notin {"", "no URL"}
  /\ c.ProcessorWorkerPoolSize > 0
  /\ c.PollerWorkerPoolSize > 0
  /\ c.MaxNumberOfMessages \in 1..10
  /\ c.WaitTimeSeconds \in 0..20
  /\ c.VisibilityTimeout \in 0..MaxVisibility

NewConfig(url, options) == Configure(Default(url), options)

(* NewSQSConsumer replaces a nil Observability by the default.             *)
ObservabilityOf(c) ==
  IF c.Observability = Nil THEN DefaultObservability ELSE c.Observability

(* NewTracer and NewMetrics call a method of their provider at once.       *)
HasProviders(observability) ==
  /\ observability # Nil
  /\ observability.tracerProvider # Nil
  /\ observability.meterProvider # Nil

(* Consume: bufferSize = ProcessorWorkerPoolSize * 3, in int32.            *)
BufferSize(c) == Int32(c.ProcessorWorkerPoolSize * 3)
=============================================================================
