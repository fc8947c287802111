--------------------------- MODULE MCApplication ---------------------------
(* Application for TLC: the three examples, the third in some environments, *)
(* and programs that use the options the examples do not.                  *)
EXTENDS Application

Good == "http://queue"
Program(url, options) == [url |-> url, options |-> options]
With(field, value) == Program(Good, << <<field, value>> >>)

Env == [ProcessingWorkers |-> 4, PollingWorkers |-> 2, MaxMessages |-> 10,
        WaitTimeSeconds |-> 2, VisibilityTimeout |-> 30, ShutdownTimeout |-> 30]
InEnv(env) == Program(Good, ObservabilityOptions(env))

SomePrograms ==
  { Program(Good, SimpleOptions), Program(Good, JSONOptions), InEnv(Env),
    InEnv([Env EXCEPT !.ProcessingWorkers = 2 ^ Width]),        \* becomes 0
    InEnv([Env EXCEPT !.ProcessingWorkers = MaxInt \div 3 + 1]),
    InEnv([Env EXCEPT !.PollingWorkers = MaxInt + 1]),          \* becomes negative
    Program("", <<>>), Program("no URL", <<>>),
    With("ProcessorWorkerPoolSize", 0), With("PollerWorkerPoolSize", 0),
    With("MaxNumberOfMessages", 11), With("WaitTimeSeconds", -1),
    With("VisibilityTimeout", 43201),
    With("ErrorNumberThreshold", 2),
    With("Observability", Nil),
    With("Observability", ZeroObservability),
    With("Observability", NewObservability(<< <<"meterProvider", Nil>> >>)),
    With("Observability", NewObservability(<< <<"propagator", Nil>> >>)) }
=============================================================================
