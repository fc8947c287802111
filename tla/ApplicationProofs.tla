-------------------------- MODULE ApplicationProofs --------------------------
(***************************************************************************)
(* Theorems about Application: for every program that calls the consumer   *)
(* once and closes it from a goroutine, whatever options it gives, and for *)
(* Config, which makes a typed configuration of them.                      *)
(***************************************************************************)
EXTENDS Application, DataLemmas

LP == INSTANCE LifecycleProofs WITH
        Calls <- {Main}, Closers <- {Hook}, PollResults <- {"nil", "error"},
        ProcessResults <- {"nil", "error"}, Causes <- {}, Overlapping <- FALSE,
        NoOne <- "noOne", sentTo <- {}, stoppedBy <- [c \in {Main} |-> {}]

-----------------------------------------------------------------------------
(* Configurations *)

Configs ==
  [ QueueURL : STRING,
    ProcessorWorkerPoolSize : Int32s,
    PollerWorkerPoolSize : Int32s,
    MaxNumberOfMessages : Int32s,
    WaitTimeSeconds : Int32s,
    VisibilityTimeout : Int32s,
    ErrorNumberThreshold : Int32s,
    GracefulShutdownTimeout : Int32s,
    Observability : Observabilities \cup {Nil},
    AckStrategy : STRING \cup {"sync"} ]

Apply(c, option) == [c EXCEPT ![option[1]] = option[2]]

LEMMA ApplyTyped ==
  ASSUME NEW c \in Configs, NEW option \in Options
  PROVE  Apply(c, option) \in Configs
<1>1. CASE option \in Int32Fields \X Int32s
  BY <1>1 DEF Apply, Configs, Int32Fields
<1>2. CASE option \in {"Observability"} \X (Observabilities \cup {Nil})
  BY <1>2 DEF Apply, Configs
<1>3. CASE option \in {"AckStrategy"} \X STRING
  BY <1>3 DEF Apply, Configs
<1> QED
  BY <1>1, <1>2, <1>3 DEF Options

(* FoldLeft works through the sets of indices, the greatest one last.      *)
Greatest(s) == CHOOSE x \in s : \A y \in s : x >= y

Applied(iter, c, options, n) ==
  iter = [s \in SUBSET (1..n) |->
           IF s = {} THEN c ELSE Apply(iter[s \ {Greatest(s)}], options[Greatest(s)])]

LEMMA LastIsMax ==
  ASSUME NEW n \in Nat, NEW s \in SUBSET (1..n), n \in s
  PROVE  Greatest(s) = n
<1>1. \A y \in s : n >= y
  OBVIOUS
<1>2. \A x \in s : (\A y \in s : x >= y) => x = n
  OBVIOUS
<1> QED
  BY <1>1, <1>2 DEF Greatest

(* The function FoldLeft takes exists, by induction on the greatest index. *)
LEMMA FoldByIndex ==
  ASSUME NEW c, NEW options, NEW N \in Nat, DOMAIN options = 1..N
  PROVE  \E iter : Applied(iter, c, options, N) /\ Configure(c, options) = iter[1..N]
<1> DEFINE Stages(iter, n) == Applied(iter, c, options, n)
           S == {n \in Nat : \E iter : Stages(iter, n)}
<1>0. \A n \in Nat : \A s \in SUBSET (1..n) : n \in s => Greatest(s) = n
  BY LastIsMax
<1>a. \A n \in Nat : \A s \in SUBSET (1..n) : s # {} => Greatest(s) \in s
  <2> SUFFICES ASSUME NEW n \in Nat, NEW s \in SUBSET (1..n), s # {} PROVE Greatest(s) \in s
    OBVIOUS
  <2>1. \E x \in s : \A y \in s : x >= y
    <3>1. PICK k \in Nat \ {j \in Nat : \E y \in s : j < y} :
            \A i \in Nat \ {j \in Nat : \E y \in s : j < y} : ~(i < k)
      <4>1. n \in Nat \ {j \in Nat : \E y \in s : j < y}
        OBVIOUS
      <4> QED
        BY <4>1, LeastNumber
    <3>2. \A y \in s : y <= k
      BY <3>1
    <3>3. k \in s
      <4> SUFFICES ASSUME k \notin s PROVE FALSE
        OBVIOUS
      <4>1. PICK z \in s : z \in 1..n /\ z <= k
        BY <3>2
      <4>2. k - 1 \in Nat /\ \A y \in s : ~(k - 1 < y)
        BY <3>2, <4>1
      <4> QED
        BY <3>1, <4>2
    <3> QED
      BY <3>2, <3>3
  <2> QED
    BY <2>1 DEF Greatest
<1> USE DEF Applied
<1>1. 0 \in S
  <2>1. SUBSET (1..0) = {{}}
    OBVIOUS
  <2>2. Stages([s \in SUBSET (1..0) |-> c], 0)
    BY <2>1
  <2> QED
    BY <2>2
<1>2. ASSUME NEW n \in Nat, n \in S PROVE n + 1 \in S
  <2>1. PICK iter : Stages(iter, n)
    BY <1>2
  <2> DEFINE more == [s \in SUBSET (1..(n + 1)) |->
                       IF n + 1 \in s THEN Apply(iter[s \ {n + 1}], options[n + 1]) ELSE iter[s]]
  <2>2. ASSUME NEW s \in SUBSET (1..(n + 1))
        PROVE  more[s] = IF s = {} THEN c ELSE Apply(more[s \ {Greatest(s)}], options[Greatest(s)])
    <3>1. CASE n + 1 \in s
      <4>1. Greatest(s) = n + 1
        BY <1>0, <3>1
      <4>2. s \ {n + 1} \in SUBSET (1..(n + 1)) /\ n + 1 \notin s \ {n + 1}
        OBVIOUS
      <4>3. more[s \ {n + 1}] = iter[s \ {n + 1}]
        BY <4>2
      <4> QED
        BY <3>1, <4>1, <4>3
    <3>2. CASE n + 1 \notin s
      <4>1. s \in SUBSET (1..n)
        BY <3>2
      <4>2. \A x \in 1..n : x \in 1..(n + 1) /\ x # n + 1
        OBVIOUS
      <4>3. s \ {Greatest(s)} \in SUBSET (1..n) /\ s \ {Greatest(s)} \in SUBSET (1..(n + 1))
            /\ n + 1 \notin s \ {Greatest(s)}
        BY <4>1, <4>2, Zenon
      <4>4. more[s] = iter[s] /\ more[s \ {Greatest(s)}] = iter[s \ {Greatest(s)}]
        BY <3>2, <4>3
      <4>5. iter[s] = IF s = {} THEN c ELSE Apply(iter[s \ {Greatest(s)}], options[Greatest(s)])
        BY <2>1, <4>1
      <4> QED
        BY <4>4, <4>5
    <3> QED
      BY <3>1, <3>2
  <2>3. Stages(more, n + 1)
    BY <2>2
  <2>4. (\E g : Stages(g, n + 1)) /\ n + 1 \in Nat
    <3> HIDE DEF more, Stages
    <3> QED
      BY <2>3
  <2> QED
    BY <2>4
<1>3. \E iter : Stages(iter, N)
  <2>1. Nat \subseteq S
    <3> HIDE DEF S
    <3> QED
      BY <1>1, <1>2, Induction
  <2> QED
    BY <2>1
<1>4. Configure(c, options) = (CHOOSE iter : Stages(iter, N))[1..N]
  BY DEF Configure, FoldLeft, MapThenFoldSet, Max, Greatest, Apply
<1>5. Stages(CHOOSE iter : Stages(iter, N), N)
  BY <1>3
<1> QED
  BY <1>4, <1>5

(* Any number of options, each of which keeps the type, keeps it.          *)
LEMMA ConfigureTyped ==
  ASSUME NEW Typed, NEW Given, \A d \in Typed, option \in Given : Apply(d, option) \in Typed,
         NEW c \in Typed, NEW options \in Seq(Given)
  PROVE  Configure(c, options) \in Typed
<1>1. PICK N \in Nat : DOMAIN options = 1..N /\ \A i \in 1..N : options[i] \in Given
  BY LenProperties, ElementOfSeq
<1>2. PICK iter : Applied(iter, c, options, N) /\ Configure(c, options) = iter[1..N]
  BY <1>1, FoldByIndex
<1> USE DEF Applied
<1> DEFINE S == {n \in Nat : n <= N => iter[1..n] \in Typed}
<1>3. 0 \in S
  <2>1. 1..0 = {} /\ 1..0 \in SUBSET (1..N)
    OBVIOUS
  <2> QED
    BY <1>2, <2>1
<1>4. ASSUME NEW n \in Nat, n \in S PROVE n + 1 \in S
  <2> SUFFICES ASSUME n + 1 <= N PROVE iter[1..(n + 1)] \in Typed
    OBVIOUS
  <2>1. \A x : x \in 1..(n + 1) => x \in 1..N /\ (x = n + 1 \/ x \in 1..n)
    OBVIOUS
  <2>2. n + 1 \in 1..(n + 1) /\ n + 1 \notin 1..n /\ \A x \in 1..n : x \in 1..(n + 1)
    OBVIOUS
  <2>3. 1..(n + 1) \in SUBSET (1..N) /\ 1..(n + 1) # {} /\ (1..(n + 1)) \ {n + 1} = 1..n
    BY <2>1, <2>2, Zenon
  <2>4. Greatest(1..(n + 1)) = n + 1
    BY <2>2, LastIsMax
  <2>5. iter[1..(n + 1)] = Apply(iter[1..n], options[n + 1])
    BY <1>2, <2>3, <2>4
  <2>6. iter[1..n] \in Typed /\ options[n + 1] \in Given
    BY <1>1, <1>4, <2>1, <2>2
  <2> QED
    BY <2>5, <2>6
<1>5. iter[1..N] \in Typed
  <2>1. Nat \subseteq S
    <3> HIDE DEF S
    <3> QED
      BY <1>3, <1>4, Induction
  <2> QED
    BY <2>1
<1> QED
  BY <1>2, <1>5

LEMMA PowersOfWidth ==
  /\ 2 ^ (Width - 1) \in Nat /\ 2 ^ (Width - 1) >= 65536
  /\ 2 ^ Width = 2 * 2 ^ (Width - 1)
<1> DEFINE D(n) == 2 ^ (n - 1) \in Nat /\ 2 ^ (n - 1) >= 65536 /\ 2 ^ n = 2 * 2 ^ (n - 1)
<1>1. /\ D(17) /\ D(18) /\ D(19) /\ D(20) /\ D(21) /\ D(22) /\ D(23) /\ D(24)
      /\ D(25) /\ D(26) /\ D(27) /\ D(28) /\ D(29) /\ D(30) /\ D(31) /\ D(32)
  OBVIOUS
<1>2. \/ Width = 17 \/ Width = 18 \/ Width = 19 \/ Width = 20
      \/ Width = 21 \/ Width = 22 \/ Width = 23 \/ Width = 24
      \/ Width = 25 \/ Width = 26 \/ Width = 27 \/ Width = 28
      \/ Width = 29 \/ Width = 30 \/ Width = 31 \/ Width = 32
  BY ConfigAssumption DEF ConfigAssumption
<1> HIDE DEF D
<1>3. D(Width)
  BY <1>1, <1>2
<1> QED
  BY <1>3 DEF D

(* NewConfig makes a Config with fields of their types, and only the       *)
(* defaults and its options decide about them.                             *)
LEMMA ConfigTyped ==
  ASSUME NEW program \in Programs
  PROVE  NewConfig(program.url, program.options) \in Configs
<1>1. program.url \in STRING /\ program.options \in Seq(Options)
  BY ApplicationAssumption DEF ApplicationAssumption
<1>2. \A n \in -1..30 : n \in Int32s
  BY PowersOfWidth DEF Int32s, MaxInt
<1>3. -1 \in Int32s /\ 1 \in Int32s /\ 2 \in Int32s /\ 10 \in Int32s /\ 30 \in Int32s
  BY <1>2
<1>4. DefaultObservability \in Observabilities
  BY DEF DefaultObservability, Observabilities, MadeObservabilities
<1>5. Default(program.url) \in Configs
  BY <1>1, <1>3, <1>4 DEF Default, Configs
<1> QED
  BY <1>1, <1>5, ApplyTyped, ConfigureTyped DEF NewConfig

(* Whatever options observability.NewConfig is given, nil providers among  *)
(* them, it makes a configuration without a nil provider; only the         *)
(* propagator may be nil (observability/config.go:57-98).                  *)
THEOREM NoNilProvider ==
  ASSUME NEW options \in Seq(({"tracerProvider", "meterProvider"} \X {"noop", "otel", Nil})
                               \cup ({"propagator"} \X {"global", Nil}))
  PROVE  NewObservability(options) \in MadeObservabilities
<1> DEFINE Given == ({"tracerProvider", "meterProvider"} \X {"noop", "otel"})
                      \cup ({"propagator"} \X {"global", Nil})
           given == [i \in DOMAIN options |-> NilToNoop(options[i])]
<1>1. given \in Seq(Given)
  <2>1. PICK n \in Nat : DOMAIN options = 1..n /\ n = Len(options)
    BY LenProperties
  <2>2. ASSUME NEW i \in 1..n PROVE NilToNoop(options[i]) \in Given
    <3>1. options[i] \in ({"tracerProvider", "meterProvider"} \X {"noop", "otel", Nil})
                            \cup ({"propagator"} \X {"global", Nil})
      BY <2>1, ElementOfSeq
    <3> QED
      BY <3>1 DEF NilToNoop
  <2> QED
    BY <2>1, <2>2, IsASeq
<1>2. \A c \in MadeObservabilities, option \in Given : Apply(c, option) \in MadeObservabilities
  BY DEF Apply, MadeObservabilities
<1>3. DefaultObservability \in MadeObservabilities
  BY DEF DefaultObservability, MadeObservabilities
<1> QED
  BY <1>1, <1>2, <1>3, ConfigureTyped DEF NewObservability

(* A buffer size below zero is one that no int32 holds.                    *)
LEMMA NegativeBuffer ==
  ASSUME NEW c \in Configs, c.ProcessorWorkerPoolSize > 0, BufferSize(c) < 0
  PROVE  c.ProcessorWorkerPoolSize > MaxInt \div 3
<1> DEFINE P == 2 ^ (Width - 1)
           k == c.ProcessorWorkerPoolSize
<1>1. P \in Nat /\ P >= 65536 /\ 2 ^ Width = 2 * P
  BY PowersOfWidth
<1>2. k \in Int
  BY DEF Configs, Int32s
<1>3. ((k * 3 + P) % (2 * P)) - P < 0
  BY <1>1 DEF BufferSize, Int32
<1> HIDE DEF P, k
<1> SUFFICES ASSUME k <= (P - 1) \div 3 PROVE FALSE
  BY <1>2, <1>1 DEF MaxInt, P, k
<1>4. 3 * k <= P - 1
  BY <1>1, <1>2
<1>5. k > 0
  BY DEF k
<1>6. k * 3 + P \in 0..(2 * P - 1)
  BY <1>1, <1>2, <1>4, <1>5
<1>7. (k * 3 + P) % (2 * P) = k * 3 + P
  BY <1>1, <1>6
<1> QED
  BY <1>1, <1>2, <1>3, <1>5, <1>7

-----------------------------------------------------------------------------
(* The invariant *)

Left == consume[Main] \in {"deferred", "locking", "returned"}

EndedWell == (stoppedCh /\ processor[Main] = "nil") \/ poller[Main] = "error"

(* Without a stop signal Consume is left only over an error of the poller. *)
CallExplained ==
  /\ processor[Main] # "error"
  /\ consume[Main] \in {"idle", "select"} => ~pollerCanceled[Main]
  /\ poller[Main] = "nil" => pollerCanceled[Main]
  /\ Left => result[Main] # "none"
  /\ result[Main] # "alreadyRunning"
  /\ result[Main] = "nil" => EndedWell
  /\ close[Hook] \in {"idle", "sending", "early"} =>
       /\ stopSignalCh = 0
       /\ consume[Main] \notin {"drainPoller", "drainProcessor"}
       /\ Left => poller[Main] = "error"

(* Consume is called with a valid configuration, and main is where the     *)
(* call is.                                                                *)
MainFollowsCall ==
  /\ mainPc # "start" => IsValid(config)
  /\ mainPc \in {"start", "ready"} <=> consume[Main] = "idle"
  /\ mainPc = "returned" => consume[Main] = "returned"

(* The error that decides about the exit code, whoever has stored it.      *)
ErrExplained ==
  mainPc = "returned" =>
    IF err = "nil" THEN EndedWell ELSE poller[Main] = "error" \/ close[Hook] = "timeout"

AppInv ==
  /\ LP!SafetyInv
  /\ LP!FlagInv
  /\ config \in Configs
  /\ retryCount \in Nat
  /\ CallExplained
  /\ MainFollowsCall
  /\ ErrExplained
  /\ ExitTellsOutcome
  /\ ValidConfigRuns
  /\ BackoffPaces

-----------------------------------------------------------------------------
(* Lifecycle's part *)

LEMMA LifecycleConstants ==
  /\ LP!IsFiniteSet({Main}) /\ LP!IsFiniteSet({Hook}) /\ "noOne" \notin {Hook}
  /\ {"nil", "error"} \subseteq {"nil", "error"} /\ FALSE \in BOOLEAN
<1>1. IsFiniteSet({Main}) /\ IsFiniteSet({Hook})
  BY FS_Singleton
<1> QED
  BY <1>1 DEF IsFiniteSet, LP!IsFiniteSet, Hook

LEMMA SameLifecycle ==
  /\ L!Init => LP!Init
  /\ [L!Next]_(L!vars) => [LP!Next]_(LP!vars)
BY DEF L!Init, LP!Init, L!Next, LP!Next, L!vars, LP!vars, L!flagVars, LP!flagVars,
       L!callVars, LP!callVars, L!pollVars, LP!pollVars, L!processVars, LP!processVars,
       L!CallConsume, LP!CallConsume, L!MayCall, LP!MayCall,
       L!StartConsume, LP!StartConsume, L!RefuseConsume, LP!RefuseConsume,
       L!ConsumeStep, LP!ConsumeStep, L!SeeContext, LP!SeeContext,
       L!SeeStopSignal, LP!SeeStopSignal, L!SeePoller, LP!SeePoller,
       L!SeeProcessor, LP!SeeProcessor, L!DrainPoller, LP!DrainPoller,
       L!DrainProcessor, LP!DrainProcessor, L!CancelContexts, LP!CancelContexts,
       L!ClearFlags, LP!ClearFlags, L!PollStep, LP!PollStep, L!ProcessStep, LP!ProcessStep,
       L!PollMayReturn, LP!PollMayReturn, L!ProcessMayReturn, LP!ProcessMayReturn,
       L!PollReturns, LP!PollReturns, L!ReportPoll, LP!ReportPoll,
       L!ProcessReturns, LP!ProcessReturns, L!ReportProcess, LP!ReportProcess,
       L!ContextEnds, LP!ContextEnds, L!CloseReturnsEarly, LP!CloseReturnsEarly,
       L!AnnounceClose, LP!AnnounceClose, L!CloseStep, LP!CloseStep,
       L!SendStopSignal, LP!SendStopSignal, L!SeeStopped, LP!SeeStopped,
       L!TimeOut, LP!TimeOut, L!Terminated, LP!Terminated, L!Leave, LP!Leave,
       L!pollerCtxEnded, LP!pollerCtxEnded, L!processCtxEnded, LP!processCtxEnded

(* The program takes Lifecycle's steps, or leaves its variables alone.     *)
LEMMA LifecycleStep ==
  ASSUME [Next]_vars
  PROVE  [L!Next]_(L!vars)
<1>1. UNCHANGED lifecycleVars => UNCHANGED L!vars
  BY DEF lifecycleVars, L!vars, L!flagVars, L!callVars, L!pollVars, L!processVars
<1>2. CASE CallConsume
  <2>1. CASE L!StartConsume(Main)
    <3>1. L!CallConsume(Main)
      BY <2>1 DEF L!CallConsume, L!MayCall
    <3> QED
      BY <3>1 DEF L!Next
  <2> QED
    BY <1>1, <1>2, <2>1 DEF CallConsume
<1>3. CASE ConsumeStep
  BY <1>3 DEF ConsumeStep, L!Next
<1>4. CASE CallClose \/ CloseStep
  BY <1>4 DEF CallClose, CloseStep, L!Next
<1>5. CASE PollReturns
  <2>1. CASE config.PollerWorkerPoolSize < 0
    BY <1>1, <1>5, <2>1 DEF PollReturns
  <2>2. CASE ~(config.PollerWorkerPoolSize < 0)
    <3>1. PICK res \in {"nil", "error"} : L!PollMayReturn(Main, res) /\ L!PollReturns(Main, res)
      BY <1>5, <2>2 DEF PollReturns, L!PollMayReturn
    <3> QED
      BY <3>1 DEF L!Next, L!PollStep
  <2> QED
    BY <2>1, <2>2
<1>6. CASE ProcessReturns
  <2>1. PICK res \in {"nil", "error"} : L!ProcessMayReturn(Main, res) /\ L!ProcessReturns(Main, res)
    BY <1>6 DEF ProcessReturns, L!ProcessMayReturn
  <2> QED
    BY <2>1 DEF L!Next, L!ProcessStep
<1>7. CASE Report
  BY <1>7 DEF Report, L!Next, L!PollStep, L!ProcessStep
<1>8. CASE \/ StoreResult \/ Exit \/ StoreCloseResult \/ Refuse \/ Prepare \/ Signal
           \/ ReceiveFails \/ ReceiveSucceeds \/ MessagePanics \/ UNCHANGED vars
  BY <1>1, <1>8
  DEF StoreResult, Exit, StoreCloseResult, Refuse, Prepare, Signal, ReceiveFails,
      ReceiveSucceeds, MessagePanics, vars
<1> QED
  BY <1>2, <1>3, <1>4, <1>5, <1>6, <1>7, <1>8
  DEF Next, MainStep, HookStep, PollStep, ProcessStep, ReportStep

LEMMA LifecycleInvStep ==
  ASSUME LP!SafetyInv, LP!FlagInv, [L!Next]_(L!vars)
  PROVE  LP!SafetyInv' /\ LP!FlagInv'
<1>1. [LP!Next]_(LP!vars)
  BY SameLifecycle
<1>2. LP!TypeOK'
  BY <1>1, LifecycleConstants, LP!TypeStep DEF LP!SafetyInv
<1>3. /\ LP!IdleHasNothing' /\ LP!ReportsAreTrue' /\ LP!ResultsAreFinal'
      /\ LP!ProcessorHasReason' /\ LP!StoppedIsSeen' /\ LP!ResultIsJustified'
  BY <1>1, LifecycleConstants, LP!ReasonStep
<1>4. LP!StoppedMeansDrained'
  BY <1>1, LifecycleConstants, LP!StoppedStep
<1>5. LP!FlagsMatchCalls'
  BY <1>1, LifecycleConstants, LP!FlagsStep DEF LP!FlagInv
<1>6. LP!SendsAnnounced'
  BY <1>1, LifecycleConstants, LP!SendStep DEF LP!FlagInv
<1>7. LP!StoppedInPeace' /\ LP!PanicOnlyOnSecondShutdown'
  BY <1>1, LifecycleConstants, LP!DrainStep DEF LP!FlagInv
<1> QED
  BY <1>2, <1>3, <1>4, <1>5, <1>6, <1>7 DEF LP!SafetyInv, LP!FlagInv

-----------------------------------------------------------------------------
(* What the lifecycle's proofs say of the one call and its Close.          *)
LEMMA CallFacts ==
  ASSUME LP!SafetyInv, LP!FlagInv
  PROVE  /\ consume \in [{Main} -> {"idle", "select", "drainPoller", "drainProcessor", "deferred",
                                    "locking", "returned"}]
         /\ result \in [{Main} -> {"none", "nil", "ctxErr", "pollerErr", "processErr",
                                   "alreadyRunning", "panic"}]
         /\ pollerCanceled \in [{Main} -> BOOLEAN]
         /\ processCanceled \in [{Main} -> BOOLEAN]
         /\ poller \in [{Main} -> {"nil", "error", "idle", "running"}]
         /\ pollerErrCh \in [{Main} -> {"nil", "error", "none", "taken"}]
         /\ processor \in [{Main} -> {"nil", "error", "idle", "running"}]
         /\ processErrCh \in [{Main} -> {"nil", "error", "none", "taken"}]
         /\ close \in [{Hook} -> {"idle", "sending", "waiting", "early", "stopped", "timeout"}]
         /\ stoppedCh \in BOOLEAN /\ stopSignalCh \in 0..1
         /\ ctx[Main] = {}
         /\ consume[Main] = "idle" => poller[Main] = "idle" /\ processor[Main] = "idle"
         /\ pollerErrCh[Main] \in {"nil", "error"} => poller[Main] = pollerErrCh[Main]
         /\ processErrCh[Main] \in {"nil", "error"} => processor[Main] = processErrCh[Main]
         /\ processCanceled[Main] => consume[Main] \in {"locking", "returned"}
         /\ processor[Main] = "nil" => processCanceled[Main] \/ poller[Main] \in {"nil", "error"}
         /\ result[Main] # "none" => Left
         /\ result[Main] \notin {"ctxErr", "panic"}
         /\ result[Main] = "pollerErr" => poller[Main] = "error"
         /\ result[Main] = "processErr" => processor[Main] = "error"
         /\ stoppedCh => processor[Main] = "nil" /\ result[Main] = "nil"
         /\ close[Hook] = "stopped" => stoppedCh
<1> USE DEF LP!SafetyInv, LP!TypeOK, LP!Outcomes
<1>1. ctx[Main] = {}
  <2>1. ctx \in [{Main} -> SUBSET {}]
    OBVIOUS
  <2> QED
    BY <2>1
<1>2. stoppedCh => processor[Main] = "nil" /\ result[Main] = "nil"
  BY DEF LP!FlagInv, LP!StoppedInPeace, LP!DrainedInPeace
<1>3. result[Main] # "panic"
  BY DEF LP!FlagInv, LP!PanicOnlyOnSecondShutdown
<1>4. result[Main] = "ctxErr" => FALSE
  BY <1>1 DEF LP!ResultIsJustified
<1> QED
  BY <1>1, <1>2, <1>3, <1>4
  DEF LP!IdleHasNothing, LP!ReportsAreTrue, LP!ResultsAreFinal, LP!ProcessorHasReason,
      LP!StoppedIsSeen, LP!ResultIsJustified, LP!processCtxEnded, LP!Returned, Left

(* A poller that runs has a pool, and so does not panic.                   *)
LEMMA PollHasPool ==
  ASSUME AppInv, PollReturns
  PROVE  /\ config.PollerWorkerPoolSize > 0 /\ UNCHANGED exit
         /\ \/ L!PollMayReturn(Main, "nil") /\ L!PollReturns(Main, "nil")
            \/ GivesUp /\ L!PollReturns(Main, "error")
<1>1. poller[Main] = "running"
  BY DEF PollReturns, L!PollReturns
<1>2. consume[Main] # "idle"
  BY <1>1, CallFacts DEF AppInv
<1>3. config.PollerWorkerPoolSize > 0 /\ config.PollerWorkerPoolSize \in Int
  <2>1. MainFollowsCall /\ config \in Configs
    BY DEF AppInv
  <2>2. config.PollerWorkerPoolSize > 0
    BY <1>2, <2>1 DEF MainFollowsCall, IsValid
  <2>3. config.PollerWorkerPoolSize \in Int
    BY <2>1 DEF Configs, Int32s
  <2> QED
    BY <2>2, <2>3
<1>4. ~(config.PollerWorkerPoolSize < 0) /\ config.PollerWorkerPoolSize # 0
  BY <1>3
<1> QED
  BY <1>3, <1>4 DEF PollReturns

LEMMA CallStep ==
  ASSUME AppInv, [Next]_vars
  PROVE  CallExplained'
<1>0. CallExplained /\ MainFollowsCall
  BY DEF AppInv
<1> DEFINE Facts ==
      /\ consume \in [{Main} -> {"idle", "select", "drainPoller", "drainProcessor", "deferred",
                                 "locking", "returned"}]
      /\ result \in [{Main} -> {"none", "nil", "ctxErr", "pollerErr", "processErr",
                                "alreadyRunning", "panic"}]
      /\ pollerCanceled \in [{Main} -> BOOLEAN]
      /\ processCanceled \in [{Main} -> BOOLEAN]
      /\ poller \in [{Main} -> {"nil", "error", "idle", "running"}]
      /\ processor \in [{Main} -> {"nil", "error", "idle", "running"}]
      /\ close \in [{Hook} -> {"idle", "sending", "waiting", "early", "stopped", "timeout"}]
<1>1. Facts /\ stopSignalCh \in 0..1
  BY CallFacts DEF AppInv
<1>2. /\ ctx[Main] = {}
      /\ consume[Main] = "idle" => poller[Main] = "idle" /\ processor[Main] = "idle"
      /\ pollerErrCh[Main] \in {"nil", "error"} => poller[Main] = pollerErrCh[Main]
      /\ processErrCh[Main] \in {"nil", "error"} => processor[Main] = processErrCh[Main]
      /\ processCanceled[Main] => consume[Main] \in {"locking", "returned"}
      /\ processor[Main] = "nil" => processCanceled[Main] \/ poller[Main] \in {"nil", "error"}
      /\ result[Main] # "none" => Left
  BY CallFacts DEF AppInv
<1> USE DEF CallExplained, EndedWell, Left, L!flagVars, L!callVars, L!pollVars, L!processVars
<1>3. UNCHANGED lifecycleVars => CallExplained'
  BY <1>0 DEF lifecycleVars
<1>4. CASE CallConsume
  <2>1. CASE L!StartConsume(Main)
    BY <1>0, <1>1, <1>2, <2>1 DEF L!StartConsume
  <2> QED
    BY <1>3, <1>4, <2>1 DEF CallConsume
<1>5. CASE ConsumeStep
  <2>1. CASE L!SeeContext(Main)
    BY <1>2, <2>1 DEF L!SeeContext
  <2>2. CASE L!SeeStopSignal(Main)
    BY <1>0, <1>1, <1>2, <2>2 DEF L!SeeStopSignal
  <2>3. CASE L!SeePoller(Main)
    <3>1. consume[Main] = "select" /\ pollerErrCh[Main] \in {"nil", "error"}
      BY <2>3 DEF L!SeePoller, L!Leave
    <3>2. poller[Main] = "error" /\ pollerErrCh[Main] = "error"
      BY <1>0, <1>2, <3>1
    <3> QED
      BY <1>0, <1>1, <1>2, <2>3, <3>1, <3>2 DEF L!SeePoller, L!Leave
  <2>4. CASE L!SeeProcessor(Main)
    <3>1. consume[Main] = "select" /\ processErrCh[Main] \in {"nil", "error"}
      BY <2>4 DEF L!SeeProcessor, L!Leave
    <3>2. poller[Main] = "error" /\ processErrCh[Main] = "nil"
      BY <1>0, <1>2, <3>1
    <3> QED
      BY <1>0, <1>1, <1>2, <2>4, <3>1, <3>2 DEF L!SeeProcessor, L!Leave
  <2>5. CASE L!DrainPoller(Main)
    BY <1>0, <1>1, <1>2, <2>5 DEF L!DrainPoller, L!Leave
  <2>6. CASE L!DrainProcessor(Main)
    <3>1. consume[Main] = "drainProcessor" /\ processErrCh[Main] = "nil" /\ processor[Main] = "nil"
      BY <1>0, <1>2, <2>6 DEF L!DrainProcessor, L!Leave
    <3> QED
      BY <1>0, <1>1, <1>2, <2>6, <3>1 DEF L!DrainProcessor, L!Leave
  <2>7. CASE L!CancelContexts(Main)
    BY <1>0, <1>1, <1>2, <2>7 DEF L!CancelContexts
  <2>8. CASE L!ClearFlags(Main)
    BY <1>0, <1>1, <1>2, <2>8 DEF L!ClearFlags
  <2> QED
    BY <1>5, <2>1, <2>2, <2>3, <2>4, <2>5, <2>6, <2>7, <2>8 DEF ConsumeStep, L!ConsumeStep
<1>6. CASE CallClose
  BY <1>0, <1>1, <1>6 DEF CallClose, L!CloseReturnsEarly, L!AnnounceClose
<1>7. CASE CloseStep
  BY <1>0, <1>1, <1>7 DEF CloseStep, L!CloseStep, L!SendStopSignal, L!SeeStopped, L!TimeOut
<1>8. CASE PollReturns
  <2>1. L!PollReturns(Main, "error") \/ (pollerCanceled[Main] /\ L!PollReturns(Main, "nil"))
    BY <1>2, <1>8, PollHasPool DEF L!PollMayReturn, L!pollerCtxEnded
  <2> QED
    BY <1>0, <1>1, <2>1 DEF L!PollReturns
<1>9. CASE ProcessReturns
  <2>1. processor[Main] = "running"
    BY <1>9 DEF ProcessReturns, L!ProcessReturns
  <2>2. config.ProcessorWorkerPoolSize > 0
    BY <1>0, <1>2, <2>1 DEF MainFollowsCall, IsValid
  <2>3. config.ProcessorWorkerPoolSize \in Int
    BY DEF AppInv, Configs, Int32s
  <2>4. L!ProcessReturns(Main, "nil")
    BY <1>9, <2>2, <2>3 DEF ProcessReturns
  <2> QED
    BY <1>0, <1>1, <2>1, <2>4 DEF L!ProcessReturns
<1>10. CASE Report
  BY <1>0, <1>10 DEF Report, L!ReportPoll, L!ReportProcess
<1>11. CASE \/ StoreResult \/ Exit \/ StoreCloseResult \/ Refuse \/ Prepare \/ Signal
            \/ ReceiveFails \/ ReceiveSucceeds \/ MessagePanics \/ UNCHANGED vars
  BY <1>3, <1>11
  DEF StoreResult, Exit, StoreCloseResult, Refuse, Prepare, Signal, ReceiveFails,
      ReceiveSucceeds, MessagePanics, vars
<1> QED
  BY <1>4, <1>5, <1>6, <1>7, <1>8, <1>9, <1>10, <1>11
  DEF Next, MainStep, HookStep, PollStep, ProcessStep, ReportStep

(* What has ended stays so, and a poller gives up only at its threshold.   *)
LEMMA EndsAreFinal ==
  ASSUME AppInv, [Next]_vars
  PROVE  /\ EndedWell => EndedWell'
         /\ poller[Main] = "error" => poller'[Main] = "error"
         /\ poller'[Main] = "error" => poller[Main] = "error" \/ config.ErrorNumberThreshold > 0
         /\ close[Hook] = "timeout" => close'[Hook] = "timeout"
         /\ consume[Main] = "returned" => consume'[Main] = "returned"
         /\ mainPc # "ready" \/ mainPc' # "consuming" =>
              (consume'[Main] = "idle" <=> consume[Main] = "idle")
<1> DEFINE Goal ==
      /\ EndedWell => EndedWell'
      /\ poller[Main] = "error" => poller'[Main] = "error"
      /\ poller'[Main] = "error" => poller[Main] = "error" \/ config.ErrorNumberThreshold > 0
      /\ close[Hook] = "timeout" => close'[Hook] = "timeout"
      /\ consume[Main] = "returned" => consume'[Main] = "returned"
      /\ mainPc # "ready" \/ mainPc' # "consuming" =>
              (consume'[Main] = "idle" <=> consume[Main] = "idle")
<1>1. /\ consume \in [{Main} -> {"idle", "select", "drainPoller", "drainProcessor", "deferred",
                                 "locking", "returned"}]
      /\ poller \in [{Main} -> {"nil", "error", "idle", "running"}]
      /\ processor \in [{Main} -> {"nil", "error", "idle", "running"}]
      /\ close \in [{Hook} -> {"idle", "sending", "waiting", "early", "stopped", "timeout"}]
      /\ consume[Main] = "idle" => poller[Main] = "idle" /\ processor[Main] = "idle"
  BY CallFacts DEF AppInv
<1> USE DEF EndedWell, L!flagVars, L!callVars, L!pollVars, L!processVars
<1>2. UNCHANGED lifecycleVars => Goal
  BY DEF lifecycleVars
<1>3. CASE CallConsume
  <2>1. CASE L!StartConsume(Main) /\ mainPc' = "consuming"
    <3>1. mainPc = "ready" /\ UNCHANGED config
      BY <1>3 DEF CallConsume
    <3> QED
      BY <1>1, <2>1, <3>1 DEF L!StartConsume
  <2> QED
    BY <1>2, <1>3, <2>1 DEF CallConsume
<1>4. CASE ConsumeStep
  <2>1. CASE L!SeeContext(Main) \/ L!SeePoller(Main) \/ L!SeeProcessor(Main) \/ L!DrainPoller(Main)
    BY <1>1, <1>4, <2>1
    DEF ConsumeStep, L!SeeContext, L!SeePoller, L!SeeProcessor, L!DrainPoller, L!Leave
  <2>2. CASE L!SeeStopSignal(Main) \/ L!CancelContexts(Main) \/ L!ClearFlags(Main)
    BY <1>1, <1>4, <2>2 DEF ConsumeStep, L!SeeStopSignal, L!CancelContexts, L!ClearFlags
  <2>3. CASE L!DrainProcessor(Main)
    <3>1. /\ consume[Main] = "drainProcessor" /\ consume' = [consume EXCEPT ![Main] = "deferred"]
          /\ UNCHANGED <<poller, processor, close>>
      BY <2>3 DEF L!DrainProcessor, L!Leave
    <3>2. stoppedCh => stoppedCh'
      BY <2>3 DEF L!DrainProcessor
    <3>3. EndedWell => EndedWell'
      BY <3>1, <3>2 DEF EndedWell
    <3>4. UNCHANGED <<mainPc, config>>
      BY <1>4 DEF ConsumeStep, programVars
    <3>5. consume'[Main] = "deferred"
      BY <1>1, <3>1
    <3> QED
      BY <3>1, <3>3, <3>4, <3>5
  <2> QED
    BY <1>4, <2>1, <2>2, <2>3 DEF ConsumeStep, L!ConsumeStep
<1>5. CASE CallClose \/ CloseStep
  BY <1>1, <1>5
  DEF CallClose, CloseStep, L!CloseReturnsEarly, L!AnnounceClose, L!CloseStep,
      L!SendStopSignal, L!SeeStopped, L!TimeOut
<1>6. CASE PollReturns
  <2>1. PICK res \in {"nil", "error"} :
          L!PollReturns(Main, res) /\ (res = "error" => config.ErrorNumberThreshold > 0)
    <3>1. CASE L!PollMayReturn(Main, "nil") /\ L!PollReturns(Main, "nil")
      BY <3>1
    <3>2. CASE GivesUp /\ L!PollReturns(Main, "error")
      BY <3>2 DEF GivesUp
    <3> QED
      BY <1>6, <3>1, <3>2, PollHasPool
  <2>2. UNCHANGED <<config, mainPc>>
    BY <1>6 DEF PollReturns
  <2> QED
    BY <1>1, <2>1, <2>2 DEF L!PollReturns
<1>7. CASE ProcessReturns
  <2>1. PICK res : L!ProcessReturns(Main, res)
    BY <1>7 DEF ProcessReturns
  <2> QED
    BY <1>1, <2>1 DEF L!ProcessReturns
<1>8. CASE Report
  BY <1>8 DEF Report, L!ReportPoll, L!ReportProcess
<1>9. CASE \/ StoreResult \/ Exit \/ StoreCloseResult \/ Refuse \/ Prepare \/ Signal
           \/ ReceiveFails \/ ReceiveSucceeds \/ MessagePanics \/ UNCHANGED vars
  BY <1>2, <1>9
  DEF StoreResult, Exit, StoreCloseResult, Refuse, Prepare, Signal, ReceiveFails,
      ReceiveSucceeds, MessagePanics, vars
<1> QED
  BY <1>3, <1>4, <1>5, <1>6, <1>7, <1>8, <1>9
  DEF Next, MainStep, HookStep, PollStep, ProcessStep, ReportStep

LEMMA MainStepKeeps ==
  ASSUME AppInv, [Next]_vars
  PROVE  MainFollowsCall' /\ ErrExplained' /\ ExitTellsOutcome' /\ ValidConfigRuns'
<1> DEFINE Goal == MainFollowsCall /\ ErrExplained /\ ExitTellsOutcome /\ ValidConfigRuns
<1>1. Goal /\ CallExplained /\ config \in Configs
  BY DEF AppInv
<1>2. CallExplained'
  BY CallStep
<1>3. /\ EndedWell => EndedWell'
      /\ poller[Main] = "error" => poller'[Main] = "error"
      /\ poller'[Main] = "error" => poller[Main] = "error" \/ config.ErrorNumberThreshold > 0
      /\ close[Hook] = "timeout" => close'[Hook] = "timeout"
      /\ consume[Main] = "returned" => consume'[Main] = "returned"
      /\ mainPc # "ready" \/ mainPc' # "consuming" =>
              (consume'[Main] = "idle" <=> consume[Main] = "idle")
  BY EndsAreFinal
<1> DEFINE Panics ==
      \/ mainPc = "start" /\ config.Observability = ZeroObservability
      \/ mainPc = "ready" /\ config.ProcessorWorkerPoolSize > MaxInt \div 3
      \/ /\ mainPc \notin {"start", "ready"}
         /\ config.Observability # Nil /\ config.Observability.propagator = Nil
<1>0. exit = "none" \/ UNCHANGED vars
  BY DEF Next, MainStep, HookStep, PollStep, ProcessStep, ReportStep
<1> USE DEF programVars, retryVars
<1>4. ASSUME UNCHANGED <<config, mainPc>>,
             mainPc = "returned" =>
               err' = err \/ IF err' = "nil" THEN EndedWell'
                             ELSE poller'[Main] = "error" \/ close'[Hook] = "timeout",
             exit' = exit \/ exit' \notin {"ok", "failed", "panicked"}
               \/ (exit' = "panicked" /\ Panics)
      PROVE  Goal'
  <2>1. MainFollowsCall'
    BY <1>1, <1>3, <1>4 DEF MainFollowsCall
  <2>2. ErrExplained'
    BY <1>1, <1>3, <1>4 DEF ErrExplained
  <2>3. ExitTellsOutcome'
    BY <1>1, <1>3, <1>4 DEF ExitTellsOutcome, EndedWell
  <2>4. ValidConfigRuns'
    BY <1>1, <1>2, <1>3, <1>4 DEF ValidConfigRuns, CallExplained
  <2> QED
    BY <2>1, <2>2, <2>3, <2>4
<1>5. CASE \/ Refuse \/ Signal \/ ReceiveFails \/ ReceiveSucceeds \/ ConsumeStep \/ CallClose
           \/ CloseStep \/ ProcessReturns \/ Report \/ UNCHANGED vars
  BY <1>4, <1>5
  DEF Refuse, Signal, ReceiveFails, ReceiveSucceeds, ConsumeStep, CallClose, CloseStep,
      ProcessReturns, Report, vars
<1>5a. CASE PollReturns
  BY <1>4, <1>5a, PollHasPool DEF PollReturns
<1>6. CASE Prepare
  <2>1. mainPc = "start" /\ IsValid(config) /\ UNCHANGED <<lifecycleVars, config, err>>
    BY <1>6 DEF Prepare
  <2>2. CASE ~HasProviders(ObservabilityOf(config))
    <3>1. exit' = "panicked" /\ UNCHANGED mainPc
      BY <1>6, <2>2 DEF Prepare
    <3>2. config.Observability = ZeroObservability
      <4>1. \A o \in MadeObservabilities : o.tracerProvider # Nil /\ o.meterProvider # Nil
        BY ConfigAssumption DEF MadeObservabilities, ConfigAssumption
      <4>2. DefaultObservability \in MadeObservabilities
        BY DEF DefaultObservability, MadeObservabilities
      <4>3. \A o \in Observabilities : o # Nil
        BY ApplicationAssumption DEF ApplicationAssumption
      <4>4. config.Observability \in MadeObservabilities \cup {ZeroObservability, Nil}
        BY <1>1 DEF Configs, Observabilities
      <4>5. ObservabilityOf(config) \notin MadeObservabilities
        BY <2>2, <4>1, <4>3 DEF HasProviders, Observabilities
      <4> QED
        BY <4>2, <4>4, <4>5 DEF ObservabilityOf
    <3> QED
      BY <1>4, <2>1, <3>1, <3>2
  <2> SUFFICES ASSUME HasProviders(ObservabilityOf(config)) PROVE Goal'
    BY <2>2
  <2>3. mainPc' = "ready" /\ exit' = "none"
    BY <1>0, <1>6 DEF Prepare, vars
  <2>4. consume' = consume /\ poller' = poller /\ stoppedCh' = stoppedCh /\ processor' = processor
        /\ close' = close
    BY <2>1 DEF lifecycleVars
  <2>5. MainFollowsCall' /\ ErrExplained'
    BY <1>1, <2>1, <2>3, <2>4 DEF MainFollowsCall, ErrExplained
  <2> QED
    BY <1>1, <2>1, <2>3, <2>4, <2>5 DEF ExitTellsOutcome, ValidConfigRuns
<1>7. CASE CallConsume
  <2>1. mainPc = "ready" /\ IsValid(config) /\ UNCHANGED <<config, err>>
    BY <1>1, <1>7 DEF CallConsume, MainFollowsCall
  <2>2. CASE BufferSize(config) < 0
    <3>1. exit' = "panicked" /\ UNCHANGED <<lifecycleVars, mainPc>>
      BY <1>7, <2>2 DEF CallConsume
    <3>2. Panics
      BY <1>1, <2>1, <2>2, NegativeBuffer DEF IsValid
    <3> QED
      BY <1>4, <2>1, <3>1, <3>2
  <2>3. CASE ~(BufferSize(config) < 0)
    <3>1. L!StartConsume(Main) /\ mainPc' = "consuming" /\ exit' = "none"
      BY <1>0, <1>7, <2>1, <2>3 DEF CallConsume, vars
    <3>2. consume'[Main] = "select"
      BY <3>1, CallFacts DEF L!StartConsume, AppInv
    <3>3. MainFollowsCall' /\ ErrExplained'
      BY <1>1, <2>1, <3>1, <3>2 DEF MainFollowsCall, ErrExplained
    <3>4. ExitTellsOutcome'
      BY <1>1, <1>3, <3>1 DEF ExitTellsOutcome, EndedWell
    <3>5. ValidConfigRuns'
      BY <1>1, <1>2, <1>3, <2>1, <3>1 DEF ValidConfigRuns, CallExplained
    <3> QED
      BY <3>3, <3>4, <3>5
  <2> QED
    BY <2>2, <2>3
<1>8. CASE StoreResult
  <2>1. /\ consume[Main] = "returned" /\ mainPc' = "returned" /\ UNCHANGED <<lifecycleVars, config>>
        /\ mainPc = "consuming" /\ err' = IF result[Main] = "nil" THEN "nil" ELSE "error"
        /\ exit' = "none"
    BY <1>0, <1>8 DEF StoreResult, vars
  <2>2. result[Main] \in {"nil", "pollerErr"}
    BY <1>1, <2>1, CallFacts DEF AppInv, CallExplained, Left
  <2>3. result[Main] = "pollerErr" => poller[Main] = "error"
    BY CallFacts DEF AppInv
  <2>4. ErrExplained'
    BY <1>1, <1>3, <2>1, <2>2, <2>3 DEF ErrExplained, CallExplained
  <2>5. MainFollowsCall'
    BY <1>1, <2>1 DEF MainFollowsCall, lifecycleVars
  <2> QED
    BY <1>1, <1>2, <1>3, <2>1, <2>4, <2>5
    DEF ExitTellsOutcome, ValidConfigRuns, lifecycleVars
<1>9. CASE StoreCloseResult
  <2>1. /\ close[Hook] \in {"early", "stopped", "timeout"}
        /\ err' = IF close[Hook] = "timeout" THEN "error" ELSE "nil"
        /\ UNCHANGED <<config, mainPc, exit>>
    BY <1>9 DEF StoreCloseResult
  <2>2. mainPc = "returned" /\ close[Hook] # "timeout" => EndedWell
    <3>1. close[Hook] = "stopped" => stoppedCh /\ processor[Main] = "nil"
      BY CallFacts DEF AppInv
    <3>2. mainPc = "returned" /\ close[Hook] = "early" => poller[Main] = "error"
      BY <1>1 DEF MainFollowsCall, CallExplained, Left
    <3> QED
      BY <2>1, <3>1, <3>2 DEF EndedWell
  <2> QED
    BY <1>3, <1>4, <2>1, <2>2
<1>10. CASE Exit
  <2>1. /\ mainPc = "returned" /\ exit' = IF err = "nil" THEN "ok" ELSE "failed"
        /\ UNCHANGED <<lifecycleVars, config, mainPc, err>>
    BY <1>10 DEF Exit
  <2>2. MainFollowsCall' /\ ErrExplained'
    BY <1>1, <2>1 DEF MainFollowsCall, ErrExplained, EndedWell, lifecycleVars
  <2>3. ExitTellsOutcome'
    BY <1>1, <2>1 DEF ErrExplained, EndedWell, ExitTellsOutcome, lifecycleVars
  <2> QED
    BY <1>1, <2>1, <2>2, <2>3 DEF ValidConfigRuns, lifecycleVars
<1>11. CASE MessagePanics
  <2>1. ObservabilityOf(config).propagator = Nil /\ exit' = "panicked"
        /\ UNCHANGED <<lifecycleVars, config, mainPc, err>>
    BY <1>11 DEF MessagePanics
  <2>2. mainPc \notin {"start", "ready"}
    <3>1. processor[Main] = "running"
      BY <1>11 DEF MessagePanics
    <3>2. consume[Main] # "idle"
      BY <3>1, CallFacts DEF AppInv
    <3> QED
      BY <1>1, <3>2 DEF MainFollowsCall
  <2>3. Panics
    BY <2>1, <2>2, ConfigAssumption DEF ObservabilityOf, DefaultObservability, ConfigAssumption
  <2> QED
    BY <1>4, <2>1, <2>3
<1> QED
  BY <1>5, <1>5a, <1>6, <1>7, <1>8, <1>9, <1>10, <1>11
  DEF Next, MainStep, HookStep, PollStep, ProcessStep, ReportStep

-----------------------------------------------------------------------------
(* The pauses *)

LEMMA PauseIs ==
  ASSUME NEW n \in Nat \ {0}, NEW p \in Pause(n)
  PROVE  \/ n <= 4 /\ p = 2 ^ n
         \/ n > 4 /\ p = MaxDelay
         \/ n > MaxDoublings /\ p = 0
<1>1. PICK d \in Delay(n) : p = Larger(Smaller(d, MaxDelay), 0)
  BY DEF Pause, Backoff
<1>2. CASE n <= 4
  <2>1. n \in 0..24 /\ n <= 24
    BY <1>2
  <2>2. d = Pow2(n)
    BY <1>1, <2>1, DelayIs
  <2>3. Pow2(n) \in Nat /\ Pow2(n) <= 16
    BY <1>2, <2>1, PowersBounded
  <2>4. \A m \in Nat : m <= 16 => Larger(Smaller(m, MaxDelay), 0) = m
    BY DEF Larger, Smaller, MaxDelay
  <2>5. p = Pow2(n)
    BY <1>1, <2>2, <2>3, <2>4
  <2> QED
    BY <1>2, <2>5 DEF Pow2
<1>3. CASE n > 4 /\ n <= 24
  <2>1. n \in 0..24 /\ n >= 5
    BY <1>3
  <2>2. d = Pow2(n)
    BY <1>1, <1>3, DelayIs
  <2>3. Pow2(n) \in Nat /\ Pow2(n) >= 32
    BY <2>1, PowersBounded
  <2>4. \A m \in Nat : m >= 32 => Larger(Smaller(m, MaxDelay), 0) = MaxDelay
    BY DEF Larger, Smaller, MaxDelay
  <2> QED
    BY <1>1, <1>3, <2>2, <2>3, <2>4
<1>4. CASE n > 24
  <2>1. d = Longest \/ (n > 36 /\ d = -1)
    BY <1>1, <1>4, DelayIs
  <2>2. Larger(Smaller(Longest, MaxDelay), 0) = MaxDelay
    BY LongestIsLong DEF Larger, Smaller, MaxDelay
  <2>3. Larger(Smaller(-1, MaxDelay), 0) = 0
    BY DEF Larger, Smaller, MaxDelay
  <2> QED
    BY <1>1, <1>4, <2>1, <2>2, <2>3 DEF MaxDoublings
<1> QED
  BY <1>2, <1>3, <1>4

LEMMA BackoffStep ==
  ASSUME retryCount \in Nat, BackoffPaces, [Next]_vars
  PROVE  config' = config /\ retryCount' \in Nat /\ BackoffPaces'
<1>1. CASE ReceiveFails
  <2>1. /\ retryCount' = retryCount + 1 /\ pause' \in Pause(retryCount + 1)
        /\ config' = config
    BY <1>1 DEF ReceiveFails
  <2> QED
    BY <2>1, PauseIs DEF BackoffPaces
<1>2. CASE ReceiveSucceeds
  BY <1>2 DEF ReceiveSucceeds, BackoffPaces
<1>3. CASE \/ CallConsume \/ ConsumeStep \/ StoreResult \/ Exit \/ CallClose \/ CloseStep
           \/ StoreCloseResult \/ PollReturns \/ ProcessReturns \/ Report \/ Refuse \/ Prepare
           \/ Signal \/ MessagePanics \/ UNCHANGED vars
  <2>1. UNCHANGED <<config, retryVars>>
    BY <1>3
    DEF CallConsume, ConsumeStep, StoreResult, Exit, CallClose, CloseStep, StoreCloseResult,
        PollReturns, ProcessReturns, Report, Refuse, Prepare, Signal, MessagePanics, vars
  <2> QED
    BY <2>1 DEF retryVars, BackoffPaces
<1> QED
  BY <1>1, <1>2, <1>3 DEF Next, MainStep, HookStep, PollStep, ProcessStep, ReportStep

-----------------------------------------------------------------------------
(* The theorems *)

LEMMA InitApp == Init => AppInv
<1> SUFFICES ASSUME Init PROVE AppInv
  OBVIOUS
<1>1. LP!SafetyInv /\ LP!FlagInv
  BY SameLifecycle, LifecycleConstants, LP!InitSafety, LP!InitFlags DEF Init
<1>2. config \in Configs
  BY ConfigTyped DEF Init
<1>3. retryCount \in Nat /\ BackoffPaces
  BY DEF Init, BackoffPaces
<1>4. /\ consume[Main] = "idle" /\ result[Main] = "none" /\ poller[Main] = "idle"
      /\ processor[Main] = "idle" /\ stopSignalCh = 0
  BY DEF Init, L!Init
<1>5. ~pollerCanceled[Main]
  BY DEF Init, L!Init
<1>6. CallExplained
  BY <1>4, <1>5 DEF CallExplained, Left
<1>7. MainFollowsCall /\ ErrExplained /\ ExitTellsOutcome /\ ValidConfigRuns
  BY <1>4 DEF Init, MainFollowsCall, ErrExplained, ExitTellsOutcome, ValidConfigRuns
<1> QED
  BY <1>1, <1>2, <1>3, <1>6, <1>7 DEF AppInv

LEMMA Invariant == Spec => []AppInv
<1>1. ASSUME AppInv, [Next]_vars PROVE AppInv'
  <2>1. LP!SafetyInv' /\ LP!FlagInv'
    BY <1>1, LifecycleStep, LifecycleInvStep DEF AppInv
  <2>2. (config \in Configs)' /\ (retryCount \in Nat)' /\ BackoffPaces'
    BY <1>1, BackoffStep DEF AppInv
  <2>3. CallExplained'
    BY <1>1, CallStep
  <2>4. MainFollowsCall' /\ ErrExplained' /\ ExitTellsOutcome' /\ ValidConfigRuns'
    BY <1>1, MainStepKeeps
  <2> QED
    BY <2>1, <2>2, <2>3, <2>4 DEF AppInv
<1> QED
  BY InitApp, <1>1, PTL DEF Spec

(* The exit code tells the outcome although the goroutine that calls Close *)
(* writes to the same err (main.go of the examples): "ok" is a clean drain *)
(* or a poller's error that was lost, "failed" a poller's error or a Close *)
(* that timed out.                                                         *)
THEOREM ExitTold == Spec => []ExitTellsOutcome
<1>1. AppInv => ExitTellsOutcome
  BY DEF AppInv
<1> QED
  BY Invariant, <1>1, PTL

(* Whatever options a program gives, what IsValid accepts runs: no pool is *)
(* empty or negative, and only an Observability without providers, an      *)
(* overflowing channel size or a nil propagator makes the process panic,   *)
(* each at its place; for every width of int32 from 17 bits.               *)
THEOREM ValidRuns == Spec => []ValidConfigRuns
<1>1. AppInv => ValidConfigRuns
  BY DEF AppInv
<1> QED
  BY Invariant, <1>1, PTL

(* However many receives fail in a row, the worker pauses for the doubled  *)
(* delay, capped at maxDelay; from the 37th on it may not pause at all.    *)
THEOREM BackoffPaced == Spec => []BackoffPaces
<1>1. AppInv => BackoffPaces
  BY DEF AppInv
<1> QED
  BY Invariant, <1>1, PTL

(* The program is one way to use the consumer: its steps are Lifecycle's,  *)
(* with one call of Consume and one of Close.                              *)
THEOREM RefinesLifecycle == Spec => UsesLifecycle
<1>1. Init => L!Init
  BY DEF Init
<1>2. [Next]_vars => [L!Next]_(L!vars)
  BY LifecycleStep
<1> QED
  BY <1>1, <1>2, PTL DEF Spec, UsesLifecycle, L!Spec
=============================================================================
