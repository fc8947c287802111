--------------------------- MODULE LifecycleProofs ---------------------------
(* Theorems about Lifecycle and, last, about its record of stop signals,   *)
(* for any number of Consume and Close calls, overlapping or not.          *)
EXTENDS StopSignals, FiniteSetTheorems, TLAPS

(* Nothing of a call exists before it starts.                              *)
IdleHasNothing ==
  \A c \in Calls : consume[c] = "idle" =>
    /\ poller[c] = "idle" /\ pollerErrCh[c] = "none"
    /\ processor[c] = "idle" /\ processErrCh[c] = "none"

(* An error channel holds what its goroutine returned, and drainProcessor  *)
(* is reached through a poller that returned nil.                          *)
ReportsAreTrue ==
  \A c \in Calls :
    /\ pollerErrCh[c] \in Outcomes => poller[c] = pollerErrCh[c]
    /\ processErrCh[c] \in Outcomes => processor[c] = processErrCh[c]
    /\ consume[c] = "drainProcessor" => poller[c] = "nil"

(* A result is chosen once, on leaving; contexts are cancelled after that. *)
ResultsAreFinal ==
  \A c \in Calls :
    /\ result[c] # "none" => consume[c] \in {"deferred", "locking", "returned"}
    /\ processCanceled[c] => consume[c] \in {"locking", "returned"}

(* Process returns nil for a reason.                                       *)
ProcessorHasReason ==
  \A c \in Calls :
    processor[c] = "nil" => processCtxEnded(c) \/ Returned(poller[c])

StoppedIsSeen ==
  \A k \in Closers : close[k] = "stopped" => stoppedCh

SafetyInv ==
  /\ TypeOK
  /\ IdleHasNothing
  /\ ReportsAreTrue
  /\ ResultsAreFinal
  /\ ProcessorHasReason
  /\ StoppedIsSeen
  /\ ResultIsJustified
  /\ StoppedMeansDrained

-----------------------------------------------------------------------------
LEMMA InitSafety == Init => SafetyInv
<1> SUFFICES ASSUME Init PROVE SafetyInv
  OBVIOUS
<1> USE LifecycleAssumption DEF LifecycleAssumption, Init
<1>1. TypeOK
  <2>1. isRunning \in BOOLEAN /\ isClosing \in BOOLEAN /\ stoppedCh \in BOOLEAN
    BY Zenon
  <2>2. /\ pollerCanceled \in [Calls -> BOOLEAN]
        /\ processCanceled \in [Calls -> BOOLEAN]
        /\ ctx \in [Calls -> SUBSET Causes]
    OBVIOUS
  <2>3. \A k \in Closers : mu # k /\ close[k] = "idle"
    OBVIOUS
  <2> QED
    BY <2>1, <2>2, <2>3 DEF TypeOK, Outcomes
<1>2. IdleHasNothing /\ ReportsAreTrue /\ ResultsAreFinal /\ ProcessorHasReason /\ StoppedIsSeen
  BY DEF IdleHasNothing, ReportsAreTrue, ResultsAreFinal, ProcessorHasReason, StoppedIsSeen,
         Outcomes
<1>3. ResultIsJustified /\ StoppedMeansDrained
  BY DEF ResultIsJustified, StoppedMeansDrained
<1> QED
  BY <1>1, <1>2, <1>3 DEF SafetyInv

LEMMA TypeStep ==
  ASSUME TypeOK, [Next]_vars
  PROVE  TypeOK'
<1> USE LifecycleAssumption
    DEF LifecycleAssumption, TypeOK, Outcomes, flagVars, callVars, pollVars, processVars
<1>1. ASSUME NEW c \in Calls, StartConsume(c) PROVE TypeOK'
  BY <1>1 DEF StartConsume
<1>2. ASSUME NEW c \in Calls, RefuseConsume(c) PROVE TypeOK'
  BY <1>2 DEF RefuseConsume, Leave
<1>3. ASSUME NEW c \in Calls, SeeContext(c) PROVE TypeOK'
  BY <1>3 DEF SeeContext, Leave
<1>4. ASSUME NEW c \in Calls, SeeStopSignal(c) PROVE TypeOK'
  BY <1>4 DEF SeeStopSignal
<1>5. ASSUME NEW c \in Calls, SeePoller(c) PROVE TypeOK'
  BY <1>5 DEF SeePoller, Leave
<1>6. ASSUME NEW c \in Calls, SeeProcessor(c) PROVE TypeOK'
  BY <1>6 DEF SeeProcessor, Leave
<1>7. ASSUME NEW c \in Calls, DrainPoller(c) PROVE TypeOK'
  BY <1>7 DEF DrainPoller, Leave
<1>8. ASSUME NEW c \in Calls, DrainProcessor(c) PROVE TypeOK'
  BY <1>8 DEF DrainProcessor, Leave
<1>9. ASSUME NEW c \in Calls, CancelContexts(c) PROVE TypeOK'
  BY <1>9 DEF CancelContexts
<1>10. ASSUME NEW c \in Calls, ClearFlags(c) PROVE TypeOK'
  BY <1>10 DEF ClearFlags
<1>11. ASSUME NEW c \in Calls, NEW res \in PollResults, PollMayReturn(c, res), PollReturns(c, res)
      PROVE  TypeOK'
  BY <1>11 DEF PollMayReturn, PollReturns
<1>12. ASSUME NEW c \in Calls, ReportPoll(c) PROVE TypeOK'
  BY <1>12 DEF ReportPoll
<1>13. ASSUME NEW c \in Calls, NEW res \in ProcessResults, ProcessMayReturn(c, res), ProcessReturns(c, res)
      PROVE  TypeOK'
  BY <1>13 DEF ProcessMayReturn, ProcessReturns
<1>14. ASSUME NEW c \in Calls, ReportProcess(c) PROVE TypeOK'
  BY <1>14 DEF ReportProcess
<1>15. ASSUME NEW c \in Calls, NEW cause \in Causes, ContextEnds(c, cause) PROVE TypeOK'
  BY <1>15 DEF ContextEnds
<1>16. ASSUME NEW k \in Closers, CloseReturnsEarly(k) PROVE TypeOK'
  BY <1>16 DEF CloseReturnsEarly
<1>17. ASSUME NEW k \in Closers, AnnounceClose(k) PROVE TypeOK'
  BY <1>17 DEF AnnounceClose
<1>18. ASSUME NEW k \in Closers, SendStopSignal(k) PROVE TypeOK'
  BY <1>18 DEF SendStopSignal
<1>19. ASSUME NEW k \in Closers, SeeStopped(k) PROVE TypeOK'
  BY <1>19 DEF SeeStopped
<1>20. ASSUME NEW k \in Closers, TimeOut(k) PROVE TypeOK'
  BY <1>20 DEF TimeOut
<1>21. CASE UNCHANGED vars
  BY <1>21 DEF vars
<1> QED
  BY <1>1, <1>2, <1>3, <1>4, <1>5, <1>6, <1>7, <1>8, <1>9, <1>10, <1>11, <1>12, <1>13,
     <1>14, <1>15, <1>16, <1>17, <1>18, <1>19, <1>20, <1>21
  DEF Next, CallConsume, ConsumeStep, PollStep, ProcessStep, CloseStep, Terminated

LEMMA ReasonStep ==
  ASSUME SafetyInv, [Next]_vars
  PROVE  /\ IdleHasNothing' /\ ReportsAreTrue' /\ ResultsAreFinal' /\ ProcessorHasReason'
         /\ StoppedIsSeen' /\ ResultIsJustified'
<1> DEFINE Goal == /\ IdleHasNothing /\ ReportsAreTrue /\ ResultsAreFinal /\ ProcessorHasReason
                   /\ StoppedIsSeen /\ ResultIsJustified
<1> USE LifecycleAssumption
    DEF LifecycleAssumption, SafetyInv, TypeOK, Outcomes, flagVars, callVars, pollVars,
        processVars, IdleHasNothing, ReportsAreTrue, ResultsAreFinal, ProcessorHasReason,
        StoppedIsSeen, ResultIsJustified, processCtxEnded, Returned
<1>1. ASSUME NEW c \in Calls, StartConsume(c) PROVE Goal'
  BY <1>1 DEF StartConsume
<1>2. ASSUME NEW c \in Calls, RefuseConsume(c) PROVE Goal'
  BY <1>2 DEF RefuseConsume, Leave
<1>3. ASSUME NEW c \in Calls, SeeContext(c) PROVE Goal'
  BY <1>3 DEF SeeContext, Leave
<1>4. ASSUME NEW c \in Calls, SeeStopSignal(c) PROVE Goal'
  BY <1>4 DEF SeeStopSignal
<1>5. ASSUME NEW c \in Calls, SeePoller(c) PROVE Goal'
  BY <1>5 DEF SeePoller, Leave
<1>6. ASSUME NEW c \in Calls, SeeProcessor(c) PROVE Goal'
  BY <1>6 DEF SeeProcessor, Leave
<1>7. ASSUME NEW c \in Calls, DrainPoller(c) PROVE Goal'
  BY <1>7 DEF DrainPoller, Leave
<1>8. ASSUME NEW c \in Calls, DrainProcessor(c) PROVE Goal'
  BY <1>8 DEF DrainProcessor, Leave
<1>9. ASSUME NEW c \in Calls, CancelContexts(c) PROVE Goal'
  BY <1>9 DEF CancelContexts
<1>10. ASSUME NEW c \in Calls, ClearFlags(c) PROVE Goal'
  BY <1>10 DEF ClearFlags
<1>11. ASSUME NEW c \in Calls, NEW res \in PollResults, PollMayReturn(c, res), PollReturns(c, res)
      PROVE  Goal'
  BY <1>11 DEF PollMayReturn, PollReturns
<1>12. ASSUME NEW c \in Calls, ReportPoll(c) PROVE Goal'
  BY <1>12 DEF ReportPoll
<1>13. ASSUME NEW c \in Calls, NEW res \in ProcessResults, ProcessMayReturn(c, res), ProcessReturns(c, res)
      PROVE  Goal'
  BY <1>13 DEF ProcessMayReturn, ProcessReturns
<1>14. ASSUME NEW c \in Calls, ReportProcess(c) PROVE Goal'
  BY <1>14 DEF ReportProcess
<1>15. ASSUME NEW c \in Calls, NEW cause \in Causes, ContextEnds(c, cause) PROVE Goal'
  BY <1>15 DEF ContextEnds
<1>16. ASSUME NEW k \in Closers, CloseReturnsEarly(k) PROVE Goal'
  BY <1>16 DEF CloseReturnsEarly
<1>17. ASSUME NEW k \in Closers, AnnounceClose(k) PROVE Goal'
  BY <1>17 DEF AnnounceClose
<1>18. ASSUME NEW k \in Closers, SendStopSignal(k) PROVE Goal'
  BY <1>18 DEF SendStopSignal
<1>19. ASSUME NEW k \in Closers, SeeStopped(k) PROVE Goal'
  BY <1>19 DEF SeeStopped
<1>20. ASSUME NEW k \in Closers, TimeOut(k) PROVE Goal'
  BY <1>20 DEF TimeOut
<1>21. CASE UNCHANGED vars
  BY <1>21 DEF vars
<1> QED
  BY <1>1, <1>2, <1>3, <1>4, <1>5, <1>6, <1>7, <1>8, <1>9, <1>10, <1>11, <1>12, <1>13,
     <1>14, <1>15, <1>16, <1>17, <1>18, <1>19, <1>20, <1>21
  DEF Next, CallConsume, ConsumeStep, PollStep, ProcessStep, CloseStep, Terminated

(* A call that has drained keeps what it drained.                          *)
Drained(c) ==
  poller[c] = "nil" /\ processor[c] = "nil" /\ result[c] \in {"nil", "panic"}

LEMMA StoppedStep ==
  ASSUME SafetyInv, [Next]_vars
  PROVE  StoppedMeansDrained'
<1> USE DEF SafetyInv, TypeOK, ReportsAreTrue, ResultsAreFinal, Outcomes, flagVars, callVars,
            pollVars, processVars
<1>1. \A c \in Calls : Drained(c) => Drained(c)'
  <2> SUFFICES ASSUME NEW d \in Calls, Drained(d) PROVE Drained(d)'
    OBVIOUS
  <2> USE DEF Drained
  <2>1. ASSUME NEW c \in Calls, StartConsume(c) \/ RefuseConsume(c) PROVE Drained(d)'
    BY <2>1 DEF StartConsume, RefuseConsume, Leave
  <2>2. ASSUME NEW c \in Calls, ConsumeStep(c) PROVE Drained(d)'
    BY <2>2 DEF ConsumeStep, SeeContext, SeeStopSignal, SeePoller, SeeProcessor, DrainPoller,
                DrainProcessor, CancelContexts, ClearFlags, Leave
  <2>3. ASSUME NEW c \in Calls, PollStep(c) \/ ProcessStep(c) PROVE Drained(d)'
    BY <2>3 DEF PollStep, PollReturns, ReportPoll, ProcessStep, ProcessReturns, ReportProcess
  <2>4. CASE UNCHANGED <<poller, processor, result>>
    BY <2>4
  <2> QED
    BY <2>1, <2>2, <2>3, <2>4
    DEF Next, CallConsume, ContextEnds, CloseReturnsEarly, AnnounceClose, CloseStep,
        SendStopSignal, SeeStopped, TimeOut, Terminated, vars
<1>2. ASSUME stoppedCh', ~stoppedCh PROVE \E c \in Calls : Drained(c)'
  <2>1. PICK c \in Calls : DrainProcessor(c)
    BY <1>2 DEF Next, CallConsume, StartConsume, RefuseConsume, ConsumeStep, SeeContext,
                SeeStopSignal, SeePoller, SeeProcessor, DrainPoller, CancelContexts,
                ClearFlags, Leave, PollStep, PollReturns, ReportPoll, ProcessStep,
                ProcessReturns, ReportProcess, ContextEnds, CloseReturnsEarly, AnnounceClose,
                CloseStep, SendStopSignal, SeeStopped, TimeOut, Terminated, vars
  <2> QED
    BY <1>2, <2>1 DEF DrainProcessor, Leave, Drained
<1>3. \A k \in Closers : close'[k] = "stopped" => stoppedCh'
  BY ReasonStep DEF StoppedIsSeen
<1>4. stoppedCh => \E c \in Calls : Drained(c)
  BY DEF StoppedMeansDrained, Drained
<1> QED
  BY <1>1, <1>2, <1>3, <1>4 DEF StoppedMeansDrained, Drained

LEMMA SafetyInvariant == Spec => []SafetyInv
<1>1. SafetyInv /\ [Next]_vars => SafetyInv'
  BY TypeStep, ReasonStep, StoppedStep DEF SafetyInv
<1> QED
  BY InitSafety, <1>1, PTL DEF Spec

(* The variables keep their types, stopSignalCh its capacity, and the      *)
(* mutex is held across a send by the Close call that is sending.          *)
THEOREM TypeCorrect == Spec => []TypeOK
<1>1. SafetyInv => TypeOK
  BY DEF SafetyInv
<1> QED
  BY SafetyInvariant, <1>1, PTL

(* Consume's answer has its reason, whichever goroutine reported first.    *)
THEOREM ResultJustified == Spec => []ResultIsJustified
<1>1. SafetyInv => ResultIsJustified
  BY DEF SafetyInv
<1> QED
  BY SafetyInvariant, <1>1, PTL

(* stoppedCh is closed, and a Close has seen it closed, only after some    *)
(* call's poller and processor have both returned nil.                     *)
THEOREM StoppedAfterDrain == Spec => []StoppedMeansDrained
<1>1. SafetyInv => StoppedMeansDrained
  BY DEF SafetyInv
<1> QED
  BY SafetyInvariant, <1>1, PTL
-----------------------------------------------------------------------------
(* The mutex is held across a send only for an announced shutdown.         *)
SendsAnnounced == mu # NoOne => isClosing

(* stoppedCh was closed without a panic by some call.                      *)
DrainedInPeace(d) == poller[d] = "nil" /\ processor[d] = "nil" /\ result[d] = "nil"

StoppedInPeace == stoppedCh => \E d \in Calls : DrainedInPeace(d)

FlagInv ==
  /\ FlagsMatchCalls
  /\ SendsAnnounced
  /\ StoppedInPeace
  /\ PanicOnlyOnSecondShutdown

LEMMA InitFlags == Init => FlagInv
<1> SUFFICES ASSUME Init PROVE FlagInv
  OBVIOUS
<1>1. FlagsMatchCalls
  BY DEF Init, FlagsMatchCalls, AtMostOneRunning, Running
<1>2. SendsAnnounced /\ StoppedInPeace /\ PanicOnlyOnSecondShutdown
  BY DEF Init, SendsAnnounced, StoppedInPeace, PanicOnlyOnSecondShutdown
<1> QED
  BY <1>1, <1>2 DEF FlagInv

LEMMA FlagsStep ==
  ASSUME SafetyInv, FlagsMatchCalls, [Next]_vars
  PROVE  FlagsMatchCalls'
<1> USE DEF SafetyInv, TypeOK, ResultsAreFinal, FlagsMatchCalls, RefusalCleared,
            AtMostOneRunning, Running, flagVars, callVars, pollVars, processVars
<1>1. ASSUME NEW c \in Calls, StartConsume(c) PROVE FlagsMatchCalls'
  BY <1>1 DEF StartConsume
<1>2. ASSUME NEW c \in Calls, RefuseConsume(c) PROVE FlagsMatchCalls'
  BY <1>2 DEF RefuseConsume, Leave
<1>3. ASSUME NEW c \in Calls, SeeContext(c) PROVE FlagsMatchCalls'
  BY <1>3 DEF SeeContext, Leave
<1>4. ASSUME NEW c \in Calls, SeeStopSignal(c) PROVE FlagsMatchCalls'
  BY <1>4 DEF SeeStopSignal
<1>5. ASSUME NEW c \in Calls, SeePoller(c) PROVE FlagsMatchCalls'
  BY <1>5 DEF SeePoller, Leave
<1>6. ASSUME NEW c \in Calls, SeeProcessor(c) PROVE FlagsMatchCalls'
  BY <1>6 DEF SeeProcessor, Leave
<1>7. ASSUME NEW c \in Calls, DrainPoller(c) PROVE FlagsMatchCalls'
  BY <1>7 DEF DrainPoller, Leave
<1>8. ASSUME NEW c \in Calls, DrainProcessor(c) PROVE FlagsMatchCalls'
  BY <1>8 DEF DrainProcessor, Leave
<1>9. ASSUME NEW c \in Calls, CancelContexts(c) PROVE FlagsMatchCalls'
  BY <1>9 DEF CancelContexts
<1>10. ASSUME NEW c \in Calls, ClearFlags(c) PROVE FlagsMatchCalls'
  BY <1>10 DEF ClearFlags
<1>11. ASSUME NEW c \in Calls, PollStep(c) \/ ProcessStep(c) PROVE FlagsMatchCalls'
  BY <1>11 DEF PollStep, PollReturns, ReportPoll, ProcessStep, ProcessReturns, ReportProcess
<1>12. ASSUME NEW k \in Closers, AnnounceClose(k) PROVE FlagsMatchCalls'
  BY <1>12 DEF AnnounceClose
<1>13. ASSUME NEW k \in Closers, CloseReturnsEarly(k) \/ CloseStep(k) PROVE FlagsMatchCalls'
  BY <1>13 DEF CloseReturnsEarly, CloseStep, SendStopSignal, SeeStopped, TimeOut
<1>14. CASE UNCHANGED <<flagVars, consume, result>>
  BY <1>14
<1> QED
  BY <1>1, <1>2, <1>3, <1>4, <1>5, <1>6, <1>7, <1>8, <1>9, <1>10, <1>11, <1>12, <1>13, <1>14
  DEF Next, CallConsume, ConsumeStep, ContextEnds, Terminated, vars

LEMMA SendStep ==
  ASSUME SafetyInv, SendsAnnounced, [Next]_vars
  PROVE  SendsAnnounced'
<1> USE DEF SafetyInv, TypeOK, SendsAnnounced, flagVars
<1>1. ASSUME NEW c \in Calls, CallConsume(c) \/ ConsumeStep(c) PROVE SendsAnnounced'
  BY <1>1 DEF CallConsume, StartConsume, RefuseConsume, ConsumeStep, SeeContext, SeeStopSignal,
              SeePoller, SeeProcessor, DrainPoller, DrainProcessor, CancelContexts, ClearFlags
<1>2. ASSUME NEW c \in Calls, PollStep(c) \/ ProcessStep(c) PROVE SendsAnnounced'
  BY <1>2 DEF PollStep, PollReturns, ReportPoll, ProcessStep, ProcessReturns, ReportProcess
<1>3. ASSUME NEW k \in Closers, CloseReturnsEarly(k) \/ AnnounceClose(k) \/ CloseStep(k)
      PROVE  SendsAnnounced'
  BY <1>3 DEF CloseReturnsEarly, AnnounceClose, CloseStep, SendStopSignal, SeeStopped, TimeOut
<1>4. CASE UNCHANGED flagVars
  BY <1>4
<1> QED
  BY <1>1, <1>2, <1>3, <1>4 DEF Next, ContextEnds, Terminated, vars

(* What a call drained stays drained, and its result is final.             *)
LEMMA DrainStep ==
  ASSUME SafetyInv, StoppedInPeace, PanicOnlyOnSecondShutdown, [Next]_vars
  PROVE  StoppedInPeace' /\ PanicOnlyOnSecondShutdown'
<1> USE DEF SafetyInv, TypeOK, ReportsAreTrue, ResultsAreFinal, Outcomes, flagVars, callVars,
            pollVars, processVars
<1> DEFINE Quiet(c) == result'[c] = result[c] \/ (result[c] = "none" /\ result'[c] # "panic")
<1>1. ASSUME NEW c \in Calls, DrainProcessor(c)
      PROVE  StoppedInPeace' /\ PanicOnlyOnSecondShutdown'
  BY <1>1 DEF DrainProcessor, Leave, StoppedInPeace, DrainedInPeace, PanicOnlyOnSecondShutdown
<1>2. ASSUME NEW c \in Calls, StartConsume(c) \/ RefuseConsume(c)
      PROVE  /\ stoppedCh' = stoppedCh /\ \A d \in Calls : Quiet(d)
             /\ \A d \in Calls : DrainedInPeace(d) => DrainedInPeace(d)'
  BY <1>2 DEF StartConsume, RefuseConsume, Leave, DrainedInPeace
<1>3. ASSUME NEW c \in Calls, ConsumeStep(c), ~DrainProcessor(c)
      PROVE  /\ stoppedCh' = stoppedCh /\ \A d \in Calls : Quiet(d)
             /\ \A d \in Calls : DrainedInPeace(d) => DrainedInPeace(d)'
  BY <1>3 DEF ConsumeStep, SeeContext, SeeStopSignal, SeePoller, SeeProcessor, DrainPoller,
              CancelContexts, ClearFlags, Leave, DrainedInPeace
<1>4. ASSUME NEW c \in Calls, PollStep(c) \/ ProcessStep(c)
      PROVE  /\ stoppedCh' = stoppedCh /\ \A d \in Calls : Quiet(d)
             /\ \A d \in Calls : DrainedInPeace(d) => DrainedInPeace(d)'
  BY <1>4 DEF PollStep, PollReturns, ReportPoll, ProcessStep, ProcessReturns, ReportProcess,
              DrainedInPeace
<1>5. ASSUME UNCHANGED <<stoppedCh, poller, processor, result>>
      PROVE  /\ stoppedCh' = stoppedCh /\ \A d \in Calls : Quiet(d)
             /\ \A d \in Calls : DrainedInPeace(d) => DrainedInPeace(d)'
  BY <1>5 DEF DrainedInPeace
<1>6. ASSUME stoppedCh' = stoppedCh, \A d \in Calls : Quiet(d),
             \A d \in Calls : DrainedInPeace(d) => DrainedInPeace(d)'
      PROVE  StoppedInPeace' /\ PanicOnlyOnSecondShutdown'
  BY <1>6 DEF StoppedInPeace, DrainedInPeace, PanicOnlyOnSecondShutdown
<1> QED
  BY <1>1, <1>2, <1>3, <1>4, <1>5, <1>6
  DEF Next, CallConsume, ContextEnds, CloseReturnsEarly, AnnounceClose, CloseStep,
      SendStopSignal, SeeStopped, TimeOut, Terminated, vars

LEMMA FlagInvariant == Spec => []FlagInv
<1>1. SafetyInv /\ FlagInv /\ [Next]_vars => FlagInv'
  BY FlagsStep, SendStep, DrainStep DEF FlagInv
<1> QED
  BY InitFlags, SafetyInvariant, <1>1, PTL DEF Spec

(* The flags match the calls until a refused call has run its deferred     *)
(* function: with callers that do not overlap, always.                     *)
THEOREM FlagsTruthful == Spec => []FlagsMatchCalls
<1>1. FlagInv => FlagsMatchCalls
  BY DEF FlagInv
<1> QED
  BY FlagInvariant, <1>1, PTL

(* The first graceful shutdown of a consumer value never panics.           *)
THEOREM FirstShutdownSafe == Spec => []PanicOnlyOnSecondShutdown
<1>1. FlagInv => PanicOnlyOnSecondShutdown
  BY DEF FlagInv
<1> QED
  BY FlagInvariant, <1>1, PTL

-----------------------------------------------------------------------------
(* Counting the signals of Close and the shutdowns they have started.      *)
DrainingCalls == {c \in Calls : Draining(c)}
Signallers == {k \in Closers : close[k] \in {"waiting", "stopped", "timeout"}}

LEMMA Finite ==
  /\ IsFiniteSet(DrainingCalls) /\ Cardinality(DrainingCalls) \in Nat
  /\ IsFiniteSet(Signallers) /\ Cardinality(Signallers) \in Nat
<1>1. DrainingCalls \in SUBSET Calls /\ Signallers \in SUBSET Closers
  BY DEF DrainingCalls, Signallers
<1> QED
  BY <1>1, LifecycleAssumption, FS_Subset, FS_CardinalityType DEF LifecycleAssumption

(* A signal received is one shutdown more, a Close that has sent is one    *)
(* signal more, and any other step ends shutdowns at most.                 *)
LEMMA CountStep ==
  ASSUME TypeOK, OneStopPerClose, [Next]_vars
  PROVE  OneStopPerClose'
<1> USE DEF TypeOK, flagVars, callVars, pollVars, processVars
<1>0. /\ IsFiniteSet(DrainingCalls)' /\ Cardinality(DrainingCalls)' \in Nat
      /\ IsFiniteSet(Signallers)' /\ Cardinality(Signallers)' \in Nat
  <2>1. DrainingCalls' \in SUBSET Calls /\ Signallers' \in SUBSET Closers
    BY DEF DrainingCalls, Signallers
  <2> QED
    BY <2>1, LifecycleAssumption, FS_Subset, FS_CardinalityType DEF LifecycleAssumption
<1>s. stopSignalCh + Cardinality(DrainingCalls) <= Cardinality(Signallers)
  BY DEF OneStopPerClose, DrainingCalls, Signallers
<1>e. stopSignalCh' + Cardinality(DrainingCalls)' <= Cardinality(Signallers)' => OneStopPerClose'
  BY DEF OneStopPerClose, DrainingCalls, Signallers
<1>1. ASSUME NEW c \in Calls, SeeStopSignal(c)
      PROVE  OneStopPerClose'
  <2>1. DrainingCalls' = DrainingCalls \cup {c} /\ c \notin DrainingCalls
    BY <1>1 DEF SeeStopSignal, DrainingCalls, Draining
  <2>2. Signallers' = Signallers /\ stopSignalCh = 1 /\ stopSignalCh' = 0
    BY <1>1 DEF SeeStopSignal, Signallers
  <2>3. Cardinality(DrainingCalls') = Cardinality(DrainingCalls) + 1
    BY <2>1, Finite, FS_AddElement
  <2> QED
    BY <1>s, <1>e, <2>2, <2>3, Finite
<1>2. ASSUME NEW k \in Closers, SendStopSignal(k)
      PROVE  OneStopPerClose'
  <2>1. Signallers' = Signallers \cup {k} /\ k \notin Signallers
    BY <1>2 DEF SendStopSignal, Signallers
  <2>2. DrainingCalls' = DrainingCalls /\ stopSignalCh = 0 /\ stopSignalCh' = 1
    BY <1>2 DEF SendStopSignal, DrainingCalls, Draining
  <2>3. Cardinality(Signallers') = Cardinality(Signallers) + 1
    BY <2>1, Finite, FS_AddElement
  <2> QED
    BY <1>s, <1>e, <2>2, <2>3, Finite
<1>3. ASSUME DrainingCalls' \in SUBSET DrainingCalls, Signallers \in SUBSET Signallers',
             stopSignalCh' = stopSignalCh
      PROVE  OneStopPerClose'
  <2>1. Cardinality(DrainingCalls') <= Cardinality(DrainingCalls)
    BY <1>3, Finite, FS_Subset
  <2>2. Cardinality(Signallers) <= Cardinality(Signallers')
    BY <1>0, <1>3, FS_Subset
  <2> QED
    BY <1>0, <1>3, <1>s, <1>e, <2>1, <2>2, Finite
<1>4. ASSUME NEW c \in Calls, CallConsume(c) \/ (ConsumeStep(c) /\ ~SeeStopSignal(c))
      PROVE  OneStopPerClose'
  <2>1. DrainingCalls' \in SUBSET DrainingCalls
    BY <1>4 DEF CallConsume, StartConsume, RefuseConsume, ConsumeStep, SeeContext, SeePoller,
                SeeProcessor, DrainPoller, DrainProcessor, CancelContexts, ClearFlags, Leave,
                DrainingCalls, Draining
  <2>2. Signallers' = Signallers /\ stopSignalCh' = stopSignalCh
    BY <1>4 DEF CallConsume, StartConsume, RefuseConsume, ConsumeStep, SeeContext, SeePoller,
                SeeProcessor, DrainPoller, DrainProcessor, CancelContexts, ClearFlags, Leave,
                Signallers
  <2> QED
    BY <1>3, <2>1, <2>2
<1>5. ASSUME NEW k \in Closers,
             CloseReturnsEarly(k) \/ AnnounceClose(k) \/ SeeStopped(k) \/ TimeOut(k)
      PROVE  OneStopPerClose'
  <2>1. DrainingCalls' = DrainingCalls /\ stopSignalCh' = stopSignalCh
    BY <1>5 DEF CloseReturnsEarly, AnnounceClose, SeeStopped, TimeOut, DrainingCalls, Draining
  <2>2. Signallers \in SUBSET Signallers'
    BY <1>5 DEF CloseReturnsEarly, AnnounceClose, SeeStopped, TimeOut, Signallers
  <2> QED
    BY <1>3, <2>1, <2>2
<1>6. ASSUME UNCHANGED <<consume, close, stopSignalCh>>
      PROVE  OneStopPerClose'
  BY <1>6, <1>3 DEF DrainingCalls, Signallers, Draining
<1>7. ASSUME NEW c \in Calls, PollStep(c) \/ ProcessStep(c) \/ \E cause \in Causes : ContextEnds(c, cause)
      PROVE  OneStopPerClose'
  BY <1>7, <1>6 DEF PollStep, PollReturns, ReportPoll, ProcessStep, ProcessReturns, ReportProcess,
                    ContextEnds
<1>8. CASE Terminated \/ UNCHANGED vars
  BY <1>8, <1>6 DEF Terminated, vars
<1> QED
  BY <1>1, <1>2, <1>4, <1>5, <1>7, <1>8 DEF Next, ConsumeStep, CloseStep

(* However many calls and closers there are, no more Consume calls are     *)
(* shut down than Close calls have sent their signal.                      *)
THEOREM OneStopEach == Spec => []OneStopPerClose
<1>1. Init => OneStopPerClose
  <2> SUFFICES ASSUME Init PROVE OneStopPerClose
    OBVIOUS
  <2>1. {c \in Calls : Draining(c)} = {} /\ stopSignalCh = 0
    BY DEF Init, Draining
  <2>2. {k \in Closers : close[k] \in {"waiting", "stopped", "timeout"}} = {}
    BY DEF Init
  <2> QED
    BY <2>1, <2>2, FS_EmptySet DEF OneStopPerClose
<1>2. SafetyInv /\ OneStopPerClose /\ [Next]_vars => OneStopPerClose'
  BY CountStep DEF SafetyInv
<1> QED
  BY <1>1, <1>2, SafetyInvariant, PTL DEF Spec

-----------------------------------------------------------------------------
(* Whom a stop signal was meant for.                                       *)

(* The signal still in the channel was sent to one call, which runs with   *)
(* its shutdown announced or has returned.                                 *)
SignalHasAddressee ==
  stopSignalCh = 1 => \E d \in Calls :
    /\ sentTo = {d}
    /\ consume[d] = "returned" \/ (Running(d) /\ isClosing)

RecordInv ==
  ~RefusalCleared =>
    /\ SignalHasAddressee
    /\ \A c \in Calls : Draining(c) => Asked(c) \/ LeftBehind(c)

LEMMA InitRecord == RecordInit => RecordInv
BY DEF RecordInit, Init, RecordInv, SignalHasAddressee, Draining

(* Every step keeps the record true.  Kept is what all but the sends and   *)
(* receives of a signal do.                                                *)
LEMMA RecordStep ==
  ASSUME SafetyInv, FlagInv, RecordInv, [RecordNext]_recordVars
  PROVE  RecordInv'
<1> SUFFICES ASSUME ~RefusalCleared' PROVE RecordInv'
  BY DEF RecordInv
<1> DEFINE Kept == /\ \A d \in Calls : consume[d] = "returned" => consume'[d] = "returned"
                   /\ \A d \in Calls : Running(d) /\ isClosing =>
                        (Running(d)' /\ isClosing') \/ consume'[d] = "returned"
                   /\ \A d \in Calls : Draining(d)' => Draining(d)
                   /\ \A d \in Calls : Draining(d)' /\ isClosing => isClosing'
                   /\ stopSignalCh' = stopSignalCh
<1>t. TypeOK /\ FlagsMatchCalls /\ SendsAnnounced
  BY DEF SafetyInv, FlagInv
<1>n. [Next]_vars
  BY DEF RecordNext, recordVars
<1>r. Record \/ UNCHANGED <<sentTo, stoppedBy, stopSignalCh, consume>>
  BY DEF RecordNext, recordVars, vars, flagVars, callVars
<1>c. ~RefusalCleared
  <2>1. ASSUME NEW c \in Calls, result[c] = "alreadyRunning", consume[c] = "returned"
        PROVE  result'[c] = "alreadyRunning" /\ consume'[c] = "returned"
    BY <1>n, <1>t, <2>1
    DEF Next, CallConsume, StartConsume, RefuseConsume, ConsumeStep, SeeContext, SeeStopSignal,
        SeePoller, SeeProcessor, DrainPoller, DrainProcessor, CancelContexts, ClearFlags, Leave,
        PollStep, PollReturns, ReportPoll, ProcessStep, ProcessReturns, ReportProcess,
        ContextEnds, CloseReturnsEarly, AnnounceClose, CloseStep, SendStopSignal, SeeStopped,
        TimeOut, Terminated, vars, flagVars, callVars, TypeOK
  <2> QED
    BY <2>1 DEF RefusalCleared
<1>a. AtMostOneRunning /\ (isClosing => \E c \in Calls : Running(c))
  BY <1>t, <1>c DEF FlagsMatchCalls
<1>d. SignalHasAddressee /\ \A c \in Calls : Draining(c) => Asked(c) \/ LeftBehind(c)
  BY <1>c DEF RecordInv
<1>k. ASSUME Kept PROVE RecordInv'
  <2>1. sentTo' = sentTo
    BY <1>k, <1>r, <1>t DEF Record, Sent, TypeOK
  <2>2. ASSUME NEW c \in Calls, Draining(c)' PROVE stoppedBy'[c] = stoppedBy[c]
    BY <1>k, <1>r, <2>2 DEF Record, Took, Draining
  <2>3. SignalHasAddressee'
    BY <1>k, <1>d, <2>1 DEF SignalHasAddressee
  <2>4. ASSUME NEW c \in Calls, Draining(c)' PROVE (Asked(c) \/ LeftBehind(c))'
    BY <1>k, <1>d, <2>2, <2>4 DEF Asked, LeftBehind
  <2> QED
    BY <2>3, <2>4 DEF RecordInv
<1> USE DEF SafetyInv, TypeOK, ResultsAreFinal, flagVars, callVars, pollVars, processVars
<1>1. ASSUME NEW c \in Calls, StartConsume(c) \/ RefuseConsume(c) PROVE RecordInv'
  <2>1. Kept
    BY <1>1 DEF StartConsume, RefuseConsume, Leave, Running, Draining
  <2> QED
    BY <2>1, <1>k
<1>2. ASSUME NEW c \in Calls, SeeContext(c) \/ SeePoller(c) \/ SeeProcessor(c) PROVE RecordInv'
  <2>1. Kept
    BY <1>2 DEF SeeContext, SeePoller, SeeProcessor, Leave, Running, Draining
  <2> QED
    BY <2>1, <1>k
<1>3. ASSUME NEW c \in Calls, DrainPoller(c) \/ DrainProcessor(c) \/ CancelContexts(c)
      PROVE  RecordInv'
  <2>1. Kept
    BY <1>3 DEF DrainPoller, DrainProcessor, CancelContexts, Leave, Running, Draining
  <2> QED
    BY <2>1, <1>k
<1>4. ASSUME NEW c \in Calls, ClearFlags(c) PROVE RecordInv'
  <2>1. Running(c)
    BY <1>4 DEF ClearFlags, Running, RefusalCleared
  <2>2. \A d \in Calls : Running(d) => d = c
    BY <2>1, <1>a DEF AtMostOneRunning
  <2>3. \A d \in Calls : ~Draining(d)'
    BY <1>4, <2>2 DEF ClearFlags, Draining, Running
  <2>4. Kept
    BY <1>4, <2>2, <2>3 DEF ClearFlags
  <2> QED
    BY <2>4, <1>k
<1>5. ASSUME NEW c \in Calls, SeeStopSignal(c) PROVE RecordInv'
  <2>1. PICK d \in Calls : /\ sentTo = {d}
                           /\ consume[d] = "returned" \/ (Running(d) /\ isClosing)
    BY <1>5, <1>d DEF SeeStopSignal, SignalHasAddressee
  <2>2. Running(c) /\ Took(c)
    BY <1>5 DEF SeeStopSignal, Running, Took
  <2>3. stoppedBy'[c] = {d}
    BY <1>r, <2>1, <2>2 DEF Record, Took
  <2>4. consume'[d] = "returned" \/ (d = c /\ isClosing')
    BY <1>5, <1>a, <2>1, <2>2 DEF SeeStopSignal, AtMostOneRunning, Running
  <2>5. (Asked(c) \/ LeftBehind(c))'
    BY <1>5, <2>3, <2>4 DEF SeeStopSignal, Asked, LeftBehind
  <2>6. \A e \in Calls : Draining(e)' => e = c
    BY <1>5, <1>a, <2>2 DEF SeeStopSignal, Draining, AtMostOneRunning, Running
  <2>7. SignalHasAddressee'
    BY <1>5 DEF SeeStopSignal, SignalHasAddressee
  <2> QED
    BY <2>5, <2>6, <2>7 DEF RecordInv
<1>6. ASSUME NEW k \in Closers, SendStopSignal(k) PROVE RecordInv'
  <2>1. isClosing /\ isClosing'
    BY <1>6, <1>t, LifecycleAssumption DEF SendStopSignal, SendsAnnounced, LifecycleAssumption
  <2>2. PICK d \in Calls : {c \in Calls : Running(c)} = {d}
    BY <2>1, <1>a DEF AtMostOneRunning
  <2>3. sentTo' = {d} /\ UNCHANGED <<consume, result>>
    BY <1>6, <1>r, <2>2 DEF SendStopSignal, Record, Sent
  <2>4. SignalHasAddressee'
    BY <2>1, <2>2, <2>3 DEF SignalHasAddressee, Running
  <2>5. ASSUME NEW c \in Calls PROVE stoppedBy'[c] = stoppedBy[c]
    BY <1>r, <2>3 DEF Record, Took
  <2>6. ASSUME NEW c \in Calls, Draining(c)' PROVE (Asked(c) \/ LeftBehind(c))'
    BY <1>d, <2>1, <2>3, <2>5, <2>6 DEF Asked, LeftBehind, Draining
  <2> QED
    BY <2>4, <2>6 DEF RecordInv
<1>7. ASSUME NEW k \in Closers, AnnounceClose(k) PROVE RecordInv'
  <2>1. Kept
    BY <1>7 DEF AnnounceClose, Running, Draining
  <2> QED
    BY <2>1, <1>k
<1>8. ASSUME UNCHANGED <<isClosing, stopSignalCh, consume, result>> PROVE RecordInv'
  <2>1. Kept
    BY <1>8 DEF Running, Draining
  <2> QED
    BY <2>1, <1>k
<1>9. ASSUME NEW c \in Calls, PollStep(c) \/ ProcessStep(c) PROVE RecordInv'
  BY <1>9, <1>8 DEF PollStep, PollReturns, ReportPoll, ProcessStep, ProcessReturns, ReportProcess
<1> QED
  BY <1>n, <1>1, <1>2, <1>3, <1>4, <1>5, <1>6, <1>7, <1>8, <1>9
  DEF Next, CallConsume, ConsumeStep, ContextEnds, CloseReturnsEarly, CloseStep, SeeStopped,
      TimeOut, Terminated, vars

(* For any number of calls and closers: a shutdown was asked for by a      *)
(* Close that is still announced, or was met by the signal that an earlier *)
(* call of the value left behind, or a refused call has cleared the flags. *)
THEOREM StopsAnnounced == RecordSpec => []StoppedOnlyWhenAsked
<1>1. RecordSpec => Spec
  <2>1. RecordInit => Init
    BY DEF RecordInit
  <2>2. [RecordNext]_recordVars => [Next]_vars
    BY DEF RecordNext, recordVars
  <2> QED
    BY <2>1, <2>2, PTL DEF RecordSpec, Spec
<1>2. RecordSpec => []RecordInv
  BY <1>1, InitRecord, RecordStep, SafetyInvariant, FlagInvariant, PTL DEF RecordSpec
<1>3. RecordInv => StoppedOnlyWhenAsked
  BY DEF RecordInv, StoppedOnlyWhenAsked
<1> QED
  BY <1>2, <1>3, PTL
=============================================================================
