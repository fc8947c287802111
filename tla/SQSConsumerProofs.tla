-------------------------- MODULE SQSConsumerProofs --------------------------
(***************************************************************************)
(* The refinements of SQSConsumer: every step of a Consume call is a step  *)
(* of Lifecycle, of Poller, of Processor and of the contract Delivery, or  *)
(* leaves their variables as they are.  The invariants of the components,  *)
(* proved for each of them alone, hold in the composition and are what the *)
(* other components' steps need.                                           *)
(***************************************************************************)
EXTENDS SQSConsumer, FiniteSetTheorems, SequenceTheorems, TLAPS

LP == INSTANCE LifecycleProofs WITH
        Calls <- {run}, Causes <- CallerCauses, Overlapping <- FALSE,
        PollResults <- {"nil", "error"}, ProcessResults <- {"nil", "error"},
        sentTo <- {}, stoppedBy <- [c \in {run} |-> {}]

PP == INSTANCE PollerProofs WITH
        parentCtx <- pollerCtx, pollResult <- Started(poller[run])

RP == INSTANCE ProcessorProofs WITH
        ctxEnded <- processCtxEnded,
        closed <- poller[run] \in {"nil", "error"},
        procResult <- Started(processor[run])

Inv ==
  /\ LP!SafetyInv
  /\ PP!SafetyInv
  /\ PP!NothingLostOrDuplicated
  /\ RP!SafetyInv

-----------------------------------------------------------------------------
(* The constants are what the components assume.                           *)
LEMMA Assumptions ==
  /\ LP!IsFiniteSet({run}) /\ LP!IsFiniteSet(Closers) /\ NoOne \notin Closers
  /\ CallerCauses \subseteq {"canceled", "deadline"}
  /\ ErrorNumberThreshold \in Nat
  /\ MaxNumberOfMessages \in Nat \ {0}
  /\ MaxDeliveries \in Nat
  /\ MaxRetries \in Nat
  /\ AckStrategy \in {"sync", "immediate", "exponential"}
  /\ Capacity \in Nat
<1>1. Capacity \in Nat
  BY SQSConsumerAssumption, FS_CardinalityType DEF SQSConsumerAssumption, Capacity
<1>2. IsFiniteSet({run}) /\ IsFiniteSet(Closers)
  BY FS_Singleton, SQSConsumerAssumption DEF SQSConsumerAssumption
<1>3. LP!IsFiniteSet({run}) /\ LP!IsFiniteSet(Closers)
  BY <1>2 DEF IsFiniteSet, LP!IsFiniteSet
<1> QED
  BY <1>1, <1>3, SQSConsumerAssumption DEF SQSConsumerAssumption

(* The components and their proof modules define the same steps.           *)
LEMMA SamePoller ==
  /\ P!Init => PP!Init
  /\ [P!Next]_(P!vars) => [PP!Next]_(PP!vars)
BY DEF P!Init, PP!Init, P!Next, PP!Next, P!vars, PP!vars, P!pollerVars, PP!pollerVars,
       P!Worker, PP!Worker, P!CheckContext, PP!CheckContext,
       P!ReceiveSucceeds, PP!ReceiveSucceeds, P!ReceiveCanceled, PP!ReceiveCanceled,
       P!ReceiveFails, PP!ReceiveFails, P!GiveUp, PP!GiveUp, P!WakeUp, PP!WakeUp,
       P!Send, PP!Send, P!PollReturns, PP!PollReturns, P!Receive, PP!Receive,
       P!ParentEnds, PP!ParentEnds, P!Terminated, PP!Terminated, P!Move, PP!Move,
       P!ThresholdReached, PP!ThresholdReached, P!ctxEnded, PP!ctxEnded,
       P!ctxCauses, PP!ctxCauses, P!closed, PP!closed, P!Causes, PP!Causes

LEMMA SameProcessor ==
  /\ R!Init => RP!Init
  /\ [R!Next]_(R!vars) => [RP!Next]_(RP!vars)
BY DEF R!Init, RP!Init, R!Next, RP!Next, R!vars, RP!vars, R!processorVars, RP!processorVars,
       R!channel, RP!channel, R!Worker, RP!Worker, R!Stop, RP!Stop, R!Take, RP!Take,
       R!Drained, RP!Drained, R!TransformSucceeds, RP!TransformSucceeds,
       R!TransformFails, RP!TransformFails, R!HandleSucceeds, RP!HandleSucceeds,
       R!HandleFails, RP!HandleFails, R!AckSucceeds, RP!AckSucceeds,
       R!AckFails, RP!AckFails, R!RejectSucceeds, RP!RejectSucceeds,
       R!RejectFails, RP!RejectFails, R!Rejected, RP!Rejected,
       R!ProcessReturns, RP!ProcessReturns, R!Feed, RP!Feed,
       R!CloseChannel, RP!CloseChannel, R!ContextEnds, RP!ContextEnds,
       R!Terminated, RP!Terminated, R!Move, RP!Move, R!Release, RP!Release,
       R!Deliveries, RP!Deliveries, R!Range, RP!Range

LEMMA SameLifecycle ==
  /\ L!Init => LP!Init
  /\ [L!Next]_(L!vars) => [LP!Next]_(LP!vars)
BY DEF L!Init, LP!Init, L!Next, LP!Next, L!vars, LP!vars, L!flagVars, LP!flagVars,
       L!callVars, LP!callVars, L!pollVars, LP!pollVars, L!processVars, LP!processVars,
       L!CallConsume, LP!CallConsume, L!MayCall, LP!MayCall,
       L!StartConsume, LP!StartConsume, L!RefuseConsume, LP!RefuseConsume,
       L!ConsumeStep, LP!ConsumeStep, L!SeeContext, LP!SeeContext,
       L!SeeStopSignal, LP!SeeStopSignal, L!SeePoller, LP!SeePoller,
       L!SeeProcessor, LP!SeeProcessor, L!DrainPoller, LP!DrainPoller,
       L!DrainProcessor, LP!DrainProcessor, L!CancelContexts, LP!CancelContexts,
       L!ClearFlags, LP!ClearFlags, L!PollStep, LP!PollStep, L!ProcessStep, LP!ProcessStep,
       L!PollMayReturn, LP!PollMayReturn, L!ProcessMayReturn, LP!ProcessMayReturn,
       L!PollReturns, LP!PollReturns, L!ReportPoll, LP!ReportPoll,
       L!ProcessReturns, LP!ProcessReturns, L!ReportProcess, LP!ReportProcess,
       L!ContextEnds, LP!ContextEnds, L!CloseReturnsEarly, LP!CloseReturnsEarly,
       L!AnnounceClose, LP!AnnounceClose, L!CloseStep, LP!CloseStep,
       L!SendStopSignal, LP!SendStopSignal, L!SeeStopped, LP!SeeStopped,
       L!TimeOut, LP!TimeOut, L!Terminated, LP!Terminated, L!Leave, LP!Leave,
       L!pollerCtxEnded, LP!pollerCtxEnded, L!processCtxEnded, LP!processCtxEnded

(* What the components' own proofs give for a step.                        *)
LEMMA PollerInvStep ==
  ASSUME PP!SafetyInv, PP!NothingLostOrDuplicated, [P!Next]_(P!vars)
  PROVE  PP!SafetyInv' /\ PP!NothingLostOrDuplicated'
<1>1. [PP!Next]_(PP!vars)
  BY SamePoller
<1>2. PP!TypeOK' /\ PP!BatchWhileSending'
  BY <1>1, Assumptions, PP!TypeStep, PP!BatchStep DEF PP!SafetyInv
<1>3. PP!AllDoneWhenClosed' /\ PP!ReasonsToLeave' /\ PP!ResultIsJustified'
  BY <1>1, Assumptions, PP!ReasonsStep
<1>4. PP!NothingLostOrDuplicated'
  BY <1>1, Assumptions, PP!NothingLostStep
<1> QED
  BY <1>2, <1>3, <1>4 DEF PP!SafetyInv

LEMMA ProcessorInvStep ==
  ASSUME RP!SafetyInv, [R!Next]_(R!vars)
  PROVE  RP!SafetyInv'
<1>1. [RP!Next]_(RP!vars)
  BY SameProcessor
<1>2. RP!TypeOK'
  BY <1>1, Assumptions, RP!TypeStep DEF RP!SafetyInv
<1>3. RP!ChannelIsFresh' /\ RP!HeldByOne' /\ RP!ReasonsToLeave'
  BY <1>1, Assumptions, RP!HoldingStep DEF RP!SafetyInv
<1>4. RP!StageMatches' /\ RP!SettledAsHandled' /\ RP!NoneAbandoned'
  BY <1>1, Assumptions, RP!OutcomeStep
<1> QED
  BY <1>2, <1>3, <1>4 DEF RP!SafetyInv

LEMMA LifecycleInvStep ==
  ASSUME LP!SafetyInv, [L!Next]_(L!vars)
  PROVE  LP!SafetyInv'
<1>1. [LP!Next]_(LP!vars)
  BY SameLifecycle
<1>2. LP!TypeOK'
  BY <1>1, Assumptions, LP!TypeStep DEF LP!SafetyInv
<1>3. /\ LP!IdleHasNothing' /\ LP!ReportsAreTrue' /\ LP!ResultsAreFinal'
      /\ LP!ProcessorHasReason' /\ LP!StoppedIsSeen' /\ LP!ResultIsJustified'
  BY <1>1, Assumptions, LP!ReasonStep
<1>4. LP!StoppedMeansDrained'
  BY <1>1, Assumptions, LP!StoppedStep
<1> QED
  BY <1>2, <1>3, <1>4 DEF LP!SafetyInv

-----------------------------------------------------------------------------
(* The types of the variables the components share.                        *)
LEMMA SharedTypes ==
  ASSUME Inv
  PROVE  /\ ctx \in [{run} -> SUBSET CallerCauses]
         /\ pollerCanceled \in [{run} -> BOOLEAN]
         /\ processCanceled \in [{run} -> BOOLEAN]
         /\ poller \in [{run} -> {"nil", "error", "idle", "running"}]
         /\ processor \in [{run} -> {"nil", "error", "idle", "running"}]
         /\ consume[run] = "idle" => poller[run] = "idle" /\ processor[run] = "idle"
BY DEF Inv, LP!SafetyInv, LP!TypeOK, LP!Outcomes, LP!IdleHasNothing

(* The poller sees: its own steps, the processor's receives, and the end   *)
(* of its context by the caller, by the stop signal or as Consume returns. *)
LEMMA PollerStep ==
  ASSUME Inv, [Next]_vars
  PROVE  [P!Next]_(P!vars)
<1> USE SharedTypes DEF pollVars, Started
<1>1. ASSUME UNCHANGED <<ctx, pollerCanceled, poller, pollVars, buf, taken>>
      PROVE  UNCHANGED P!vars
  BY <1>1 DEF P!vars, P!pollerVars, pollerCtx
<1>2. ASSUME NEW cause \in {"canceled", "deadline"}, pollerCtx' = pollerCtx \cup {cause},
             UNCHANGED <<poller, pollVars, buf, taken>>
      PROVE  [P!Next]_(P!vars)
  <2>1. CASE cause \in pollerCtx
    BY <1>2, <2>1 DEF P!vars, P!pollerVars
  <2>2. CASE cause \notin pollerCtx
    BY <1>2, <2>2 DEF P!Next, P!ParentEnds, P!pollerVars, P!Causes
  <2> QED
    BY <2>1, <2>2
<1>3. CASE CallConsume
  <2>1. UNCHANGED <<ctx, pollerCanceled, pollVars, buf, taken>>
    BY <1>3 DEF CallConsume, L!CallConsume, L!StartConsume, L!RefuseConsume
  <2>2. Started(poller[run])' = Started(poller[run])
    BY <1>3 DEF CallConsume, L!CallConsume, L!StartConsume, L!RefuseConsume, L!pollVars, L!Leave
  <2> QED
    BY <2>1, <2>2 DEF P!vars, P!pollerVars, pollerCtx
<1>4. ASSUME NEW k \in Closers, CallClose(k) \/ CloseStep(k) PROVE UNCHANGED P!vars
  BY <1>1, <1>4
  DEF CallClose, CloseStep, L!CloseReturnsEarly, L!AnnounceClose, L!CloseStep, L!SendStopSignal,
      L!SeeStopped, L!TimeOut, L!callVars, L!pollVars
<1>5. CASE ContextEnds
  <2>1. PICK cause \in CallerCauses : L!ContextEnds(run, cause)
    BY <1>5 DEF ContextEnds
  <2>2. pollerCtx' = pollerCtx \cup {cause}
    BY <2>1 DEF L!ContextEnds, L!callVars, pollerCtx
  <2>3. UNCHANGED <<poller, pollVars, buf, taken>>
    BY <1>5, <2>1 DEF ContextEnds, L!ContextEnds, L!pollVars
  <2> QED
    BY <1>2, <2>2, <2>3, Assumptions
<1>6. CASE ConsumeStep
  <2>1. UNCHANGED <<ctx, poller, pollVars, buf, taken>>
    BY <1>6
    DEF ConsumeStep, L!ConsumeStep, L!SeeContext, L!SeeStopSignal, L!SeePoller, L!SeeProcessor,
        L!DrainPoller, L!DrainProcessor, L!CancelContexts, L!ClearFlags, L!pollVars
  <2>2. CASE L!SeeStopSignal(run) \/ L!CancelContexts(run)
    <3>1. pollerCanceled'[run] = TRUE
      BY <2>2 DEF L!SeeStopSignal, L!CancelContexts
    <3>2. pollerCtx' = pollerCtx \cup {"canceled"}
      BY <2>1, <3>1 DEF pollerCtx
    <3> QED
      BY <1>2, <2>1, <3>2
  <2>3. CASE ~(L!SeeStopSignal(run) \/ L!CancelContexts(run))
    <3>1. UNCHANGED pollerCanceled
      BY <1>6, <2>3
      DEF ConsumeStep, L!ConsumeStep, L!SeeContext, L!SeePoller, L!SeeProcessor,
          L!DrainPoller, L!DrainProcessor, L!ClearFlags
    <3> QED
      BY <1>1, <2>1, <3>1
  <2> QED
    BY <2>2, <2>3
<1>7. ASSUME NEW w \in PollerWorkers, PollWorks(w) PROVE P!Next
  BY <1>7 DEF PollWorks, P!Next
<1>8. CASE PollReturns
  BY <1>8 DEF PollReturns, P!Next
<1>9. ASSUME NEW v \in ProcessorWorkers, ProcessWorks(v) PROVE [P!Next]_(P!vars)
  <2>1. UNCHANGED <<ctx, pollerCanceled, poller, pollVars>>
    BY <1>9 DEF ProcessWorks, lifecycleVars
  <2>2. CASE R!Take(v)
    <3>1. buf # <<>> /\ buf' = Tail(buf) /\ taken' = taken \cup {Head(buf)}
      BY <2>2 DEF R!Take
    <3> QED
      BY <2>1, <3>1 DEF P!Next, P!Receive, P!pollerVars, pollerCtx
  <2>3. CASE ~R!Take(v)
    <3>1. UNCHANGED <<buf, taken>>
      BY <1>9, <2>3
      DEF ProcessWorks, R!Worker, R!Stop, R!Drained, R!TransformSucceeds, R!TransformFails,
          R!HandleSucceeds, R!HandleFails, R!AckSucceeds, R!AckFails, R!RejectSucceeds,
          R!RejectFails, R!channel
    <3> QED
      BY <1>1, <2>1, <3>1
  <2> QED
    BY <2>2, <2>3
<1>10. CASE ReportPoll
  BY <1>1, <1>10 DEF ReportPoll, L!ReportPoll, L!callVars
<1>11. CASE ProcessReturns
  BY <1>1, <1>11 DEF ProcessReturns, L!ProcessReturns, R!ProcessReturns, R!channel,
                     L!callVars, L!pollVars
<1>12. CASE ReportProcess
  BY <1>1, <1>12 DEF ReportProcess, L!ReportProcess, L!callVars, L!pollVars
<1>13. CASE Terminated \/ UNCHANGED vars
  BY <1>1, <1>13 DEF Terminated, vars, lifecycleVars
<1> QED
  BY <1>3, <1>4, <1>5, <1>6, <1>7, <1>8, <1>9, <1>10, <1>11, <1>12, <1>13 DEF Next

(* The processor sees: its own steps, what the poller sends, the close of  *)
(* the channel as Poll returns, and the end of its context.                *)
LEMMA ProcessorStep ==
  ASSUME Inv, [Next]_vars
  PROVE  [R!Next]_(R!vars)
<1> USE SharedTypes DEF processVars, Started
<1>1. ASSUME UNCHANGED <<ctx, processCanceled, poller, processor, buf, taken, processVars>>
      PROVE  UNCHANGED R!vars
  BY <1>1 DEF R!vars, R!channel, R!processorVars, processCtxEnded
<1>2. ASSUME processCtxEnded', UNCHANGED <<poller, processor, buf, taken, processVars>>
      PROVE  [R!Next]_(R!vars)
  <2>1. UNCHANGED <<R!channel, R!processorVars>>
    BY <1>2 DEF R!channel, R!processorVars
  <2>2. processCtxEnded \in BOOLEAN /\ processCtxEnded' = TRUE
    BY <1>2 DEF processCtxEnded
  <2>3. CASE processCtxEnded
    BY <2>1, <2>2, <2>3 DEF R!vars
  <2>4. CASE ~processCtxEnded
    BY <2>1, <2>2, <2>4 DEF R!Next, R!ContextEnds
  <2> QED
    BY <2>3, <2>4
<1>3. CASE CallConsume
  <2>1. UNCHANGED <<ctx, processCanceled, processVars, buf, taken>>
    BY <1>3 DEF CallConsume, L!CallConsume, L!StartConsume, L!RefuseConsume
  <2>2. /\ Started(processor[run])' = Started(processor[run])
        /\ (poller[run] \in {"nil", "error"})' = (poller[run] \in {"nil", "error"})
    BY <1>3 DEF CallConsume, L!CallConsume, L!StartConsume, L!RefuseConsume, L!pollVars,
                L!processVars, L!Leave
  <2> QED
    BY <2>1, <2>2 DEF R!vars, R!channel, R!processorVars, processCtxEnded
<1>4. ASSUME NEW k \in Closers, CallClose(k) \/ CloseStep(k) PROVE UNCHANGED R!vars
  BY <1>1, <1>4
  DEF CallClose, CloseStep, L!CloseReturnsEarly, L!AnnounceClose, L!CloseStep, L!SendStopSignal,
      L!SeeStopped, L!TimeOut, L!callVars, L!pollVars, L!processVars
<1>5. CASE ContextEnds
  <2>1. PICK cause \in CallerCauses : L!ContextEnds(run, cause)
    BY <1>5 DEF ContextEnds
  <2>2. processCtxEnded'
    BY <2>1 DEF L!ContextEnds, processCtxEnded
  <2>3. UNCHANGED <<poller, processor, buf, taken, processVars>>
    BY <1>5, <2>1 DEF ContextEnds, L!ContextEnds, L!pollVars, L!processVars
  <2> QED
    BY <1>2, <2>2, <2>3
<1>6. CASE ConsumeStep
  <2>1. UNCHANGED <<ctx, poller, processor, processVars, buf, taken>>
    BY <1>6
    DEF ConsumeStep, L!ConsumeStep, L!SeeContext, L!SeeStopSignal, L!SeePoller, L!SeeProcessor,
        L!DrainPoller, L!DrainProcessor, L!CancelContexts, L!ClearFlags, L!pollVars, L!processVars
  <2>2. CASE L!CancelContexts(run)
    <3>1. processCtxEnded'
      BY <2>2 DEF L!CancelContexts, processCtxEnded
    <3> QED
      BY <1>2, <2>1, <3>1
  <2>3. CASE ~L!CancelContexts(run)
    <3>1. UNCHANGED processCanceled
      BY <1>6, <2>3
      DEF ConsumeStep, L!ConsumeStep, L!SeeContext, L!SeeStopSignal, L!SeePoller,
          L!SeeProcessor, L!DrainPoller, L!DrainProcessor, L!ClearFlags
    <3> QED
      BY <1>1, <2>1, <3>1
  <2> QED
    BY <2>2, <2>3
<1>7. ASSUME NEW w \in PollerWorkers, PollWorks(w) PROVE [R!Next]_(R!vars)
  <2>1. UNCHANGED <<ctx, processCanceled, poller, processor, processVars, taken>>
    BY <1>7
    DEF PollWorks, lifecycleVars, P!Worker, P!CheckContext, P!ReceiveSucceeds, P!ReceiveCanceled,
        P!ReceiveFails, P!GiveUp, P!WakeUp, P!Send
  <2>2. CASE P!Send(w)
    <3>1. /\ pollerPc[w] = "sending" /\ Len(buf) < Capacity
          /\ buf' = Append(buf, Head(batch[w]))
      BY <2>2 DEF P!Send, P!Move
    <3>2. batch[w] \in Seq(1..MaxDeliveries) /\ batch[w] # <<>>
      BY <3>1 DEF Inv, PP!SafetyInv, PP!TypeOK, PP!Deliveries, PP!BatchWhileSending
    <3>3. /\ Head(batch[w]) \in 1..MaxDeliveries
          /\ Head(batch[w]) \in R!Range(batch[w])
      <4>1. 1 \in DOMAIN batch[w] /\ Head(batch[w]) = batch[w][1]
        BY <3>2, EmptySeq, LenProperties
      <4>2. Head(batch[w]) \in 1..MaxDeliveries
        BY <3>2, HeadTailProperties
      <4>3. batch[w][1] \in R!Range(batch[w])
        BY <4>1, Zenon DEF R!Range
      <4> QED
        BY <4>1, <4>2, <4>3
    <3>4. R!Range(batch[w]) \cap (R!Range(buf) \cup taken) = {}
      BY DEF Inv, PP!NothingLostOrDuplicated, PP!NothingDuplicated, PP!Range, R!Range
    <3>5. poller[run] = "running"
      BY <1>7 DEF PollWorks
    <3>6. R!Feed(Head(batch[w]))
      BY <2>1, <3>1, <3>3, <3>4, <3>5 DEF R!Feed, R!processorVars, processCtxEnded
    <3> QED
      BY <3>3, <3>6 DEF R!Next, R!Deliveries
  <2>3. CASE ~P!Send(w)
    <3>1. UNCHANGED buf
      BY <1>7, <2>3
      DEF PollWorks, P!Worker, P!CheckContext, P!ReceiveSucceeds, P!ReceiveCanceled,
          P!ReceiveFails, P!GiveUp, P!WakeUp
    <3> QED
      BY <1>1, <2>1, <3>1
  <2> QED
    BY <2>2, <2>3
<1>8. CASE PollReturns
  <2>1. /\ poller[run] = "running" /\ poller'[run] \in {"nil", "error"}
        /\ UNCHANGED <<ctx, processCanceled, processor, processVars, buf, taken>>
    BY <1>8 DEF PollReturns, L!PollReturns, L!callVars, L!processVars, P!PollReturns
  <2>2. R!CloseChannel
    BY <2>1 DEF R!CloseChannel, R!processorVars, processCtxEnded
  <2> QED
    BY <2>2 DEF R!Next
<1>9. ASSUME NEW v \in ProcessorWorkers, ProcessWorks(v) PROVE R!Next
  BY <1>9 DEF ProcessWorks, R!Next
<1>10. CASE ReportPoll
  BY <1>1, <1>10 DEF ReportPoll, L!ReportPoll, L!callVars, L!processVars
<1>11. CASE ProcessReturns
  BY <1>11 DEF ProcessReturns, R!Next
<1>12. CASE ReportProcess
  BY <1>1, <1>12 DEF ReportProcess, L!ReportProcess, L!callVars, L!pollVars
<1>13. CASE Terminated \/ UNCHANGED vars
  BY <1>1, <1>13 DEF Terminated, vars, lifecycleVars
<1> QED
  BY <1>3, <1>4, <1>5, <1>6, <1>7, <1>8, <1>9, <1>10, <1>11, <1>12, <1>13 DEF Next

(* The call's protocol sees every step but those of the workers.  Poll and *)
(* Process return nil only when Lifecycle lets them, which is what their   *)
(* own invariants say of workers that have left.                           *)
LEMMA LifecycleStep ==
  ASSUME Inv, [Next]_vars
  PROVE  [L!Next]_(L!vars)
<1> USE SharedTypes
<1>1. ASSUME UNCHANGED lifecycleVars PROVE UNCHANGED L!vars
  BY <1>1 DEF lifecycleVars, L!vars, L!flagVars, L!callVars, L!pollVars, L!processVars
<1>2. CASE CallConsume
  BY <1>2 DEF CallConsume, L!Next
<1>3. ASSUME NEW k \in Closers, CallClose(k) \/ CloseStep(k) PROVE L!Next
  BY <1>3 DEF CallClose, CloseStep, L!Next
<1>4. CASE ContextEnds
  BY <1>4 DEF ContextEnds, L!Next
<1>5. CASE ConsumeStep
  BY <1>5 DEF ConsumeStep, L!Next
<1>6. ASSUME NEW w \in PollerWorkers, PollWorks(w) PROVE UNCHANGED L!vars
  BY <1>1, <1>6 DEF PollWorks
<1>7. CASE PollReturns
  <2>1. PICK res \in {"nil", "error"} : L!PollReturns(run, res)
    BY <1>7 DEF PollReturns
  <2>2. /\ \A w \in PollerWorkers : pollerPc[w] = "done"
        /\ Started(poller[run])' = IF PollerWorkers = {} \/ errCh # {} THEN "error" ELSE "nil"
    BY <1>7 DEF PollReturns, P!PollReturns
  <2>3. poller'[run] = res
    BY <2>1 DEF L!PollReturns
  <2>4. res = "nil" => PollerWorkers # {} /\ errCh = {}
    BY <2>2, <2>3 DEF Started
  <2>5. res = "nil" => pollerCtx # {}
    BY <2>2, <2>4 DEF Inv, PP!SafetyInv, PP!ReasonsToLeave
  <2>6. L!PollMayReturn(run, res)
    BY <2>5 DEF L!PollMayReturn, L!pollerCtxEnded, pollerCtx
  <2> QED
    BY <2>1, <2>6 DEF L!Next, L!PollStep
<1>8. CASE ReportPoll
  BY <1>8 DEF ReportPoll, L!Next, L!PollStep
<1>9. ASSUME NEW v \in ProcessorWorkers, ProcessWorks(v) PROVE UNCHANGED L!vars
  BY <1>1, <1>9 DEF ProcessWorks
<1>10. CASE ProcessReturns
  <2>1. PICK res \in {"nil", "error"} : L!ProcessReturns(run, res)
    BY <1>10 DEF ProcessReturns
  <2>2. /\ \A v \in ProcessorWorkers : procPc[v] = "done"
        /\ Started(processor[run])' = IF ProcessorWorkers = {} THEN "error" ELSE "nil"
    BY <1>10 DEF ProcessReturns, R!ProcessReturns
  <2>3. processor'[run] = res
    BY <2>1 DEF L!ProcessReturns
  <2>4. res = "nil" => ProcessorWorkers # {}
    BY <2>2, <2>3 DEF Started
  <2>5. res = "nil" => processCtxEnded \/ poller[run] \in {"nil", "error"}
    BY <2>2, <2>4 DEF Inv, RP!SafetyInv, RP!ReasonsToLeave
  <2>6. L!ProcessMayReturn(run, res)
    BY <2>5 DEF L!ProcessMayReturn, L!processCtxEnded, processCtxEnded
  <2> QED
    BY <2>1, <2>6 DEF L!Next, L!ProcessStep
<1>11. CASE ReportProcess
  BY <1>11 DEF ReportProcess, L!Next, L!ProcessStep
<1>12. CASE Terminated \/ UNCHANGED vars
  BY <1>1, <1>12 DEF Terminated, vars
<1> QED
  BY <1>2, <1>3, <1>4, <1>5, <1>6, <1>7, <1>8, <1>9, <1>10, <1>11, <1>12 DEF Next

(* So the three invariants hold together.                                  *)
LEMMA InvStep ==
  ASSUME Inv, [Next]_vars
  PROVE  Inv'
<1>1. LP!SafetyInv'
  BY LifecycleStep, LifecycleInvStep DEF Inv
<1>2. PP!SafetyInv' /\ PP!NothingLostOrDuplicated'
  BY PollerStep, PollerInvStep DEF Inv
<1>3. RP!SafetyInv'
  BY ProcessorStep, ProcessorInvStep DEF Inv
<1> QED
  BY <1>1, <1>2, <1>3 DEF Inv

LEMMA InitInv == Init => Inv
<1> SUFFICES ASSUME Init PROVE Inv
  OBVIOUS
<1>1. LP!SafetyInv
  BY Assumptions, SameLifecycle, LP!InitSafety DEF Init
<1>2. PP!SafetyInv /\ PP!NothingLostOrDuplicated
  BY Assumptions, SamePoller, PP!InitSafety, PP!InitNothingLost DEF Init
<1>3. RP!SafetyInv
  BY Assumptions, SameProcessor, RP!InitSafety DEF Init
<1> QED
  BY <1>1, <1>2, <1>3 DEF Inv

LEMMA Invariant == Spec => []Inv
BY InitInv, InvStep, PTL DEF Spec

(* In a Consume call the protocol of Lifecycle is kept.                    *)
THEOREM LifecycleRefined == Spec => LifecycleSpec
<1>1. Init => L!Init
  BY DEF Init
<1> QED
  BY <1>1, LifecycleStep, Invariant, PTL DEF Spec, LifecycleSpec, L!Spec

(* The poller runs in a composition that is no more than the environment   *)
(* it was checked and proved in.                                           *)
THEOREM PollerRefined == Spec => PollerSpec
<1>1. Init => P!Init
  BY DEF Init
<1> QED
  BY <1>1, PollerStep, Invariant, PTL DEF Spec, PollerSpec, P!Spec

(* So does the processor: the poller feeds it each delivery once, and      *)
(* closes the channel once, after its last send.                           *)
THEOREM ProcessorRefined == Spec => ProcessorSpec
<1>1. Init => R!Init
  BY DEF Init
<1> QED
  BY <1>1, ProcessorStep, Invariant, PTL DEF Spec, ProcessorSpec, R!Spec

-----------------------------------------------------------------------------
(* Delivery's view of a message.                                           *)
Message ==
  [d \in 1..MaxDeliveries |->
     IF d > issued THEN "unseen" ELSE IF R!Finished(d) THEN "finished" ELSE "held"]

(* What the steps below need to know of the messages.                      *)
LEMMA MessageFacts ==
  ASSUME Inv
  PROVE  /\ issued \in 0..MaxDeliveries
         /\ taken \subseteq 1..issued
         /\ procPc \in [ProcessorWorkers ->
              {"select", "transform", "handle", "ack", "reject", "done"}]
         /\ cur \in [ProcessorWorkers -> {0} \cup 1..MaxDeliveries]
         /\ \A v \in ProcessorWorkers : cur[v] = 0 <=> procPc[v] \in {"select", "done"}
         /\ \A v \in ProcessorWorkers : cur[v] # 0 =>
              cur[v] \in taken /\ \A u \in ProcessorWorkers \ {v} : cur[u] # cur[v]
<1>1. taken \subseteq 1..issued
  BY Zenon DEF Inv, PP!NothingLostOrDuplicated, PP!NothingLost
<1> QED
  BY <1>1
  DEF Inv, PP!SafetyInv, PP!TypeOK, RP!SafetyInv, RP!TypeOK, RP!Deliveries, RP!HeldByOne

(* ReceiveMessage returns n messages while nothing has been reported.      *)
LEMMA ReceiveStep ==
  ASSUME Inv, NEW w \in PollerWorkers, PollWorks(w),
         NEW n \in 0..MaxNumberOfMessages, P!ReceiveSucceeds(w, n)
  PROVE  \E new \in SUBSET (1..MaxDeliveries) : D!Receive(new)
<1> USE MessageFacts
<1>0. PICK new : new = (issued + 1)..(issued + n)
  OBVIOUS
<1>1. poller[run] = "running" /\ UNCHANGED <<stoppedCh, ctx, cur, taken>>
  BY DEF PollWorks, lifecycleVars, processVars, P!ReceiveSucceeds
<1>2. n \in Nat /\ issued' = issued + n
  BY Assumptions DEF P!ReceiveSucceeds
<1>3. ~stoppedCh
  BY <1>1 DEF Inv, LP!SafetyInv, LP!StoppedMeansDrained
<1>4. \A d \in 1..MaxDeliveries : R!Finished(d)' = R!Finished(d)
  BY <1>1 DEF R!Finished
<1>5. \A d \in 1..MaxDeliveries : d \in new => d > issued /\ ~(d > issued') /\ ~R!Finished(d)
  BY <1>0, <1>2 DEF R!Finished
<1>6. \A d \in 1..MaxDeliveries : d \notin new => (d > issued' <=> d > issued)
  BY <1>0, <1>2
<1>7. new \subseteq 1..MaxDeliveries /\ \A d \in new : Message[d] = "unseen"
  <2>1. issued + n <= MaxDeliveries
    BY DEF P!ReceiveSucceeds
  <2>2. \A d \in new : d \in 1..MaxDeliveries /\ d > issued
    BY <1>0, <1>2, <2>1, Assumptions
  <2> QED
    BY <2>2 DEF Message
<1>8. Message' = [d \in 1..MaxDeliveries |-> IF d \in new THEN "held" ELSE Message[d]]
  BY <1>4, <1>5, <1>6 DEF Message
<1> QED
  <2>1. D!Receive(new)
    BY <1>1, <1>3, <1>7, <1>8 DEF D!Receive, Message
  <2> QED
    BY <1>7, <2>1

(* A worker leaves processMessage, and lets go of what it held.            *)
LEMMA FinishStep ==
  ASSUME Inv, NEW v \in ProcessorWorkers, ProcessWorks(v),
         NEW from \in {"transform", "ack", "reject"}, R!Release(v, from),
         UNCHANGED taken
  PROVE  \E d \in 1..MaxDeliveries : D!Finish(d)
<1> USE MessageFacts
<1>1. UNCHANGED <<stoppedCh, ctx, issued>>
  BY DEF ProcessWorks, lifecycleVars, pollVars
<1>2. procPc[v] = from /\ cur' = [cur EXCEPT ![v] = 0]
  BY DEF R!Release, R!Move
<1>3. PICK d \in 1..MaxDeliveries : d = cur[v]
  BY <1>2
<1>4. d \in taken /\ ~(d > issued)
  BY <1>2, <1>3
<1>5. ~R!Finished(d) /\ R!Finished(d)'
  BY <1>2, <1>3, <1>4 DEF R!Finished
<1>6. \A e \in 1..MaxDeliveries : e # d => R!Finished(e)' = R!Finished(e)
  BY <1>2, <1>3 DEF R!Finished
<1>7. Message[d] = "held"
  BY <1>4, <1>5 DEF Message
<1>8. Message' = [Message EXCEPT ![d] = "finished"]
  <2>1. /\ Message' = [e \in 1..MaxDeliveries |-> Message'[e]]
        /\ Message = [e \in 1..MaxDeliveries |-> Message[e]]
    BY DEF Message
  <2>2. Message'[d] = "finished"
    BY <1>1, <1>4, <1>5 DEF Message
  <2>3. \A e \in 1..MaxDeliveries : e # d => Message'[e] = Message[e]
    BY <1>1, <1>6 DEF Message
  <2> QED
    BY <2>1, <2>2, <2>3
<1> QED
  <2>1. D!Finish(d)
    BY <1>1, <1>7, <1>8 DEF D!Finish, Message
  <2> QED
    BY <2>1

(* Consume sees the nil of Process after that of Poll: with a live context *)
(* the channel is drained, no batch is left and no worker holds anything.  *)
LEMMA ReportStep ==
  ASSUME Inv, L!DrainProcessor(run), processErrCh[run] = "nil",
         UNCHANGED <<pollVars, taken, processVars>>
  PROVE  D!ReportStopped
<1> USE MessageFacts
<1>1. stoppedCh' = TRUE /\ UNCHANGED <<ctx, issued, taken, cur>>
  BY DEF L!DrainProcessor, pollVars, processVars
<1>2. consume[run] = "drainProcessor"
  BY DEF L!DrainProcessor, L!Leave
<1>3. poller[run] = "nil" /\ processor[run] = "nil" /\ ~processCanceled[run]
  BY <1>2 DEF Inv, LP!SafetyInv, LP!ReportsAreTrue, LP!ResultsAreFinal, LP!Outcomes
<1>4. ASSUME ctx[run] = {} PROVE D!Held = {}
  <2>1. /\ \A v \in ProcessorWorkers : procPc[v] = "done"
        /\ buf = <<>>
    BY <1>3, <1>4 DEF Inv, RP!SafetyInv, RP!ReasonsToLeave, Started, processCtxEnded
  <2>2. \A w \in PollerWorkers : batch[w] = <<>>
    BY <1>3
    DEF Inv, PP!SafetyInv, PP!AllDoneWhenClosed, PP!BatchWhileSending, PP!closed, Started
  <2>3. \A s : s = <<>> => PP!Range(s) = {}
    BY DEF PP!Range
  <2>4. 1..issued = taken
    <3>1. 1..issued = (UNION {PP!Range(batch[w]) : w \in PollerWorkers})
                        \cup PP!Range(buf) \cup taken
      BY Zenon DEF Inv, PP!NothingLostOrDuplicated, PP!NothingLost
    <3>2. UNION {PP!Range(batch[w]) : w \in PollerWorkers} = {}
      BY <2>2, <2>3
    <3> QED
      BY <2>1, <2>3, <3>1, <3>2
  <2>5. \A d \in taken : R!Finished(d)
    BY <2>1 DEF R!Finished
  <2>6. \A d \in 1..MaxDeliveries : Message[d] # "held"
    BY <2>4, <2>5 DEF Message
  <2> QED
    BY <2>6 DEF D!Held, Message
<1>5. Message' = Message
  BY <1>1 DEF Message, R!Finished
<1> QED
  BY <1>1, <1>4, <1>5 DEF D!ReportStopped, Message

(* Every other step leaves the contract's variables alone, except that the *)
(* caller may end the context.                                             *)
LEMMA DeliveryStep ==
  ASSUME Inv, [Next]_vars
  PROVE  [D!Next]_(D!vars)
<1> USE SharedTypes, MessageFacts
<1>1. ASSUME UNCHANGED <<issued, taken, cur, stoppedCh, ctx>> PROVE UNCHANGED D!vars
  BY <1>1 DEF D!vars, R!Finished
<1>2. CASE CallConsume
  BY <1>1, <1>2
  DEF CallConsume, L!CallConsume, L!StartConsume, L!RefuseConsume, L!flagVars, pollVars, processVars
<1>3. ASSUME NEW k \in Closers, CallClose(k) \/ CloseStep(k) PROVE UNCHANGED D!vars
  BY <1>1, <1>3
  DEF CallClose, CloseStep, L!CloseReturnsEarly, L!AnnounceClose, L!CloseStep, L!SendStopSignal,
      L!SeeStopped, L!TimeOut, L!flagVars, pollVars, processVars
<1>4. CASE ContextEnds
  <2>1. PICK cause \in CallerCauses : L!ContextEnds(run, cause)
    BY <1>4 DEF ContextEnds
  <2>2. (ctx[run] # {})' = TRUE
    BY <2>1 DEF L!ContextEnds
  <2>3. UNCHANGED <<issued, taken, cur, stoppedCh>>
    BY <1>4, <2>1 DEF ContextEnds, L!ContextEnds, L!flagVars, pollVars, processVars
  <2> QED
    BY <2>2, <2>3 DEF D!Next, D!EndContext, R!Finished
<1>5. CASE ConsumeStep
  <2>1. UNCHANGED <<pollVars, buf, taken, processVars, ctx>>
    BY <1>5
    DEF ConsumeStep, L!ConsumeStep, L!SeeContext, L!SeeStopSignal, L!SeePoller, L!SeeProcessor,
        L!DrainPoller, L!DrainProcessor, L!CancelContexts, L!ClearFlags
  <2>2. CASE L!DrainProcessor(run) /\ processErrCh[run] = "nil"
    BY <2>1, <2>2, ReportStep DEF D!Next
  <2>3. CASE L!DrainProcessor(run) /\ processErrCh[run] # "nil"
    <3>1. stoppedCh \in BOOLEAN
      BY DEF Inv, LP!SafetyInv, LP!TypeOK
    <3>2. stoppedCh' = stoppedCh
      BY <2>3, <3>1 DEF L!DrainProcessor
    <3> QED
      BY <1>1, <2>1, <3>2 DEF pollVars, processVars
  <2>4. CASE ~L!DrainProcessor(run)
    <3>1. UNCHANGED stoppedCh
      BY <1>5, <2>4
      DEF ConsumeStep, L!ConsumeStep, L!SeeContext, L!SeeStopSignal, L!SeePoller,
          L!SeeProcessor, L!DrainPoller, L!CancelContexts, L!ClearFlags, L!flagVars
    <3> QED
      BY <1>1, <2>1, <3>1 DEF pollVars, processVars
  <2> QED
    BY <2>2, <2>3, <2>4
<1>6. ASSUME NEW w \in PollerWorkers, PollWorks(w) PROVE [D!Next]_(D!vars)
  <2>1. UNCHANGED <<cur, stoppedCh, ctx>>
    BY <1>6 DEF PollWorks, lifecycleVars, processVars
  <2>2. ASSUME NEW n \in 0..MaxNumberOfMessages, P!ReceiveSucceeds(w, n)
        PROVE  D!Next
    BY <1>6, <2>2, ReceiveStep DEF D!Next
  <2>3. CASE ~\E n \in 0..MaxNumberOfMessages : P!ReceiveSucceeds(w, n)
    <3>1. UNCHANGED <<issued, taken>>
      BY <1>6, <2>3
      DEF PollWorks, P!Worker, P!CheckContext, P!ReceiveCanceled, P!ReceiveFails, P!GiveUp,
          P!WakeUp, P!Send
    <3> QED
      BY <1>1, <2>1, <3>1
  <2> QED
    BY <2>2, <2>3
<1>7. CASE PollReturns
  BY <1>1, <1>7 DEF PollReturns, P!PollReturns, L!PollReturns, L!flagVars, processVars
<1>8. CASE ReportPoll
  BY <1>1, <1>8 DEF ReportPoll, L!ReportPoll, L!flagVars, pollVars, processVars
<1>9. ASSUME NEW v \in ProcessorWorkers, ProcessWorks(v) PROVE [D!Next]_(D!vars)
  <2>1. UNCHANGED <<issued, stoppedCh, ctx>>
    BY <1>9 DEF ProcessWorks, lifecycleVars, pollVars
  <2>2. CASE R!Take(v)
    <3>1. /\ buf # <<>> /\ procPc[v] = "select"
          /\ cur' = [cur EXCEPT ![v] = Head(buf)] /\ taken' = taken \cup {Head(buf)}
      BY <2>2 DEF R!Take, R!Move
    <3>2. Head(buf) \notin taken
      <4>1. buf \in Seq(1..MaxDeliveries)
        BY DEF Inv, PP!SafetyInv, PP!TypeOK, PP!Deliveries
      <4>2. 1 \in DOMAIN buf /\ Head(buf) = buf[1]
        BY <3>1, <4>1, EmptySeq, LenProperties
      <4>3. buf[1] \in RP!Range(buf)
        BY <4>2, Zenon DEF RP!Range
      <4> QED
        BY <4>2, <4>3 DEF Inv, RP!SafetyInv, RP!ChannelIsFresh
    <3>3. \A d \in 1..MaxDeliveries : R!Finished(d)' = R!Finished(d)
      BY <3>1, <3>2 DEF R!Finished
    <3> QED
      BY <2>1, <3>3 DEF D!vars
  <2>3. CASE R!TransformFails(v) \/ R!AckSucceeds(v) \/ R!AckFails(v)
               \/ R!RejectSucceeds(v) \/ R!RejectFails(v)
    <3>1. UNCHANGED taken
          /\ \E from \in {"transform", "ack", "reject"} : R!Release(v, from)
      BY <2>3 DEF R!TransformFails, R!AckSucceeds, R!AckFails, R!RejectSucceeds, R!RejectFails
    <3>2. PICK from \in {"transform", "ack", "reject"} : R!Release(v, from)
      BY <3>1
    <3> QED
      BY <1>9, <3>1, <3>2, FinishStep DEF D!Next
  <2>4. CASE R!Stop(v) \/ R!Drained(v) \/ R!TransformSucceeds(v) \/ R!HandleSucceeds(v)
               \/ R!HandleFails(v)
    BY <1>1, <2>1, <2>4
    DEF R!Stop, R!Drained, R!TransformSucceeds, R!HandleSucceeds, R!HandleFails
  <2> QED
    BY <1>9, <2>2, <2>3, <2>4 DEF ProcessWorks, R!Worker
<1>10. CASE ProcessReturns
  BY <1>1, <1>10 DEF ProcessReturns, R!ProcessReturns, L!ProcessReturns, L!flagVars, pollVars
<1>11. CASE ReportProcess
  BY <1>1, <1>11 DEF ReportProcess, L!ReportProcess, L!flagVars, pollVars, processVars
<1>12. CASE Terminated \/ UNCHANGED vars
  BY <1>1, <1>12 DEF Terminated, vars, lifecycleVars, pollVars, processVars
<1> QED
  BY <1>2, <1>3, <1>4, <1>5, <1>6, <1>7, <1>8, <1>9, <1>10, <1>11, <1>12 DEF Next

(* The consumer implements Delivery for any number of workers, messages,   *)
(* retries and closers: a graceful shutdown reported complete under a live *)
(* context has finished every message SQS handed over, and none is         *)
(* received after it.                                                      *)
THEOREM DeliveryImplemented == Spec => DeliverySpec
<1>1. Init => D!Init
  BY Assumptions DEF Init, L!Init, P!Init, D!Init
<1> QED
  BY <1>1, DeliveryStep, Invariant, PTL DEF Spec, DeliverySpec, D!Spec

(* The contract's promise, for any set of deliveries.                      *)
LEMMA ContractType ==
  ASSUME D!TypeOK, [D!Next]_(D!vars)
  PROVE  D!TypeOK'
<1> USE DEF D!TypeOK
<1>1. ASSUME NEW given \in SUBSET (1..MaxDeliveries), D!Receive(given) PROVE D!TypeOK'
  BY <1>1 DEF D!Receive
<1>2. ASSUME NEW d \in 1..MaxDeliveries, D!Finish(d) PROVE D!TypeOK'
  BY <1>2 DEF D!Finish
<1>3. CASE D!ReportStopped
  BY <1>3 DEF D!ReportStopped
<1>4. CASE D!EndContext
  BY <1>4 DEF D!EndContext
<1>5. CASE UNCHANGED D!vars
  BY <1>5 DEF D!vars
<1> QED
  BY <1>1, <1>2, <1>3, <1>4, <1>5 DEF D!Next

LEMMA ContractStep ==
  ASSUME D!TypeOK, D!StoppedHoldsNothing, [D!Next]_(D!vars)
  PROVE  D!StoppedHoldsNothing'
<1> USE DEF D!TypeOK, D!StoppedHoldsNothing, D!Held
<1>1. ASSUME NEW given \in SUBSET (1..MaxDeliveries), D!Receive(given)
      PROVE  D!StoppedHoldsNothing'
  BY <1>1 DEF D!Receive
<1>2. ASSUME NEW d \in 1..MaxDeliveries, D!Finish(d) PROVE D!StoppedHoldsNothing'
  BY <1>2 DEF D!Finish
<1>3. CASE D!ReportStopped
  BY <1>3 DEF D!ReportStopped
<1>4. CASE D!EndContext
  BY <1>4 DEF D!EndContext
<1>5. CASE UNCHANGED D!vars
  BY <1>5 DEF D!vars
<1> QED
  BY <1>1, <1>2, <1>3, <1>4, <1>5 DEF D!Next

(* Close's promise (consumer.go:262-271) is the consumer's: once stoppedCh *)
(* is closed under a live context, no message is in a batch, in the        *)
(* channel or in a handler, then or later.                                 *)
THEOREM ShutdownLeavesNothing == Spec => []D!StoppedHoldsNothing
<1>1. D!Init => D!TypeOK /\ D!StoppedHoldsNothing
  BY DEF D!Init, D!TypeOK, D!StoppedHoldsNothing
<1>2. D!TypeOK /\ D!StoppedHoldsNothing /\ [D!Next]_(D!vars)
        => D!TypeOK' /\ D!StoppedHoldsNothing'
  BY ContractType, ContractStep
<1> QED
  BY <1>1, <1>2, DeliveryImplemented, PTL DEF DeliverySpec, D!Spec
=============================================================================
