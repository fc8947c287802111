--------------------------- MODULE ProcessorProofs ---------------------------
(* Theorems about Processor, for every pool, strategy, capacity and number *)
(* of deliveries.                                                          *)
EXTENDS Processor, DataLemmas, TLAPS

(* The channel holds each delivery at most once, and none already taken.   *)
ChannelIsFresh ==
  IsInjective(buf) /\ Range(buf) \cap taken = {}

(* Workers hold different deliveries, all of them taken from the channel.  *)
HeldByOne ==
  \A v \in ProcessorWorkers : cur[v] # 0 =>
    /\ cur[v] \in taken
    /\ \A u \in ProcessorWorkers \ {v} : cur[u] # cur[v]

(* How far a worker is in processMessage says what has become of its       *)
(* delivery; nothing has become of one that nobody has taken.              *)
StageMatches ==
  /\ \A d \in Deliveries \ taken : handling[d] = "none" /\ queue[d] = "hidden"
  /\ \A v \in ProcessorWorkers :
       /\ procPc[v] \in {"transform", "handle"} =>
            handling[cur[v]] = "none" /\ queue[cur[v]] = "hidden"
       /\ procPc[v] = "ack" => handling[cur[v]] = "ok" /\ queue[cur[v]] = "hidden"
       /\ procPc[v] = "reject" => handling[cur[v]] = "error" /\ queue[cur[v]] = "hidden"

(* Why a worker has left, and Process after all of them.                   *)
ReasonsToLeave ==
  /\ \A v \in ProcessorWorkers : procPc[v] = "done" => ctxEnded \/ (closed /\ buf = <<>>)
  /\ procResult = "nil" =>
       ProcessorWorkers # {} /\ \A v \in ProcessorWorkers : procPc[v] = "done"

SafetyInv ==
  /\ TypeOK
  /\ ChannelIsFresh
  /\ HeldByOne
  /\ StageMatches
  /\ ReasonsToLeave
  /\ SettledAsHandled
  /\ NoneAbandoned

-----------------------------------------------------------------------------
LEMMA InitSafety == Init => SafetyInv
<1> SUFFICES ASSUME Init PROVE SafetyInv
  OBVIOUS
<1> USE ProcessorAssumption DEF ProcessorAssumption, Init
<1>1. TypeOK
  <2>1. buf \in Seq(Deliveries) /\ Len(buf) <= Capacity
    BY EmptySeq
  <2>2. ctxEnded \in BOOLEAN /\ closed \in BOOLEAN
    BY Zenon
  <2> QED
    BY <2>1, <2>2 DEF TypeOK
<1>2. ChannelIsFresh /\ HeldByOne
  BY DEF ChannelIsFresh, HeldByOne, Range, IsInjective
<1>3. StageMatches /\ ReasonsToLeave
  BY DEF StageMatches, ReasonsToLeave
<1>4. SettledAsHandled /\ NoneAbandoned
  BY DEF SettledAsHandled, NoneAbandoned
<1> QED
  BY <1>1, <1>2, <1>3, <1>4 DEF SafetyInv

(* What receiving the first message, or sending one more, does to the      *)
(* channel.                                                                *)
LEMMA ChannelTail ==
  ASSUME TypeOK, buf # <<>>
  PROVE  /\ Head(buf) \in Deliveries
         /\ Tail(buf) \in Seq(Deliveries) /\ Len(Tail(buf)) <= Capacity
<1>1. Len(buf) \in Nat
  BY LenProperties DEF TypeOK
<1>2. /\ Head(buf) \in Deliveries
      /\ Tail(buf) \in Seq(Deliveries)
      /\ Len(Tail(buf)) = Len(buf) - 1
  BY HeadTailProperties DEF TypeOK
<1> QED
  BY <1>1, <1>2, ProcessorAssumption DEF ProcessorAssumption, TypeOK

LEMMA ChannelAppend ==
  ASSUME TypeOK, NEW d \in Deliveries, Len(buf) < Capacity
  PROVE  Append(buf, d) \in Seq(Deliveries) /\ Len(Append(buf, d)) <= Capacity
<1>1. Len(buf) \in Nat
  BY LenProperties DEF TypeOK
<1>2. Append(buf, d) \in Seq(Deliveries) /\ Len(Append(buf, d)) = Len(buf) + 1
  BY AppendProperties DEF TypeOK
<1> QED
  BY <1>1, <1>2, ProcessorAssumption DEF ProcessorAssumption

LEMMA TypeStep ==
  ASSUME TypeOK, [Next]_vars
  PROVE  TypeOK'
<1> USE ProcessorAssumption DEF ProcessorAssumption, TypeOK, Deliveries, channel
<1>1. ASSUME NEW v \in ProcessorWorkers, Stop(v) PROVE TypeOK'
  BY <1>1 DEF Stop, Move
<1>2. ASSUME NEW v \in ProcessorWorkers, Take(v) PROVE TypeOK'
  <2>1. /\ Head(buf) \in Deliveries
        /\ Tail(buf) \in Seq(Deliveries) /\ Len(Tail(buf)) <= Capacity
    BY <1>2, ChannelTail DEF Take
  <2>2. buf' \in Seq(Deliveries) /\ Len(buf') <= Capacity /\ taken' \subseteq Deliveries
    BY <2>1, <1>2 DEF Take
  <2>3. /\ procPc' = [procPc EXCEPT ![v] = "transform"]
        /\ cur' = [cur EXCEPT ![v] = Head(buf)]
        /\ UNCHANGED <<ctxEnded, closed, handling, queue, procResult>>
    BY <1>2 DEF Take, Move
  <2> QED
    BY <2>1, <2>2, <2>3
<1>3. ASSUME NEW v \in ProcessorWorkers, Drained(v) PROVE TypeOK'
  BY <1>3 DEF Drained, Move
<1>4. ASSUME NEW v \in ProcessorWorkers, TransformSucceeds(v) PROVE TypeOK'
  BY <1>4 DEF TransformSucceeds, Move
<1>5. ASSUME NEW v \in ProcessorWorkers, TransformFails(v) PROVE TypeOK'
  BY <1>5 DEF TransformFails, Release, Move
<1>6. ASSUME NEW v \in ProcessorWorkers, HandleSucceeds(v) PROVE TypeOK'
  BY <1>6 DEF HandleSucceeds, Move
<1>7. ASSUME NEW v \in ProcessorWorkers, HandleFails(v) PROVE TypeOK'
  BY <1>7 DEF HandleFails, Move
<1>8. ASSUME NEW v \in ProcessorWorkers, AckSucceeds(v) PROVE TypeOK'
  BY <1>8 DEF AckSucceeds, Release, Move
<1>9. ASSUME NEW v \in ProcessorWorkers, AckFails(v) PROVE TypeOK'
  BY <1>9 DEF AckFails, Release, Move
<1>10. ASSUME NEW v \in ProcessorWorkers, RejectSucceeds(v) PROVE TypeOK'
  BY <1>10 DEF RejectSucceeds, Release, Move, Rejected
<1>11. ASSUME NEW v \in ProcessorWorkers, RejectFails(v) PROVE TypeOK'
  BY <1>11 DEF RejectFails, Release, Move
<1>12. CASE ProcessReturns
  BY <1>12 DEF ProcessReturns
<1>13. ASSUME NEW d \in Deliveries, Feed(d) PROVE TypeOK'
  <2>1. buf' \in Seq(Deliveries) /\ Len(buf') <= Capacity
    BY <1>13, ChannelAppend DEF Feed
  <2> QED
    BY <2>1, <1>13 DEF Feed, processorVars
<1>14. CASE CloseChannel
  BY <1>14 DEF CloseChannel, processorVars
<1>15. CASE ContextEnds
  BY <1>15 DEF ContextEnds, processorVars, channel
<1>16. CASE UNCHANGED vars
  BY <1>16 DEF vars, processorVars, channel
<1> QED
  BY <1>1, <1>2, <1>3, <1>4, <1>5, <1>6, <1>7, <1>8, <1>9, <1>10, <1>11, <1>12, <1>13,
     <1>14, <1>15, <1>16
  DEF Next, Worker, Terminated

LEMMA HoldingStep ==
  ASSUME TypeOK, ChannelIsFresh, HeldByOne, ReasonsToLeave, [Next]_vars
  PROVE  ChannelIsFresh' /\ HeldByOne' /\ ReasonsToLeave'
<1> DEFINE Goal == ChannelIsFresh /\ HeldByOne /\ ReasonsToLeave
<1> USE ProcessorAssumption
    DEF ProcessorAssumption, TypeOK, Deliveries, channel, ChannelIsFresh, HeldByOne,
        ReasonsToLeave
<1>1. ASSUME NEW v \in ProcessorWorkers, Stop(v) PROVE Goal'
  BY <1>1 DEF Stop, Move
<1>2. ASSUME NEW v \in ProcessorWorkers, Take(v) PROVE Goal'
  <2>1. /\ Head(buf) \in Range(buf)
        /\ Range(Tail(buf)) = Range(buf) \ {Head(buf)}
        /\ IsInjective(Tail(buf))
    BY <1>2, RangeOfTail DEF Take
  <2>2. ChannelIsFresh'
    BY <2>1, <1>2 DEF Take
  <2>3. Head(buf) \notin taken
    BY <2>1
  <2>4. HeldByOne'
    BY <2>3, <1>2 DEF Take, Move
  <2>5. ReasonsToLeave'
    BY <1>2 DEF Take, Move
  <2> QED
    BY <2>2, <2>4, <2>5
<1>3. ASSUME NEW v \in ProcessorWorkers, Drained(v) PROVE Goal'
  BY <1>3 DEF Drained, Move
<1>4. ASSUME NEW v \in ProcessorWorkers, TransformSucceeds(v) PROVE Goal'
  BY <1>4 DEF TransformSucceeds, Move
<1>5. ASSUME NEW v \in ProcessorWorkers, TransformFails(v) PROVE Goal'
  BY <1>5 DEF TransformFails, Release, Move
<1>6. ASSUME NEW v \in ProcessorWorkers, HandleSucceeds(v) PROVE Goal'
  BY <1>6 DEF HandleSucceeds, Move
<1>7. ASSUME NEW v \in ProcessorWorkers, HandleFails(v) PROVE Goal'
  BY <1>7 DEF HandleFails, Move
<1>8. ASSUME NEW v \in ProcessorWorkers, AckSucceeds(v) PROVE Goal'
  BY <1>8 DEF AckSucceeds, Release, Move
<1>9. ASSUME NEW v \in ProcessorWorkers, AckFails(v) PROVE Goal'
  BY <1>9 DEF AckFails, Release, Move
<1>10. ASSUME NEW v \in ProcessorWorkers, RejectSucceeds(v) PROVE Goal'
  BY <1>10 DEF RejectSucceeds, Release, Move, Rejected
<1>11. ASSUME NEW v \in ProcessorWorkers, RejectFails(v) PROVE Goal'
  BY <1>11 DEF RejectFails, Release, Move
<1>12. CASE ProcessReturns
  BY <1>12 DEF ProcessReturns
<1>13. ASSUME NEW d \in Deliveries, Feed(d) PROVE Goal'
  <2>1. /\ Range(Append(buf, d)) = Range(buf) \cup {d}
        /\ IsInjective(Append(buf, d))
    BY <1>13, RangeOfAppend DEF Feed
  <2>2. ChannelIsFresh'
    BY <2>1, <1>13 DEF Feed, processorVars
  <2>3. HeldByOne' /\ ReasonsToLeave'
    BY <1>13 DEF Feed, processorVars
  <2> QED
    BY <2>2, <2>3
<1>14. CASE CloseChannel
  BY <1>14 DEF CloseChannel, processorVars
<1>15. CASE ContextEnds
  BY <1>15 DEF ContextEnds, processorVars, channel
<1>16. CASE UNCHANGED vars
  BY <1>16 DEF vars, processorVars, channel
<1> QED
  BY <1>1, <1>2, <1>3, <1>4, <1>5, <1>6, <1>7, <1>8, <1>9, <1>10, <1>11, <1>12, <1>13,
     <1>14, <1>15, <1>16
  DEF Next, Worker, Terminated

LEMMA OutcomeStep ==
  ASSUME SafetyInv, [Next]_vars
  PROVE  StageMatches' /\ SettledAsHandled' /\ NoneAbandoned'
<1> DEFINE Goal == StageMatches /\ SettledAsHandled /\ NoneAbandoned
<1> USE ProcessorAssumption
    DEF ProcessorAssumption, SafetyInv, TypeOK, Deliveries, channel, HeldByOne, StageMatches,
        SettledAsHandled, NoneAbandoned, Finished
<1>1. ASSUME NEW v \in ProcessorWorkers, Stop(v) PROVE Goal'
  BY <1>1 DEF Stop, Move
<1>2. ASSUME NEW v \in ProcessorWorkers, Take(v) PROVE Goal'
  <2>1. Head(buf) \in Deliveries /\ Head(buf) \notin taken
    BY <1>2, RangeOfTail, ChannelTail DEF Take, ChannelIsFresh
  <2> QED
    BY <2>1, <1>2 DEF Take, Move
<1>3. ASSUME NEW v \in ProcessorWorkers, Drained(v) PROVE Goal'
  BY <1>3 DEF Drained, Move
<1>4. ASSUME NEW v \in ProcessorWorkers, TransformSucceeds(v) PROVE Goal'
  BY <1>4 DEF TransformSucceeds, Move
<1>5. ASSUME NEW v \in ProcessorWorkers, TransformFails(v) PROVE Goal'
  BY <1>5 DEF TransformFails, Release, Move
<1>6. ASSUME NEW v \in ProcessorWorkers, HandleSucceeds(v) PROVE Goal'
  BY <1>6 DEF HandleSucceeds, Move
<1>7. ASSUME NEW v \in ProcessorWorkers, HandleFails(v) PROVE Goal'
  BY <1>7 DEF HandleFails, Move
<1>8. ASSUME NEW v \in ProcessorWorkers, AckSucceeds(v) PROVE Goal'
  BY <1>8 DEF AckSucceeds, Release, Move
<1>9. ASSUME NEW v \in ProcessorWorkers, AckFails(v) PROVE Goal'
  BY <1>9 DEF AckFails, Release, Move
<1>10. ASSUME NEW v \in ProcessorWorkers, RejectSucceeds(v) PROVE Goal'
  BY <1>10 DEF RejectSucceeds, Release, Move, Rejected
<1>11. ASSUME NEW v \in ProcessorWorkers, RejectFails(v) PROVE Goal'
  BY <1>11 DEF RejectFails, Release, Move
<1>12. CASE ProcessReturns
  BY <1>12 DEF ProcessReturns
<1>13. ASSUME NEW d \in Deliveries, Feed(d) PROVE Goal'
  BY <1>13 DEF Feed, processorVars
<1>14. CASE CloseChannel
  BY <1>14 DEF CloseChannel, processorVars
<1>15. CASE ContextEnds
  BY <1>15 DEF ContextEnds, processorVars, channel
<1>16. CASE UNCHANGED vars
  BY <1>16 DEF vars, processorVars, channel
<1> QED
  BY <1>1, <1>2, <1>3, <1>4, <1>5, <1>6, <1>7, <1>8, <1>9, <1>10, <1>11, <1>12, <1>13,
     <1>14, <1>15, <1>16
  DEF Next, Worker, Terminated

LEMMA SafetyInvariant == Spec => []SafetyInv
<1>1. SafetyInv /\ [Next]_vars => SafetyInv'
  BY TypeStep, HoldingStep, OutcomeStep DEF SafetyInv
<1> QED
  BY InitSafety, <1>1, PTL DEF Spec

(* The variables keep their types and the channel its bound; a worker has  *)
(* a delivery exactly while it processes one.                              *)
THEOREM TypeCorrect == Spec => []TypeOK
<1>1. SafetyInv => TypeOK
  BY DEF SafetyInv
<1> QED
  BY SafetyInvariant, <1>1, PTL

(* Only what was handled successfully is deleted, only what failed is made *)
(* visible again.                                                          *)
THEOREM Settlement == Spec => []SettledAsHandled
<1>1. SafetyInv => SettledAsHandled
  BY DEF SafetyInv
<1> QED
  BY SafetyInvariant, <1>1, PTL

(* A delivery that left the channel reached its handler or could not be    *)
(* transformed, whenever the context ended.                                *)
THEOREM NothingAbandoned == Spec => []NoneAbandoned
<1>1. SafetyInv => NoneAbandoned
  BY DEF SafetyInv
<1> QED
  BY SafetyInvariant, <1>1, PTL

(* Process answers nil under a live context only with the channel closed   *)
(* and drained and no worker holding a message.                            *)
THEOREM Drain == Spec => []NilMeansDrained
<1>1. SafetyInv => NilMeansDrained
  BY DEF SafetyInv, ReasonsToLeave, TypeOK, NilMeansDrained, Finished, Deliveries
<1> QED
  BY SafetyInvariant, <1>1, PTL

(* No delivery is handled twice.                                           *)
THEOREM HandledOnce == Spec => HandledAtMostOnce
<1>1. SafetyInv => \A v \in ProcessorWorkers :
        HandleSucceeds(v) \/ HandleFails(v) => handling[cur[v]] = "none"
  BY DEF SafetyInv, StageMatches, HandleSucceeds, HandleFails, Move
<1> QED
  BY SafetyInvariant, <1>1, PTL DEF HandledAtMostOnce
=============================================================================
