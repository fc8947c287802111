---------------------------- MODULE PollerProofs ----------------------------
(* Theorems about Poller, for every pool, threshold, batch size, capacity  *)
(* and bound.                                                              *)
EXTENDS Poller, DataLemmas, TLAPS

(* What a worker's place says about its batch.                             *)
BatchWhileSending ==
  \A w \in PollerWorkers : batch[w] # <<>> <=> pollerPc[w] = "sending"

(* Poll has returned only after all its workers.                           *)
AllDoneWhenClosed ==
  closed => \A w \in PollerWorkers : pollerPc[w] = "done"

(* Why a worker has left: the caller's context, or an error in errCh,      *)
(* whose worker was at the threshold; cancel() has been called for that    *)
(* reason only, until Poll returns.                                        *)
ReasonsToLeave ==
  /\ \A w \in errCh : pollerPc[w] = "done" /\ ThresholdReached(retryCount[w])
  /\ canceled => errCh # {} \/ closed
  /\ \A w \in PollerWorkers : pollerPc[w] = "done" => parentCtx # {} \/ errCh # {}

SafetyInv ==
  /\ TypeOK
  /\ BatchWhileSending
  /\ AllDoneWhenClosed
  /\ ReasonsToLeave
  /\ ResultIsJustified

-----------------------------------------------------------------------------
LEMMA InitSafety == Init => SafetyInv
<1> SUFFICES ASSUME Init PROVE SafetyInv
  OBVIOUS
<1> USE PollerAssumption DEF Init
<1>1. TypeOK
  <2>1. <<>> \in Seq(Deliveries) /\ Len(<<>>) = 0
    BY EmptySeq
  <2>2. batch \in [PollerWorkers -> Seq(Deliveries)]
    BY <2>1
  <2>3. buf \in Seq(Deliveries) /\ Len(buf) <= Capacity
    BY <2>1
  <2>4. /\ parentCtx \subseteq Causes /\ errCh \subseteq PollerWorkers
        /\ taken \subseteq Deliveries /\ canceled \in BOOLEAN
        /\ pollResult \in {"running", "nil", "error"}
    OBVIOUS
  <2>5. /\ issued \in 0..MaxDeliveries
        /\ retryCount \in [PollerWorkers -> Nat]
        /\ pollerPc \in [PollerWorkers -> {"check", "receiving", "backoff", "sending", "done"}]
    OBVIOUS
  <2> QED
    BY <2>2, <2>3, <2>4, <2>5 DEF TypeOK
<1>2. BatchWhileSending
  BY DEF BatchWhileSending
<1>3. AllDoneWhenClosed /\ ReasonsToLeave /\ ResultIsJustified
  BY DEF AllDoneWhenClosed, ReasonsToLeave, ResultIsJustified, closed
<1> QED
  BY <1>1, <1>2, <1>3 DEF SafetyInv

LEMMA TypeStep ==
  ASSUME TypeOK, BatchWhileSending, [Next]_vars
  PROVE  TypeOK'
<1> USE PollerAssumption DEF TypeOK, Deliveries, Causes, Move
<1>1. ASSUME NEW w \in PollerWorkers, CheckContext(w) PROVE TypeOK'
  BY <1>1 DEF CheckContext
<1>2. ASSUME NEW w \in PollerWorkers, NEW n \in 0..MaxNumberOfMessages, ReceiveSucceeds(w, n)
      PROVE  TypeOK'
  <2>1. [i \in 1..n |-> issued + i] \in Seq(Deliveries)
    BY <1>2 DEF ReceiveSucceeds
  <2>2. batch' \in [PollerWorkers -> Seq(Deliveries)]
    BY <2>1, <1>2 DEF ReceiveSucceeds
  <2> QED
    BY <2>2, <1>2 DEF ReceiveSucceeds
<1>3. ASSUME NEW w \in PollerWorkers, ReceiveCanceled(w) PROVE TypeOK'
  BY <1>3 DEF ReceiveCanceled
<1>4. ASSUME NEW w \in PollerWorkers, ReceiveFails(w) PROVE TypeOK'
  BY <1>4 DEF ReceiveFails
<1>5. ASSUME NEW w \in PollerWorkers, GiveUp(w) PROVE TypeOK'
  BY <1>5 DEF GiveUp
<1>6. ASSUME NEW w \in PollerWorkers, WakeUp(w) PROVE TypeOK'
  BY <1>6 DEF WakeUp
<1>7. ASSUME NEW w \in PollerWorkers, Send(w) PROVE TypeOK'
  <2>1. batch[w] \in Seq(Deliveries) /\ batch[w] # <<>>
    BY <1>7 DEF Send, BatchWhileSending
  <2>2. Head(batch[w]) \in Deliveries /\ Tail(batch[w]) \in Seq(Deliveries)
    BY <2>1
  <2>3. buf' \in Seq(Deliveries) /\ Len(buf') <= Capacity
    BY <2>2, <1>7 DEF Send
  <2>4. batch' \in [PollerWorkers -> Seq(Deliveries)]
    BY <2>2, <1>7 DEF Send
  <2> QED
    BY <2>3, <2>4, <1>7 DEF Send
<1>8. CASE PollReturns
  BY <1>8 DEF PollReturns
<1>9. CASE Receive
  <2>1. /\ Head(buf) \in Deliveries
        /\ Tail(buf) \in Seq(Deliveries)
        /\ Len(Tail(buf)) = Len(buf) - 1
    BY <1>9, HeadTailProperties DEF Receive
  <2>2. Len(buf) \in Nat
    BY LenProperties
  <2>3. buf' \in Seq(Deliveries) /\ Len(buf') <= Capacity
    BY <2>1, <2>2, <1>9 DEF Receive
  <2>4. taken' \subseteq Deliveries
    BY <2>1, <1>9 DEF Receive
  <2> QED
    BY <2>3, <2>4, <1>9 DEF Receive, pollerVars
<1>10. ASSUME NEW cause \in Causes, ParentEnds(cause) PROVE TypeOK'
  BY <1>10 DEF ParentEnds, pollerVars
<1>11. CASE UNCHANGED vars
  BY <1>11 DEF vars, pollerVars
<1> QED
  BY <1>1, <1>2, <1>3, <1>4, <1>5, <1>6, <1>7, <1>8, <1>9, <1>10, <1>11
  DEF Next, Worker, Terminated

LEMMA BatchStep ==
  ASSUME TypeOK, BatchWhileSending, [Next]_vars
  PROVE  BatchWhileSending'
<1> USE PollerAssumption DEF TypeOK, BatchWhileSending, Move
<1>1. ASSUME NEW w \in PollerWorkers, CheckContext(w) PROVE BatchWhileSending'
  BY <1>1 DEF CheckContext
<1>2. ASSUME NEW w \in PollerWorkers, NEW n \in 0..MaxNumberOfMessages, ReceiveSucceeds(w, n)
      PROVE  BatchWhileSending'
  <2> DEFINE new == [i \in 1..n |-> issued + i]
  <2>1. new \in Seq(Nat) /\ Len(new) = n
    OBVIOUS
  <2>2. new = <<>> <=> n = 0
    BY <2>1, EmptyHasNoLength
  <2> HIDE DEF new
  <2> QED
    BY <2>2, <1>2 DEF ReceiveSucceeds, new
<1>3. ASSUME NEW w \in PollerWorkers, ReceiveCanceled(w) PROVE BatchWhileSending'
  BY <1>3 DEF ReceiveCanceled
<1>4. ASSUME NEW w \in PollerWorkers, ReceiveFails(w) PROVE BatchWhileSending'
  BY <1>4 DEF ReceiveFails
<1>5. ASSUME NEW w \in PollerWorkers, GiveUp(w) PROVE BatchWhileSending'
  BY <1>5 DEF GiveUp
<1>6. ASSUME NEW w \in PollerWorkers, WakeUp(w) PROVE BatchWhileSending'
  BY <1>6 DEF WakeUp
<1>7. ASSUME NEW w \in PollerWorkers, Send(w) PROVE BatchWhileSending'
  <2>1. batch[w] \in Seq(Deliveries) /\ batch[w] # <<>>
    BY <1>7 DEF Send
  <2>2. Tail(batch[w]) \in Seq(Deliveries) /\ Len(Tail(batch[w])) = Len(batch[w]) - 1
    BY <2>1, HeadTailProperties
  <2>3. Len(batch[w]) \in Nat
    BY <2>1, LenProperties
  <2>4. Tail(batch[w]) = <<>> <=> Len(Tail(batch[w])) = 0
    BY <2>2, EmptyHasNoLength, Zenon
  <2>5. Tail(batch[w]) = <<>> <=> Len(batch[w]) = 1
    BY <2>2, <2>3, <2>4
  <2> QED
    BY <2>1, <2>5, <1>7 DEF Send
<1>8. CASE UNCHANGED <<pollerPc, batch>>
  BY <1>8
<1> QED
  BY <1>1, <1>2, <1>3, <1>4, <1>5, <1>6, <1>7, <1>8
  DEF Next, Worker, PollReturns, Receive, ParentEnds, Terminated, pollerVars, vars

LEMMA ReasonsStep ==
  ASSUME SafetyInv, [Next]_vars
  PROVE  AllDoneWhenClosed' /\ ReasonsToLeave' /\ ResultIsJustified'
<1> USE PollerAssumption
    DEF SafetyInv, TypeOK, AllDoneWhenClosed, ReasonsToLeave, ResultIsJustified,
        ThresholdReached, Move, closed
<1> DEFINE Goal == AllDoneWhenClosed /\ ReasonsToLeave /\ ResultIsJustified
<1>1. ASSUME NEW w \in PollerWorkers, CheckContext(w) PROVE Goal'
  BY <1>1 DEF CheckContext, ctxEnded, ctxCauses
<1>2. ASSUME NEW w \in PollerWorkers, NEW n \in 0..MaxNumberOfMessages, ReceiveSucceeds(w, n)
      PROVE  Goal'
  BY <1>2 DEF ReceiveSucceeds
<1>3. ASSUME NEW w \in PollerWorkers, ReceiveCanceled(w) PROVE Goal'
  BY <1>3 DEF ReceiveCanceled, ctxCauses
<1>4. ASSUME NEW w \in PollerWorkers, ReceiveFails(w) PROVE Goal'
  BY <1>4 DEF ReceiveFails
<1>5. ASSUME NEW w \in PollerWorkers, GiveUp(w) PROVE Goal'
  BY <1>5 DEF GiveUp
<1>6. ASSUME NEW w \in PollerWorkers, WakeUp(w) PROVE Goal'
  BY <1>6 DEF WakeUp
<1>7. ASSUME NEW w \in PollerWorkers, Send(w) PROVE Goal'
  BY <1>7 DEF Send
<1>8. CASE PollReturns
  BY <1>8 DEF PollReturns
<1>9. CASE Receive
  BY <1>9 DEF Receive, pollerVars
<1>10. ASSUME NEW cause \in Causes, ParentEnds(cause) PROVE Goal'
  BY <1>10 DEF ParentEnds, pollerVars
<1>11. CASE UNCHANGED vars
  BY <1>11 DEF vars, pollerVars
<1> QED
  BY <1>1, <1>2, <1>3, <1>4, <1>5, <1>6, <1>7, <1>8, <1>9, <1>10, <1>11
  DEF Next, Worker, Terminated

LEMMA SafetyInvariant == Spec => []SafetyInv
<1>1. SafetyInv /\ [Next]_vars => SafetyInv'
  BY TypeStep, BatchStep, ReasonsStep DEF SafetyInv
<1> QED
  BY InitSafety, <1>1, PTL DEF Spec

(* The variables keep their types and the channel its bound.               *)
THEOREM TypeCorrect == Spec => []TypeOK
<1>1. SafetyInv => TypeOK
  BY DEF SafetyInv
<1> QED
  BY SafetyInvariant, <1>1, PTL

(* No worker is left to send when Poll closes the channel.                 *)
THEOREM SendBeforeClose == Spec => []NoSendAfterClose
<1>1. SafetyInv => NoSendAfterClose
  BY DEF SafetyInv, AllDoneWhenClosed, BatchWhileSending, NoSendAfterClose
<1> QED
  BY SafetyInvariant, <1>1, PTL

(* Poll's answer has its reason: nil the end of the caller's context, an   *)
(* error a worker that reached the threshold, or an empty pool.            *)
THEOREM ResultJustified == Spec => []ResultIsJustified
<1>1. SafetyInv => ResultIsJustified
  BY DEF SafetyInv
<1> QED
  BY SafetyInvariant, <1>1, PTL

-----------------------------------------------------------------------------
(* NothingLost, one delivery at a time.                                    *)
Somewhere(d) ==
  (\E w \in PollerWorkers : d \in Range(batch[w])) \/ d \in Range(buf) \/ d \in taken

LEMMA NothingLostByMember ==
  NothingLost <=> \A d : d \in 1..issued <=> Somewhere(d)
<1> DEFINE Held(w) == Range(batch[w])
           All == UNION {Held(w) : w \in PollerWorkers}
<1>1. NothingLost <=> 1..issued = All \cup Range(buf) \cup taken
  BY Zenon DEF NothingLost
<1>2. \A d : d \in All <=> \E w \in PollerWorkers : d \in Held(w)
  <2> HIDE DEF Held
  <2> QED
    BY Zenon
<1>3. \A d : Somewhere(d) <=> d \in All \/ d \in Range(buf) \/ d \in taken
  <2> HIDE DEF All
  <2> QED
    BY <1>2, Zenon DEF Somewhere
<1> HIDE DEF All
<1> QED
  BY <1>1, <1>3, Zenon

LEMMA NothingLostStep ==
  ASSUME SafetyInv, NothingLostOrDuplicated, [Next]_vars
  PROVE  NothingLostOrDuplicated'
<1> DEFINE Held(w) == Range(batch[w])
           Lost == \A d : d \in 1..issued <=> Somewhere(d)
<1>a. NothingLost => Lost
  BY NothingLostByMember
<1>b. NothingLost' <=> Lost'
  BY NothingLostByMember, PTL
<1>t. /\ issued \in Nat
      /\ batch \in [PollerWorkers -> Seq(Deliveries)]
      /\ buf \in Seq(Deliveries)
      /\ taken \subseteq Deliveries
  BY PollerAssumption DEF SafetyInv, TypeOK
<1>i. Lost /\ NothingDuplicated
  BY <1>a DEF NothingLostOrDuplicated
<1> USE DEF Somewhere
<1>1. ASSUME NEW w \in PollerWorkers, NEW n \in 0..MaxNumberOfMessages, ReceiveSucceeds(w, n)
      PROVE  Lost' /\ NothingDuplicated'
  <2> DEFINE new == [i \in 1..n |-> issued + i]
  <2>1. /\ Range(new) = (issued + 1)..(issued + n)
        /\ IsInjective(new)
    BY RangeOfNew, <1>t, PollerAssumption DEF PollerAssumption
  <2>2. batch[w] = <<>>
    BY <1>1 DEF ReceiveSucceeds, Move, SafetyInv, BatchWhileSending
  <2>3. Range(batch[w]) = {}
    BY <2>2 DEF Range
  <2>4. /\ issued' = issued + n
        /\ batch' = [batch EXCEPT ![w] = new]
        /\ buf' = buf /\ taken' = taken
    BY <1>1 DEF ReceiveSucceeds
  <2> HIDE DEF new
  <2>5. /\ batch'[w] = new
        /\ \A v \in PollerWorkers \ {w} : batch'[v] = batch[v]
    BY <1>t, <2>4
  <2>6. \A d : d \in 1..issued' <=> d \in 1..issued \/ d \in Range(new)
    BY <1>t, <2>1, <2>4, PollerAssumption DEF PollerAssumption
  <2>7. Lost'
    BY <1>i, <2>3, <2>4, <2>5, <2>6
  <2>8. \A d \in Range(new) : ~Somewhere(d)
    BY <1>i, <1>t, <2>1
  <2>9. NothingDuplicated'
    <3>1. /\ IsInjective(buf') /\ Range(buf') \cap taken' = {}
          /\ \A u \in PollerWorkers : IsInjective(batch'[u])
      BY <1>i, <2>1, <2>4, <2>5 DEF NothingDuplicated
    <3>2. \A u \in PollerWorkers : Range(batch'[u]) \cap (Range(buf') \cup taken') = {}
      BY <1>i, <2>4, <2>5, <2>8 DEF NothingDuplicated
    <3>3. \A u \in PollerWorkers : \A v \in PollerWorkers \ {u} :
            Range(batch'[u]) \cap Range(batch'[v]) = {}
      BY <1>i, <2>4, <2>5, <2>8 DEF NothingDuplicated
    <3> QED
      BY <3>1, <3>2, <3>3 DEF NothingDuplicated
  <2> QED
    BY <2>7, <2>9
<1>2. ASSUME NEW w \in PollerWorkers, Send(w) PROVE Lost' /\ NothingDuplicated'
  <2> DEFINE d0 == Head(batch[w])
  <2>1. batch[w] \in Seq(Deliveries) /\ batch[w] # <<>>
    BY <1>2, <1>t DEF Send, Move, SafetyInv, BatchWhileSending
  <2>2. IsInjective(batch[w]) /\ IsInjective(buf)
    BY <1>i DEF NothingDuplicated
  <2>3. /\ d0 \in Held(w)
        /\ Range(Tail(batch[w])) = Held(w) \ {d0}
        /\ IsInjective(Tail(batch[w]))
    BY <2>1, <2>2, RangeOfTail
  <2>4. d0 \in Deliveries /\ d0 \notin Range(buf) /\ d0 \notin taken
    BY <2>1, <2>3, <1>i, HeadTailProperties DEF NothingDuplicated
  <2>5. /\ Range(Append(buf, d0)) = Range(buf) \cup {d0}
        /\ IsInjective(Append(buf, d0))
    BY <1>t, <2>2, <2>4, RangeOfAppend
  <2>6. /\ issued' = issued /\ taken' = taken
        /\ buf' = Append(buf, d0)
        /\ batch' = [batch EXCEPT ![w] = Tail(batch[w])]
    BY <1>2 DEF Send
  <2> HIDE DEF d0
  <2>7. /\ batch'[w] = Tail(batch[w])
        /\ \A v \in PollerWorkers \ {w} : batch'[v] = batch[v]
    BY <1>t, <2>6
  <2>8. Lost'
    BY <1>i, <2>3, <2>5, <2>6, <2>7
  <2>9. NothingDuplicated'
    <3>1. /\ IsInjective(buf') /\ Range(buf') \cap taken' = {}
          /\ \A u \in PollerWorkers : IsInjective(batch'[u])
      BY <1>i, <2>3, <2>4, <2>5, <2>6, <2>7 DEF NothingDuplicated
    <3>2. \A u \in PollerWorkers \ {w} : d0 \notin Range(batch[u])
      BY <1>i, <2>3 DEF NothingDuplicated
    <3>3. \A u \in PollerWorkers : Range(batch'[u]) \cap (Range(buf') \cup taken') = {}
      BY <1>i, <2>3, <2>5, <2>6, <2>7, <3>2 DEF NothingDuplicated
    <3>4. \A u \in PollerWorkers : \A v \in PollerWorkers \ {u} :
            Range(batch'[u]) \cap Range(batch'[v]) = {}
      BY <1>i, <2>3, <2>7 DEF NothingDuplicated
    <3> QED
      BY <3>1, <3>3, <3>4 DEF NothingDuplicated
  <2> QED
    BY <2>8, <2>9
<1>3. ASSUME Receive PROVE Lost' /\ NothingDuplicated'
  <2>1. IsInjective(buf) /\ buf # <<>>
    BY <1>3, <1>i DEF NothingDuplicated, Receive
  <2>2. /\ Head(buf) \in Range(buf)
        /\ Range(Tail(buf)) = Range(buf) \ {Head(buf)}
        /\ IsInjective(Tail(buf))
    BY <1>t, <2>1, RangeOfTail
  <2>3. /\ issued' = issued /\ batch' = batch
        /\ buf' = Tail(buf) /\ taken' = taken \cup {Head(buf)}
    BY <1>3 DEF Receive, pollerVars
  <2>4. Lost'
    BY <1>i, <2>2, <2>3
  <2>5. NothingDuplicated'
    <3>1. IsInjective(buf') /\ Range(buf') \cap taken' = {}
      BY <1>i, <2>2, <2>3 DEF NothingDuplicated
    <3>2. \A u \in PollerWorkers : Range(batch'[u]) \cap (Range(buf') \cup taken') = {}
      BY <1>i, <2>2, <2>3 DEF NothingDuplicated
    <3>3. \A u \in PollerWorkers :
            /\ IsInjective(batch'[u])
            /\ \A v \in PollerWorkers \ {u} : Range(batch'[u]) \cap Range(batch'[v]) = {}
      BY <1>i, <2>3 DEF NothingDuplicated
    <3> QED
      BY <3>1, <3>2, <3>3 DEF NothingDuplicated
  <2> QED
    BY <2>4, <2>5
<1>4. ASSUME UNCHANGED <<issued, batch, buf, taken>> PROVE Lost' /\ NothingDuplicated'
  BY <1>4, <1>i DEF NothingDuplicated
<1>5. Lost' /\ NothingDuplicated'
  <2> HIDE DEF Lost
  <2> QED
    BY <1>1, <1>2, <1>3, <1>4
    DEF Next, Worker, CheckContext, ReceiveCanceled, ReceiveFails, GiveUp, WakeUp, PollReturns,
        ParentEnds, Terminated, pollerVars, vars
<1> QED
  BY <1>b, <1>5 DEF NothingLostOrDuplicated

LEMMA InitNothingLost == Init => NothingLostOrDuplicated
BY PollerAssumption
DEF Init, NothingLostOrDuplicated, NothingLost, NothingDuplicated, Range, IsInjective

(* Every message received is in exactly one batch slot, channel slot or on *)
(* the receiving side: none is lost and none forwarded twice.              *)
THEOREM Forwarding == Spec => []NothingLostOrDuplicated
<1>1. SafetyInv /\ NothingLostOrDuplicated /\ [Next]_vars => NothingLostOrDuplicated'
  BY NothingLostStep
<1> QED
  BY SafetyInvariant, InitNothingLost, <1>1, PTL DEF Spec
=============================================================================
