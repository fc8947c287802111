-------------------------- MODULE RedeliveryProofs --------------------------
(***************************************************************************)
(* Theorems about Redelivery: whatever the stack of middlewares, the       *)
(* strategy, the number of workers and messages, and however often the     *)
(* program crashes and is started again.                                   *)
(***************************************************************************)
EXTENDS Redelivery, DataLemmas

RP == INSTANCE ProcessorProofs

Results == {"ok", "error", "panic"}

-----------------------------------------------------------------------------
(* Middlewares.  A recursive function is defined by a CHOOSE: the function *)
(* that takes a result through a list exists, by induction on the stages.  *)
LEMMA ThroughByStage ==
  ASSUME NEW list, Len(list) \in Nat, NEW result
  PROVE  \E up :
           /\ up = [i \in 0..Len(list) |->
                     IF i = 0 THEN result ELSE Pass(list[Len(list) + 1 - i], up[i - 1])]
           /\ Through(list, result) = up[Len(list)]
<1> DEFINE N == Len(list)
           Next1(i, r) == Pass(list[N + 1 - i], r)
           Stages(up, n) ==
             up = [i \in 0..n |-> IF i = 0 THEN result ELSE Next1(i, up[i - 1])]
           S == {n \in Nat : \E up : Stages(up, n)}
<1> HIDE DEF Next1
<1>1. 0 \in S
  <2>1. Stages([i \in 0..0 |-> result], 0)
    OBVIOUS
  <2> QED
    BY <2>1
<1>2. ASSUME NEW n \in Nat, n \in S PROVE n + 1 \in S
  <2>1. PICK up : Stages(up, n)
    BY <1>2
  <2>2. DEFINE more == [i \in 0..(n + 1) |-> IF i <= n THEN up[i] ELSE Next1(n + 1, up[n])]
  <2>3. \A i \in 0..(n + 1) : more[i] = IF i = 0 THEN result ELSE Next1(i, more[i - 1])
    <3>1. ASSUME NEW i \in 0..(n + 1) PROVE more[i] = IF i = 0 THEN result ELSE Next1(i, more[i - 1])
      <4>1. CASE i = n + 1
        BY <4>1
      <4>2. CASE i # n + 1
        <5>1. i \in 0..n /\ more[i] = up[i] /\ (i # 0 => i - 1 \in 0..n /\ more[i - 1] = up[i - 1])
          BY <4>2
        <5> QED
          BY <5>1, <2>1
      <4> QED
        BY <4>1, <4>2
    <3> QED
      BY <3>1
  <2>4. Stages(more, n + 1)
    BY <2>3
  <2> HIDE DEF more
  <2>5. (\E g : Stages(g, n + 1)) /\ n + 1 \in Nat
    BY <2>4
  <2> QED
    BY <2>5
<1>3. \E up : Stages(up, N)
  <2>1. Nat \subseteq S
    <3> HIDE DEF S
    <3> QED
      BY <1>1, <1>2, Induction
  <2> QED
    BY <2>1
<1>4. Through(list, result) = (CHOOSE up : Stages(up, N))[N]
  BY DEF Through, Next1
<1> HIDE DEF N
<1>5. Stages(CHOOSE up : Stages(up, N), N)
  BY <1>3
<1> QED
  BY <1>4, <1>5 DEF N, Next1

LEMMA ThroughKeeps ==
  ASSUME NEW list, Len(list) \in Nat, NEW result,
         NEW H, result \in H[0],
         \A i \in 1..Len(list) : \A r \in H[i - 1] : Pass(list[Len(list) + 1 - i], r) \in H[i]
  PROVE  Through(list, result) \in H[Len(list)]
<1> DEFINE N == Len(list)
<1>1. PICK up : /\ up = [i \in 0..N |-> IF i = 0 THEN result ELSE Pass(list[N + 1 - i], up[i - 1])]
                /\ Through(list, result) = up[N]
  BY ThroughByStage
<1> DEFINE S == {n \in Nat : n <= N => up[n] \in H[n]}
<1>2. 0 \in S
  BY <1>1
<1>3. ASSUME NEW n \in Nat, n \in S PROVE n + 1 \in S
  <2> SUFFICES ASSUME n + 1 <= N PROVE up[n + 1] \in H[n + 1]
    OBVIOUS
  <2>1. up[n + 1] = Pass(list[N + 1 - (n + 1)], up[n])
    BY <1>1
  <2>2. up[n] \in H[n] /\ n + 1 \in 1..N /\ (n + 1) - 1 = n
    BY <1>3
  <2> QED
    BY <2>1, <2>2
<1>4. Nat \subseteq S
  <2> HIDE DEF S
  <2> QED
    BY <1>2, <1>3, Induction
<1>5. up[N] \in H[N]
  BY <1>4
<1> QED
  BY <1>1, <1>5

LEMMA PassResult ==
  ASSUME NEW mw \in Middlewares, NEW r \in Results
  PROVE  /\ Pass(mw, r) \in Results
         /\ mw # "ignoreErrors" /\ r # "ok" => Pass(mw, r) # "ok"
         /\ mw \notin {"timeTracking", "replacing"} /\ r = "ok" => Pass(mw, r) = "ok"
         /\ mw = "panicRecover" \/ r # "panic" => Pass(mw, r) # "panic"
BY DEF Pass, IgnoreErrors, PanicRecover, MiddlewareAdapter, TimeTracking, Middlewares, Results

LEMMA ListElements ==
  ASSUME NEW list \in Seq(Middlewares)
  PROVE  /\ Len(list) \in Nat /\ DOMAIN list = 1..Len(list)
         /\ \A i \in 1..Len(list) : list[Len(list) + 1 - i] \in Middlewares
<1>1. Len(list) \in Nat /\ DOMAIN list = 1..Len(list)
  BY LenProperties
<1>2. \A j \in 1..Len(list) : list[j] \in Middlewares
  BY ElementOfSeq
<1>3. ASSUME NEW i \in 1..Len(list) PROVE list[Len(list) + 1 - i] \in Middlewares
  <2>1. Len(list) + 1 - i \in 1..Len(list)
    BY <1>1
  <2> QED
    BY <2>1, <1>2
<1> QED
  BY <1>1, <1>3

(* A failure stays one without IgnoreErrors in the list.                   *)
LEMMA FailureStays ==
  ASSUME NEW list \in Seq(Middlewares), ~Has("ignoreErrors", list), NEW r \in {"error", "panic"}
  PROVE  Through(list, r) \in {"error", "panic"}
<1> DEFINE N == Len(list)
           H == [i \in 0..N |-> {"error", "panic"}]
<1>1. N \in Nat /\ DOMAIN list = 1..N
  BY ListElements
<1>2. r \in H[0]
  BY <1>1
<1>3. ASSUME NEW i \in 1..N, NEW x \in H[i - 1] PROVE Pass(list[N + 1 - i], x) \in H[i]
  <2>1. list[N + 1 - i] \in Middlewares /\ N + 1 - i \in DOMAIN list
    BY ListElements, <1>1
  <2>2. x \in {"error", "panic"} /\ H[i] = {"error", "panic"}
    BY <1>1
  <2>3. list[N + 1 - i] # "ignoreErrors"
    BY <2>1 DEF Has
  <2> QED
    BY <2>1, <2>2, <2>3, PassResult DEF Results
<1>4. Through(list, r) \in H[N]
  <2> HIDE DEF H
  <2> QED
    BY <1>1, <1>2, <1>3, ThroughKeeps
<1> QED
  BY <1>1, <1>4

(* A success stays one without timeTracking and what is no T.              *)
LEMMA SuccessStays ==
  ASSUME NEW list \in Seq(Middlewares), ~Has("timeTracking", list), ~Has("replacing", list)
  PROVE  Through(list, "ok") = "ok"
<1> DEFINE N == Len(list)
           H == [i \in 0..N |-> {"ok"}]
<1>1. N \in Nat /\ DOMAIN list = 1..N
  BY ListElements
<1>2. "ok" \in H[0]
  BY <1>1
<1>3. ASSUME NEW i \in 1..N, NEW x \in H[i - 1] PROVE Pass(list[N + 1 - i], x) \in H[i]
  <2>1. list[N + 1 - i] \in Middlewares /\ N + 1 - i \in DOMAIN list
    BY ListElements, <1>1
  <2>2. x = "ok" /\ H[i] = {"ok"}
    BY <1>1
  <2>3. list[N + 1 - i] \notin {"timeTracking", "replacing"}
    BY <2>1 DEF Has
  <2> QED
    BY <2>1, <2>2, <2>3, PassResult DEF Results
<1>4. Through(list, "ok") \in H[N]
  <2> HIDE DEF H
  <2> QED
    BY <1>1, <1>2, <1>3, ThroughKeeps
<1> QED
  BY <1>1, <1>4

(* A result stays a result, and PanicRecover leaves no panic.              *)
LEMMA ResultStays ==
  ASSUME NEW list \in Seq(Middlewares), NEW r \in Results
  PROVE  /\ Through(list, r) \in Results
         /\ Has("panicRecover", list) => Through(list, r) # "panic"
<1> DEFINE N == Len(list)
<1>1. N \in Nat /\ DOMAIN list = 1..N
  BY ListElements
<1>2. Through(list, r) \in Results
  <2> DEFINE H == [i \in 0..N |-> Results]
  <2>1. r \in H[0]
    BY <1>1
  <2>2. ASSUME NEW i \in 1..N, NEW x \in H[i - 1] PROVE Pass(list[N + 1 - i], x) \in H[i]
    BY <1>1, ListElements, PassResult
  <2>3. Through(list, r) \in H[N]
    <3> HIDE DEF H
    <3> QED
      BY <1>1, <2>1, <2>2, ThroughKeeps
  <2> QED
    BY <1>1, <2>3
<1>3. ASSUME Has("panicRecover", list) PROVE Through(list, r) # "panic"
  <2>1. PICK k \in 1..N : list[k] = "panicRecover"
    BY <1>1, <1>3 DEF Has
  <2> DEFINE H == [i \in 0..N |-> IF i < N + 1 - k THEN Results ELSE {"ok", "error"}]
  <2>2. r \in H[0]
    BY <1>1
  <2>3. ASSUME NEW i \in 1..N, NEW x \in H[i - 1] PROVE Pass(list[N + 1 - i], x) \in H[i]
    <3>1. list[N + 1 - i] \in Middlewares /\ x \in Results
      BY <1>1, ListElements DEF Results
    <3>2. Pass(list[N + 1 - i], x) \in Results
      BY <3>1, PassResult
    <3>3. CASE i < N + 1 - k
      BY <3>2, <3>3, <1>1
    <3>4. CASE i = N + 1 - k
      <4>1. list[N + 1 - i] = "panicRecover"
        BY <3>4, <2>1, <1>1
      <4>2. Pass(list[N + 1 - i], x) # "panic"
        BY <3>1, <4>1, PassResult
      <4> QED
        BY <3>2, <3>4, <4>2, <1>1 DEF Results
    <3>5. CASE i > N + 1 - k
      <4>1. x # "panic"
        BY <3>5, <1>1
      <4>2. Pass(list[N + 1 - i], x) # "panic"
        BY <3>1, <4>1, PassResult
      <4> QED
        BY <3>2, <3>5, <4>2, <1>1 DEF Results
    <3> QED
      BY <3>3, <3>4, <3>5, <1>1
  <2>4. Through(list, r) \in H[N]
    <3> HIDE DEF H
    <3> QED
      BY <1>1, <2>2, <2>3, ThroughKeeps
  <2> QED
    BY <1>1, <2>4
<1> QED
  BY <1>2, <1>3

LEMMA HasInEither ==
  ASSUME NEW a \in Seq(Middlewares), NEW b \in Seq(Middlewares), NEW mw
  PROVE  /\ a \o b \in Seq(Middlewares)
         /\ Has(mw, a \o b) <=> Has(mw, a) \/ Has(mw, b)
<1>1. /\ a \o b \in Seq(Middlewares)
      /\ Len(a \o b) = Len(a) + Len(b)
      /\ \A i \in 1..(Len(a) + Len(b)) : (a \o b)[i] = IF i <= Len(a) THEN a[i] ELSE b[i - Len(a)]
  BY ConcatProperties
<1>2. /\ Len(a) \in Nat /\ DOMAIN a = 1..Len(a)
      /\ Len(b) \in Nat /\ DOMAIN b = 1..Len(b)
      /\ DOMAIN (a \o b) = 1..(Len(a) + Len(b))
  BY <1>1, LenProperties
<1>3. ASSUME NEW i \in 1..Len(a) PROVE (a \o b)[i] = a[i] /\ i \in DOMAIN (a \o b)
  BY <1>1, <1>2
<1>4. ASSUME NEW i \in 1..Len(b) PROVE (a \o b)[Len(a) + i] = b[i] /\ Len(a) + i \in DOMAIN (a \o b)
  <2>1. Len(a) + i \in 1..(Len(a) + Len(b)) /\ ~(Len(a) + i <= Len(a)) /\ (Len(a) + i) - Len(a) = i
    BY <1>2
  <2> QED
    BY <2>1, <1>1, <1>2
<1>5. ASSUME NEW i \in DOMAIN (a \o b)
      PROVE  \/ i \in DOMAIN a /\ (a \o b)[i] = a[i]
             \/ i - Len(a) \in DOMAIN b /\ (a \o b)[i] = b[i - Len(a)]
  BY <1>1, <1>2
<1> QED
  BY <1>1, <1>2, <1>3, <1>4, <1>5 DEF Has

-----------------------------------------------------------------------------
(* The invariant *)

(* Deliveries are issued in order, and the program knows only issued ones. *)
IssuedInOrder ==
  /\ \A d \in Deliveries : messageOf[d] # NoMessage <=> d <= issued
  /\ Range(buf) \cup taken \subseteq 1..issued
  /\ \A d \in Deliveries : d > issued => handler[d] = "none" /\ asked[d] = -1

(* The outcome of a handler is there when it ends, and for good; behind an *)
(* adapter that is given no T none is called.                              *)
OutcomeWhenEnded ==
  \A d \in Deliveries :
    /\ handler[d] \in {"none", "running"} => outcome[d] = "none"
    /\ handler[d] = "ended" => outcome[d] \in Results
    /\ Used("replacing") => handler[d] \in {"none", "returned"} /\ outcome[d] = "none"

(* A success that no time limit has cut off is rejected only for           *)
(* timeTracking's error.                                                   *)
RejectExplained(d) ==
  ~stack.limited => handler[d] = "returned" /\ (outcome[d] = "ok" => Used("timeTracking"))

(* Why a worker is about to acknowledge, or to reject.                     *)
StageDecided ==
  \A v \in ProcessorWorkers :
    /\ procPc[v] = "ack" => Used("ignoreErrors") \/ outcome[cur[v]] = "ok"
    /\ procPc[v] = "reject" => RejectExplained(cur[v])

(* No worker holds a delivery whose reject has succeeded.                  *)
AskedIsLetGo ==
  \A d \in Deliveries : asked[d] # -1 =>
    /\ d \in taken
    /\ RejectExplained(d)
    /\ \A v \in ProcessorWorkers : cur[v] # d

(* The message of a delivery cannot be received again before its timeout   *)
(* runs out or the delivery is rejected.                                   *)
HiddenUntilTimeout ==
  \A d \in 1..issued :
    \/ d \in timedOut
    \/ asked[d] # -1
    \/ Latest(d) /\ visibility[messageOf[d]] # "visible"

(* Later deliveries of a message are made with higher receive counts.      *)
CountsGrow ==
  \A d \in 1..issued :
    /\ attempt[d] \in 1..receiveCount[messageOf[d]]
    /\ \A e \in 1..issued : d < e /\ messageOf[d] = messageOf[e] => attempt[d] < attempt[e]

(* What the exponential rejector has asked for, SQS has accepted.          *)
AskedIsAccepted ==
  \A d \in Deliveries : AckStrategy = "exponential" /\ asked[d] # -1 =>
    asked[d] \in VisibilityTimeout(ReceiveCount(attempt[d])) /\ Accepted(asked[d])

DeletedForGood ==
  \A m \in Messages : visibility[m] = "deleted" =>
    Used("ignoreErrors") \/ \E d \in Deliveries : messageOf[d] = m /\ outcome[d] = "ok"

(* What the processor's proofs need of a worker and of the channel.        *)
ProcessorInv ==
  /\ RP!TypeOK
  /\ RP!ChannelIsFresh
  /\ RP!HeldByOne
  /\ RP!ReasonsToLeave
  /\ procResult = "running"

SafetyInv ==
  /\ TypeOK
  /\ stack \in Stacks
  /\ sameQueue \in BOOLEAN
  /\ ProcessorInv
  /\ IssuedInOrder
  /\ OutcomeWhenEnded
  /\ StageDecided
  /\ AskedIsLetGo
  /\ HiddenUntilTimeout
  /\ CountsGrow
  /\ AskedIsAccepted
  /\ DeletedForGood
  /\ RecoverKeepsProcess

-----------------------------------------------------------------------------
(* The number of issued deliveries, as they are issued.                    *)
LEMMA IssuedIsCount == issued \in 0..MaxDeliveries
<1>1. IsFiniteSet(Deliveries) /\ Cardinality(Deliveries) = MaxDeliveries
  BY FS_Interval, RedeliveryAssumption DEF Deliveries, RedeliveryAssumption
<1> QED
  BY <1>1, FS_Subset, FS_CardinalityType, RedeliveryAssumption DEF issued, RedeliveryAssumption

LEMMA CountOfPrefix ==
  ASSUME NEW n \in 0..MaxDeliveries, NEW of,
         \A d \in Deliveries : of[d] # NoMessage <=> d <= n
  PROVE  Cardinality({d \in Deliveries : of[d] # NoMessage}) = n
<1>1. {d \in Deliveries : of[d] # NoMessage} = 1..n
  BY RedeliveryAssumption DEF Deliveries, RedeliveryAssumption
<1>2. Cardinality(1..n) = n
  BY FS_Interval
<1> QED
  BY <1>1, <1>2

(* What a receive does to the deliveries.                                  *)
LEMMA ReceiveIssues ==
  ASSUME SafetyInv, NEW m \in Messages, Receive(m)
  PROVE  /\ issued \in Nat /\ issued + 1 \in Deliveries /\ issued' = issued + 1
         /\ messageOf' = [messageOf EXCEPT ![issued + 1] = m]
         /\ messageOf[issued + 1] = NoMessage
         /\ \A d \in Deliveries : messageOf'[d] # NoMessage <=> d <= issued + 1
<1>1. issued \in 0..MaxDeliveries /\ issued + 1 \in Deliveries
  BY IssuedIsCount, RedeliveryAssumption DEF Receive, Deliveries, RedeliveryAssumption
<1>2. messageOf' = [messageOf EXCEPT ![issued + 1] = m]
  BY DEF Receive
<1>3. messageOf[issued + 1] = NoMessage
  BY <1>1 DEF SafetyInv, IssuedInOrder
<1>4. \A d \in Deliveries : messageOf'[d] # NoMessage <=> d <= issued + 1
  <2> SUFFICES ASSUME NEW d \in Deliveries PROVE messageOf'[d] # NoMessage <=> d <= issued + 1
    OBVIOUS
  <2>1. messageOf[d] # NoMessage <=> d <= issued
    BY DEF SafetyInv, IssuedInOrder
  <2>2. DOMAIN messageOf = Deliveries
    BY DEF SafetyInv, TypeOK
  <2> QED
    BY <1>1, <1>2, <2>1, <2>2, RedeliveryAssumption DEF RedeliveryAssumption, Deliveries
<1>5. issued' = issued + 1
  <2>1. issued + 1 \in 0..MaxDeliveries
    BY <1>1 DEF Deliveries
  <2> QED
    BY <1>4, <2>1, CountOfPrefix DEF issued
<1> QED
  BY <1>1, <1>2, <1>3, <1>4, <1>5

(* Restart apart, a step is one of the processor.                          *)
LEMMA SameProcessor ==
  ASSUME [Next]_vars
  PROVE  [RP!Next]_(RP!vars) \/ Restart
<1> USE DEF Deliveries, processVars, RP!processorVars, RP!channel, RP!vars, RP!Next, RP!Worker
<1>1. ASSUME NEW m \in Messages, Receive(m) PROVE RP!Next
  <2>1. issued + 1 \in 1..MaxDeliveries
    BY <1>1, IssuedIsCount, RedeliveryAssumption DEF Receive, RedeliveryAssumption
  <2> QED
    BY <1>1, <2>1 DEF Receive, R!Feed, RP!Feed, R!processorVars, R!Range, RP!Range, RP!Deliveries
<1>2. ASSUME NEW m \in Messages, Reappear(m) PROVE UNCHANGED RP!vars
  BY <1>2 DEF Reappear
<1>3. ASSUME NEW v \in ProcessorWorkers, Fetch(v) PROVE RP!Next
  BY <1>3
  DEF Fetch, R!Stop, RP!Stop, R!Take, RP!Take, R!TransformSucceeds, RP!TransformSucceeds,
      R!TransformFails, RP!TransformFails, R!Move, RP!Move, R!Release, RP!Release, R!channel
<1>4. ASSUME NEW v \in ProcessorWorkers, CallHandler(v) PROVE UNCHANGED RP!vars
  BY <1>4 DEF CallHandler
<1>5. ASSUME NEW v \in ProcessorWorkers, Result(v) \/ TimeLimit(v) \/ Unexpected(v) PROVE RP!Next
  BY <1>5
  DEF Result, TimeLimit, Unexpected, Conclude, R!HandleSucceeds, RP!HandleSucceeds, R!HandleFails,
      RP!HandleFails, R!Move, RP!Move, R!channel
<1>6. ASSUME NEW v \in ProcessorWorkers, Settle(v) PROVE RP!Next
  BY <1>6
  DEF Settle, AckSucceeds, AckFails, RejectSucceeds, RejectFails, R!AckSucceeds, RP!AckSucceeds,
      R!AckFails, RP!AckFails, R!RejectSucceeds, RP!RejectSucceeds, R!RejectFails, RP!RejectFails,
      R!Rejected, RP!Rejected, R!Move, RP!Move, R!Release, RP!Release, R!channel
<1>7. ASSUME NEW d \in Deliveries, NEW result, HandlerEnds(d, result) PROVE UNCHANGED RP!vars
  BY <1>7 DEF HandlerEnds
<1>8. CASE ContextEnds
  BY <1>8 DEF ContextEnds, R!ContextEnds, RP!ContextEnds, R!processorVars, R!channel
<1>9. CASE UNCHANGED vars
  BY <1>9 DEF vars
<1> QED
  BY <1>1, <1>2, <1>3, <1>4, <1>5, <1>6, <1>7, <1>8, <1>9 DEF Next, Worker

LEMMA ProcessGoesOn ==
  ASSUME [Next]_vars
  PROVE  procResult' = procResult
<1> USE DEF processVars
<1>1. ASSUME NEW m \in Messages, Receive(m) \/ Reappear(m) PROVE procResult' = procResult
  BY <1>1 DEF Receive, Reappear, R!Feed, R!processorVars
<1>2. ASSUME NEW v \in ProcessorWorkers, Worker(v) PROVE procResult' = procResult
  BY <1>2
  DEF Worker, Fetch, R!Stop, R!Take, R!TransformSucceeds, R!TransformFails, CallHandler, Result,
      TimeLimit, Unexpected, Conclude, R!HandleSucceeds, R!HandleFails, Settle, AckSucceeds, AckFails,
      RejectSucceeds, RejectFails, R!AckSucceeds, R!AckFails, R!RejectSucceeds, R!RejectFails
<1>3. ASSUME NEW d \in Deliveries, NEW res, HandlerEnds(d, res) PROVE procResult' = procResult
  BY <1>3 DEF HandlerEnds
<1>4. CASE ContextEnds \/ Restart \/ UNCHANGED vars
  BY <1>4 DEF ContextEnds, R!ContextEnds, R!processorVars, Restart, vars
<1> QED
  BY <1>1, <1>2, <1>3, <1>4 DEF Next

LEMMA ProcessorStep ==
  ASSUME SafetyInv, [Next]_vars
  PROVE  ProcessorInv'
<1>1. CASE [RP!Next]_(RP!vars)
  <2>1. RP!TypeOK'
    BY <1>1, RP!TypeStep, RedeliveryAssumption DEF SafetyInv, ProcessorInv, RedeliveryAssumption
  <2>2. RP!ChannelIsFresh' /\ RP!HeldByOne' /\ RP!ReasonsToLeave'
    BY <1>1, RP!HoldingStep, RedeliveryAssumption DEF SafetyInv, ProcessorInv, RedeliveryAssumption
  <2> QED
    BY <2>1, <2>2, ProcessGoesOn DEF SafetyInv, ProcessorInv
<1>2. CASE Restart
  <2> USE <1>2, RedeliveryAssumption, IssuedIsCount DEF Restart, SafetyInv, ProcessorInv, RedeliveryAssumption
  <2>1. buf' \in Seq(Deliveries) /\ Len(buf') <= Capacity /\ taken' \subseteq Deliveries
    BY EmptySeq DEF Deliveries
  <2>2. RP!TypeOK'
    BY <2>1 DEF RP!TypeOK, RP!Deliveries, Deliveries
  <2>3. RP!ChannelIsFresh' /\ RP!HeldByOne'
    BY EmptySeq DEF RP!ChannelIsFresh, RP!HeldByOne, RP!Range, RP!IsInjective
  <2>4. RP!ReasonsToLeave'
    BY DEF RP!ReasonsToLeave
  <2> QED
    BY <2>2, <2>3, <2>4
<1> QED
  BY <1>1, <1>2, SameProcessor

(* The middlewares and the queue's address never change.                   *)
LEMMA SettingsStep ==
  ASSUME [Next]_vars
  PROVE  UNCHANGED settings
<1>1. ASSUME NEW m \in Messages, Receive(m) \/ Reappear(m) PROVE UNCHANGED settings
  BY <1>1 DEF Receive, Reappear
<1>2. ASSUME NEW v \in ProcessorWorkers, Worker(v) PROVE UNCHANGED settings
  BY <1>2
  DEF Worker, Fetch, CallHandler, Result, TimeLimit, Unexpected, Settle, AckSucceeds, AckFails,
      RejectSucceeds, RejectFails
<1>3. ASSUME NEW d \in Deliveries, NEW res, HandlerEnds(d, res) PROVE UNCHANGED settings
  BY <1>3 DEF HandlerEnds
<1>4. CASE ContextEnds \/ Restart \/ UNCHANGED vars
  BY <1>4 DEF ContextEnds, Restart, vars
<1> QED
  BY <1>1, <1>2, <1>3, <1>4 DEF Next

LEMMA TypeStep ==
  ASSUME SafetyInv, [Next]_vars
  PROVE  TypeOK' /\ (stack \in Stacks)' /\ (sameQueue \in BOOLEAN)'
<1>1. (stack \in Stacks)' /\ (sameQueue \in BOOLEAN)'
  BY SettingsStep DEF SafetyInv, settings
<1>2. R!TypeOK'
  BY ProcessorStep DEF ProcessorInv, RP!TypeOK, R!TypeOK, RP!Deliveries, R!Deliveries
<1> DEFINE Rest ==
      /\ visibility \in [Messages -> {"visible", "hidden", "deleted"}]
      /\ receiveCount \in [Messages -> Nat]
      /\ messageOf \in [Deliveries -> Messages \cup {NoMessage}]
      /\ attempt \in [Deliveries -> Nat]
      /\ asked \in [Deliveries -> {-1} \cup 0..SQSMaxVisibility]
      /\ timedOut \subseteq 1..issued
      /\ handler \in [Deliveries -> {"none", "running", "ended", "returned"}]
      /\ outcome \in [Deliveries -> {"none", "ok", "error", "panic"}]
      /\ crashed \in BOOLEAN
<1>3. Rest
  BY DEF SafetyInv, TypeOK
<1>4. Rest'
  <2> USE <1>3, RedeliveryAssumption, IssuedIsCount
      DEF RedeliveryAssumption, handlerVars, sqsVars, processVars, settings
  <2>1. UNCHANGED messageOf => issued' = issued
    BY DEF issued
  <2>2. ASSUME NEW m \in Messages, Receive(m) PROVE Rest'
    <3>1. issued + 1 \in Deliveries /\ issued' = issued + 1 /\ issued \in Nat
      BY <2>2, ReceiveIssues
    <3>2. receiveCount[m] \in Nat
      OBVIOUS
    <3> QED
      BY <2>2, <3>1, <3>2 DEF Receive
  <2>3. ASSUME NEW m \in Messages, Reappear(m) PROVE Rest'
    <3>1. {d \in Deliveries : messageOf[d] = m /\ Latest(d) /\ asked[d] = -1} \subseteq 1..issued
      BY DEF SafetyInv, IssuedInOrder, Deliveries
    <3> QED
      BY <2>1, <2>3, <3>1 DEF Reappear
  <2>4. ASSUME NEW v \in ProcessorWorkers,
               Fetch(v) \/ CallHandler(v) \/ Result(v) \/ TimeLimit(v) \/ Unexpected(v)
        PROVE  Rest'
    BY <2>1, <2>4 DEF Fetch, CallHandler, Result, TimeLimit, Unexpected
  <2>5. ASSUME NEW v \in ProcessorWorkers, AckSucceeds(v) \/ AckFails(v) PROVE Rest'
    BY <2>1, <2>5 DEF AckSucceeds, AckFails, Deleted
  <2>6. ASSUME NEW v \in ProcessorWorkers, RejectSucceeds(v) PROVE Rest'
    <3>1. ASSUME NEW seconds, Accepted(seconds), asked' = [asked EXCEPT ![cur[v]] = seconds]
          PROVE  asked' \in [Deliveries -> {-1} \cup 0..SQSMaxVisibility]
      BY <3>1 DEF Accepted
    <3>2. asked' \in [Deliveries -> {-1} \cup 0..SQSMaxVisibility]
      BY <2>6, <3>1 DEF RejectSucceeds
    <3> QED
      BY <2>1, <2>6, <3>2 DEF RejectSucceeds
  <2>7. ASSUME NEW v \in ProcessorWorkers, RejectFails(v) PROVE Rest'
    BY <2>1, <2>7 DEF RejectFails
  <2>8. ASSUME NEW d \in Deliveries, NEW res \in {"ok", "error", "panic"}, HandlerEnds(d, res)
        PROVE  Rest'
    <3>1. crashed' \in BOOLEAN
      BY <2>8, Zenon DEF HandlerEnds
    <3> QED
      BY <2>1, <2>8, <3>1 DEF HandlerEnds
  <2>9. CASE ContextEnds \/ Restart
    BY <2>1, <2>9 DEF ContextEnds, Restart
  <2>10. CASE UNCHANGED vars
    BY <2>1, <2>10 DEF vars
  <2> QED
    BY <2>2, <2>3, <2>4, <2>5, <2>6, <2>7, <2>8, <2>9, <2>10 DEF Next, Worker, Settle
<1> QED
  BY <1>1, <1>2, <1>4 DEF TypeOK

(* A worker past its select holds an issued delivery that no other has.    *)
LEMMA Held ==
  ASSUME SafetyInv, NEW v \in ProcessorWorkers, procPc[v] \in {"transform", "handle", "ack", "reject"}
  PROVE  /\ cur[v] \in Deliveries /\ cur[v] \in 1..issued
         /\ messageOf[cur[v]] \in Messages
         /\ \A u \in ProcessorWorkers \ {v} : cur[u] # cur[v]
<1>1. cur[v] \in 1..MaxDeliveries /\ cur[v] \in taken
      /\ \A u \in ProcessorWorkers \ {v} : cur[u] # cur[v]
  BY DEF SafetyInv, ProcessorInv, RP!TypeOK, RP!Deliveries, RP!HeldByOne
<1>2. cur[v] \in 1..issued /\ cur[v] \in Deliveries
  BY <1>1 DEF SafetyInv, IssuedInOrder, Deliveries
<1>3. messageOf[cur[v]] # NoMessage
  BY <1>2, IssuedIsCount DEF SafetyInv, IssuedInOrder
<1> QED
  BY <1>1, <1>2, <1>3 DEF SafetyInv, TypeOK

LEMMA IssuedStep ==
  ASSUME SafetyInv, [Next]_vars
  PROVE  IssuedInOrder'
<1>0. IssuedInOrder /\ issued \in Nat
  BY IssuedIsCount DEF SafetyInv
<1>1. UNCHANGED messageOf => issued' = issued
  BY DEF issued
<1>2. buf \in Seq(Deliveries) /\ IsInjective(buf)
  BY DEF SafetyInv, ProcessorInv, RP!TypeOK, RP!Deliveries, RP!ChannelIsFresh, RP!IsInjective,
         IsInjective, Deliveries
<1>3. handler \in [Deliveries -> {"none", "running", "ended", "returned"}]
      /\ asked \in [Deliveries -> {-1} \cup 0..SQSMaxVisibility]
  BY DEF SafetyInv, TypeOK
<1> USE DEF IssuedInOrder, handlerVars, sqsVars, processVars, settings
<1>4. ASSUME NEW m \in Messages, Receive(m) PROVE IssuedInOrder'
  <2>1. /\ issued + 1 \in Deliveries /\ issued' = issued + 1
        /\ \A d \in Deliveries : messageOf'[d] # NoMessage <=> d <= issued + 1
    BY <1>4, ReceiveIssues
  <2>2. /\ issued + 1 \notin Range(buf)
        /\ buf' = Append(buf, issued + 1) /\ UNCHANGED taken
    BY <1>4 DEF Receive, R!Feed, R!Range, Range, R!processorVars
  <2>3. Range(buf') = Range(buf) \cup {issued + 1}
    BY <1>2, <2>1, <2>2, RangeOfAppend
  <2>4. UNCHANGED <<handler, asked>>
    BY <1>4 DEF Receive
  <2> QED
    BY <1>0, <2>1, <2>2, <2>3, <2>4 DEF Deliveries
<1>5. ASSUME NEW m \in Messages, Reappear(m) PROVE IssuedInOrder'
  BY <1>0, <1>1, <1>5 DEF Reappear
<1>6. ASSUME NEW v \in ProcessorWorkers, Fetch(v) PROVE IssuedInOrder'
  <2>1. UNCHANGED <<messageOf, handler, asked>>
    BY <1>6 DEF Fetch
  <2>2. CASE R!Take(v)
    <3>1. buf # <<>> /\ buf' = Tail(buf) /\ taken' = taken \cup {Head(buf)}
      BY <2>2 DEF R!Take
    <3>2. Head(buf) \in Range(buf) /\ Range(Tail(buf)) = Range(buf) \ {Head(buf)}
      BY <1>2, <3>1, RangeOfTail
    <3> QED
      BY <1>0, <1>1, <2>1, <3>1, <3>2
  <2>3. CASE ~R!Take(v)
    <3>1. UNCHANGED <<buf, taken>>
      BY <1>6, <2>3 DEF Fetch, R!Stop, R!TransformSucceeds, R!TransformFails, R!channel
    <3> QED
      BY <1>0, <1>1, <2>1, <3>1 DEF Range
  <2> QED
    BY <2>2, <2>3
<1>7. ASSUME NEW v \in ProcessorWorkers, CallHandler(v) PROVE IssuedInOrder'
  <2>1. cur[v] \in 1..issued
    BY <1>7, Held DEF CallHandler
  <2> QED
    BY <1>0, <1>1, <1>3, <1>7, <2>1 DEF CallHandler
<1>8. ASSUME NEW v \in ProcessorWorkers, Result(v) \/ TimeLimit(v) \/ Unexpected(v)
      PROVE  IssuedInOrder'
  <2>1. cur[v] \in 1..issued
    BY <1>8, Held DEF Result, TimeLimit, Unexpected
  <2>2. UNCHANGED <<buf, taken>>
    BY <1>8 DEF Result, TimeLimit, Unexpected, Conclude, R!HandleSucceeds, R!HandleFails, R!channel
  <2> QED
    BY <1>0, <1>1, <1>3, <1>8, <2>1, <2>2 DEF Result, TimeLimit, Unexpected, Range
<1>9. ASSUME NEW v \in ProcessorWorkers, AckSucceeds(v) \/ AckFails(v) \/ RejectFails(v)
      PROVE  IssuedInOrder'
  <2>1. UNCHANGED <<buf, taken>>
    BY <1>9 DEF AckSucceeds, AckFails, RejectFails, R!AckSucceeds, R!AckFails, R!RejectFails, R!channel
  <2> QED
    BY <1>0, <1>1, <1>9, <2>1 DEF AckSucceeds, AckFails, RejectFails, Range
<1>10. ASSUME NEW v \in ProcessorWorkers, RejectSucceeds(v) PROVE IssuedInOrder'
  <2>1. cur[v] \in 1..issued
    BY <1>10, Held DEF RejectSucceeds, R!RejectSucceeds, R!Release, R!Move
  <2>2. UNCHANGED <<buf, taken>>
    BY <1>10 DEF RejectSucceeds, R!RejectSucceeds, R!channel
  <2>3. \A d \in Deliveries : d > issued => asked'[d] = asked[d]
    BY <1>0, <1>3, <1>10, <2>1 DEF RejectSucceeds
  <2> QED
    BY <1>0, <1>1, <1>10, <2>2, <2>3 DEF RejectSucceeds, Range
<1>11. ASSUME NEW d \in Deliveries, NEW res, HandlerEnds(d, res) PROVE IssuedInOrder'
  BY <1>0, <1>1, <1>3, <1>11 DEF HandlerEnds, Range
<1>12. CASE ContextEnds
  BY <1>0, <1>1, <1>12 DEF ContextEnds, R!ContextEnds, R!processorVars, R!channel, Range
<1>13. CASE Restart
  <2>1. Range(buf') = {}
    BY <1>13, EmptySeq DEF Restart, Range
  <2>2. UNCHANGED <<messageOf, asked>> /\ taken' = 1..issued
        /\ \A d \in Deliveries : messageOf[d] = NoMessage => handler'[d] = "none"
    BY <1>13 DEF Restart
  <2> QED
    BY <1>0, <1>1, <2>1, <2>2 DEF Deliveries
<1>14. CASE UNCHANGED vars
  BY <1>0, <1>1, <1>14 DEF vars, Range
<1> QED
  BY <1>4, <1>5, <1>6, <1>7, <1>8, <1>9, <1>10, <1>11, <1>12, <1>13, <1>14 DEF Next, Worker, Settle

LEMMA OutcomeStep ==
  ASSUME SafetyInv, [Next]_vars
  PROVE  OutcomeWhenEnded' /\ StageDecided' /\ AskedIsLetGo'
<1> DEFINE Goal == OutcomeWhenEnded /\ StageDecided /\ AskedIsLetGo
<1>1. Goal /\ stack \in Stacks
  BY DEF SafetyInv
<1>2. /\ handler \in [Deliveries -> {"none", "running", "ended", "returned"}]
      /\ outcome \in [Deliveries -> {"none", "ok", "error", "panic"}]
      /\ asked \in [Deliveries -> {-1} \cup 0..SQSMaxVisibility]
      /\ procPc \in [ProcessorWorkers -> {"select", "transform", "handle", "ack", "reject", "done"}]
      /\ cur \in [ProcessorWorkers -> {0} \cup Deliveries]
  BY DEF SafetyInv, TypeOK, ProcessorInv, RP!TypeOK, RP!Deliveries, Deliveries
<1>3. stack.outer \in Seq(Middlewares) /\ stack.inner \in Seq(Middlewares)
  BY <1>1, RedeliveryAssumption DEF RedeliveryAssumption
<1>u. \A mw : Used(mw) <=> Has(mw, stack.outer) \/ Has(mw, stack.inner)
  BY <1>3, HasInEither DEF Used
<1> USE DEF OutcomeWhenEnded, StageDecided, AskedIsLetGo, RejectExplained, Used, handlerVars,
            sqsVars, processVars, settings
<1>4. ASSUME NEW m \in Messages, Receive(m) PROVE Goal'
  <2>1. UNCHANGED <<taken, procPc, cur, asked, handler, outcome, stack>>
    BY <1>4 DEF Receive, R!Feed, R!processorVars
  <2> QED
    BY <1>1, <2>1
<1>5. ASSUME NEW m \in Messages, Reappear(m) PROVE Goal'
  BY <1>1, <1>5 DEF Reappear
<1>6. ASSUME NEW v \in ProcessorWorkers, Fetch(v) PROVE Goal'
  <2>1. UNCHANGED <<asked, handler, outcome, stack>>
    BY <1>6 DEF Fetch
  <2>2. CASE R!Take(v)
    <3>1. /\ buf # <<>> /\ cur' = [cur EXCEPT ![v] = Head(buf)]
          /\ taken' = taken \cup {Head(buf)} /\ procPc' = [procPc EXCEPT ![v] = "transform"]
      BY <2>2 DEF R!Take, R!Move
    <3>2. Head(buf) \notin taken
      <4>1. buf \in Seq(Deliveries) /\ RP!Range(buf) = Range(buf) /\ Range(buf) \cap taken = {}
        BY DEF SafetyInv, ProcessorInv, RP!TypeOK, RP!Deliveries, RP!ChannelIsFresh, RP!Range,
               Range, Deliveries
      <4>2. IsInjective(buf)
        BY DEF SafetyInv, ProcessorInv, RP!ChannelIsFresh, RP!IsInjective, IsInjective
      <4> QED
        BY <3>1, <4>1, <4>2, RangeOfTail
    <3> QED
      BY <1>1, <1>2, <2>1, <3>1, <3>2
  <2>3. CASE R!Stop(v) \/ R!TransformSucceeds(v)
    <3>1. /\ UNCHANGED <<taken, cur>>
          /\ \E stage \in {"done", "handle"} : procPc' = [procPc EXCEPT ![v] = stage]
      BY <2>3 DEF R!Stop, R!TransformSucceeds, R!Move
    <3> QED
      BY <1>1, <1>2, <2>1, <3>1
  <2>4. CASE R!TransformFails(v)
    <3>1. /\ UNCHANGED taken /\ cur' = [cur EXCEPT ![v] = 0]
          /\ procPc' = [procPc EXCEPT ![v] = "select"]
      BY <2>4 DEF R!TransformFails, R!Release, R!Move
    <3> QED
      BY <1>1, <1>2, <2>1, <3>1 DEF Deliveries
  <2> QED
    BY <1>6, <2>2, <2>3, <2>4 DEF Fetch
<1>7. ASSUME NEW v \in ProcessorWorkers, CallHandler(v) PROVE Goal'
  <2>1. cur[v] \in Deliveries
    BY <1>7, Held DEF CallHandler
  <2> QED
    BY <1>1, <1>2, <1>7, <2>1 DEF CallHandler
<1>8. ASSUME NEW v \in ProcessorWorkers, NEW result, Conclude(v, result),
             UNCHANGED <<asked, outcome, stack>>,
             handler' = handler \/ handler' = [handler EXCEPT ![cur[v]] = "returned"],
             result = "ok" => Used("ignoreErrors") \/ outcome[cur[v]] = "ok",
             result = "error" /\ ~stack.limited =>
               handler'[cur[v]] = "returned" /\ (outcome[cur[v]] = "ok" => Used("timeTracking"))
      PROVE  Goal'
  <2>1. procPc[v] = "handle" /\ UNCHANGED <<taken, cur>>
    BY <1>8 DEF Conclude, R!HandleSucceeds, R!HandleFails, R!Move
  <2>2. cur[v] \in Deliveries /\ \A u \in ProcessorWorkers \ {v} : cur[u] # cur[v]
    BY <2>1, Held
  <2>3. /\ result = "ok" => procPc' = [procPc EXCEPT ![v] = "ack"]
        /\ result # "ok" => result = "error" /\ procPc' = [procPc EXCEPT ![v] = "reject"]
    BY <1>8 DEF Conclude, R!HandleSucceeds, R!HandleFails, R!Move
  <2>4. result \in {"ok", "error"}
    BY <2>3
  <2>5. OutcomeWhenEnded'
    BY <1>1, <1>2, <1>8, <2>2
  <2>6. AskedIsLetGo'
    <3>1. ASSUME NEW d \in Deliveries, asked'[d] # -1
          PROVE  d \in taken' /\ RejectExplained(d)' /\ \A u \in ProcessorWorkers : cur'[u] # d
      <4>1. asked[d] # -1 /\ d # cur[v]
        BY <1>1, <1>8, <3>1
      <4>2. handler'[d] = handler[d]
        BY <1>2, <1>8, <4>1
      <4> QED
        BY <1>1, <1>8, <2>1, <4>1, <4>2
    <3> QED
      BY <3>1
  <2>7. StageDecided'
    <3> DEFINE Decided(u) ==
          /\ procPc[u] = "ack" => Used("ignoreErrors") \/ outcome[cur[u]] = "ok"
          /\ procPc[u] = "reject" => RejectExplained(cur[u])
    <3>1. ASSUME NEW u \in ProcessorWorkers \ {v}
          PROVE  Decided(u)'
      <4>1. procPc'[u] = procPc[u]
        BY <1>2, <2>3, <2>4
      <4>2. procPc[u] \in {"ack", "reject"} => handler'[cur[u]] = handler[cur[u]]
        BY <1>2, <1>8, <2>2, Held
      <4> QED
        BY <1>1, <1>8, <2>1, <4>1, <4>2
    <3>2. Decided(v)'
      <4>1. /\ procPc'[v] = "ack" => result = "ok"
            /\ procPc'[v] = "reject" => result = "error"
        BY <1>2, <2>3, <2>4
      <4> QED
        BY <1>8, <2>1, <4>1
    <3> QED
      BY <3>1, <3>2
  <2> QED
    BY <2>5, <2>6, <2>7
<1>9. ASSUME NEW v \in ProcessorWorkers, Result(v) PROVE Goal'
  <2> DEFINE d == cur[v]
             result == Through(stack.outer, inside(d))
  <2>1. d \in Deliveries /\ outcome[d] \in Results
    BY <1>1, <1>9, Held DEF Result
  <2>2. Conclude(v, result) /\ UNCHANGED <<asked, outcome, stack>>
        /\ handler' = [handler EXCEPT ![d] = "returned"]
    BY <1>9 DEF Result
  <2>3. inside(d) \in Results
    BY <1>3, <2>1, ResultStays DEF inside
  <2>4. result = "ok" => Used("ignoreErrors") \/ outcome[d] = "ok"
    <3> SUFFICES ASSUME ~Used("ignoreErrors"), outcome[d] # "ok" PROVE result # "ok"
      OBVIOUS
    <3>0. ~Has("ignoreErrors", stack.outer) /\ ~Has("ignoreErrors", stack.inner)
      BY <1>u
    <3>1. inside(d) \in {"error", "panic"}
      BY <1>3, <2>1, <3>0, FailureStays DEF inside, Results
    <3> QED
      BY <1>3, <3>0, <3>1, FailureStays
  <2>5. outcome[d] = "ok" /\ ~Used("timeTracking") => result = "ok"
    <3> SUFFICES ASSUME outcome[d] = "ok", ~Used("timeTracking") PROVE result = "ok"
      OBVIOUS
    <3>1. ~Used("replacing")
      BY <1>1, <2>1
    <3>2. \A mw \in {"timeTracking", "replacing"} :
            ~Has(mw, stack.outer) /\ ~Has(mw, stack.inner)
      BY <1>u, <3>1
    <3> QED
      BY <1>3, <3>2, SuccessStays DEF inside
  <2>6. handler'[d] = "returned"
    BY <1>2, <2>1, <2>2
  <2>7. result = "error" /\ outcome[d] = "ok" => Used("timeTracking")
    BY <2>5
  <2> HIDE DEF result
  <2> QED
    BY <1>8, <2>2, <2>4, <2>6, <2>7
<1>10. ASSUME NEW v \in ProcessorWorkers, TimeLimit(v) PROVE Goal'
  <2> DEFINE result == Through(stack.outer, "error")
  <2>1. Conclude(v, result) /\ UNCHANGED <<asked, handler, outcome, stack>> /\ stack.limited
    BY <1>10 DEF TimeLimit
  <2>2. result = "ok" => Used("ignoreErrors")
    BY <1>3, <1>u, FailureStays
  <2> HIDE DEF result
  <2> QED
    BY <1>8, <2>1, <2>2
<1>16. ASSUME NEW v \in ProcessorWorkers, Unexpected(v) PROVE Goal'
  <2>1. PICK result \in {Through(stack.outer, Through(stack.inner, "error")),
                         Through(stack.outer, "error")} : Conclude(v, result)
    BY <1>16 DEF Unexpected
  <2>2. /\ cur[v] \in Deliveries /\ handler[cur[v]] = "none"
        /\ handler' = [handler EXCEPT ![cur[v]] = "returned"]
        /\ UNCHANGED <<asked, outcome, stack>>
    BY <1>16, Held DEF Unexpected
  <2>3. result = "ok" => Used("ignoreErrors")
    <3> SUFFICES ASSUME ~Used("ignoreErrors") PROVE result # "ok"
      OBVIOUS
    <3>1. ~Has("ignoreErrors", stack.outer) /\ ~Has("ignoreErrors", stack.inner)
      BY <1>u
    <3>2. Through(stack.inner, "error") \in {"error", "panic"}
      BY <1>3, <3>1, FailureStays
    <3> QED
      BY <1>3, <2>1, <3>1, <3>2, FailureStays
  <2>4. handler'[cur[v]] = "returned" /\ outcome[cur[v]] = "none"
    BY <1>1, <1>2, <2>2
  <2> QED
    BY <1>8, <2>1, <2>2, <2>3, <2>4
<1>11. ASSUME NEW v \in ProcessorWorkers, Settle(v) PROVE Goal'
  <2>1. /\ cur' = [cur EXCEPT ![v] = 0] /\ procPc' = [procPc EXCEPT ![v] = "select"]
        /\ UNCHANGED <<taken, handler, outcome, stack>>
    BY <1>11
    DEF Settle, AckSucceeds, AckFails, RejectSucceeds, RejectFails, R!AckSucceeds, R!AckFails,
        R!RejectSucceeds, R!RejectFails, R!Release, R!Move
  <2>2. CASE UNCHANGED asked
    BY <1>1, <1>2, <2>1, <2>2 DEF Deliveries
  <2>3. CASE asked' # asked
    <3>1. procPc[v] = "reject" /\ \E seconds : asked' = [asked EXCEPT ![cur[v]] = seconds]
      BY <1>11, <2>3
      DEF Settle, AckSucceeds, AckFails, RejectSucceeds, RejectFails, R!RejectSucceeds,
          R!Release, R!Move
    <3>2. cur[v] \in Deliveries /\ \A u \in ProcessorWorkers \ {v} : cur[u] # cur[v]
      BY <3>1, Held
    <3>3. cur[v] \in taken
      BY <3>2 DEF SafetyInv, ProcessorInv, RP!HeldByOne, Deliveries
    <3> QED
      BY <1>1, <1>2, <2>1, <3>1, <3>2, <3>3 DEF Deliveries
  <2> QED
    BY <2>2, <2>3
<1>12. ASSUME NEW d \in Deliveries, NEW res \in Results, HandlerEnds(d, res) PROVE Goal'
  BY <1>1, <1>2, <1>12 DEF HandlerEnds, Results
<1>13. CASE ContextEnds
  BY <1>1, <1>13 DEF ContextEnds, R!ContextEnds, R!processorVars, R!channel
<1>14. CASE Restart
  <2>1. /\ UNCHANGED <<asked, outcome, stack, messageOf>> /\ taken' = 1..issued
        /\ procPc' = [v \in ProcessorWorkers |-> "select"]
        /\ cur' = [v \in ProcessorWorkers |-> 0]
        /\ handler' = [d \in Deliveries |-> IF messageOf[d] = NoMessage THEN "none" ELSE "returned"]
    BY <1>14 DEF Restart
  <2>2. IssuedInOrder /\ issued \in Nat
    BY IssuedIsCount DEF SafetyInv
  <2> QED
    BY <1>1, <1>2, <2>1, <2>2 DEF IssuedInOrder, Deliveries
<1>15. CASE UNCHANGED vars
  BY <1>1, <1>15 DEF vars
<1> QED
  BY <1>4, <1>5, <1>6, <1>7, <1>9, <1>10, <1>11, <1>12, <1>13, <1>14, <1>15, <1>16
  DEF Next, Worker, Results

(* Everything but the receipt of a message leaves the deliveries alone.    *)
LEMMA DeliveriesKept ==
  ASSUME [Next]_vars
  PROVE  \/ \E m \in Messages : Receive(m)
         \/ UNCHANGED <<messageOf, attempt, receiveCount>> /\ issued' = issued
<1> USE DEF sqsVars
<1>1. UNCHANGED messageOf => issued' = issued
  BY DEF issued
<1>2. ASSUME NEW m \in Messages, Reappear(m) PROVE UNCHANGED <<messageOf, attempt, receiveCount>>
  BY <1>2 DEF Reappear
<1>3. ASSUME NEW v \in ProcessorWorkers, Worker(v)
      PROVE  UNCHANGED <<messageOf, attempt, receiveCount>>
  BY <1>3
  DEF Worker, Fetch, CallHandler, Result, TimeLimit, Unexpected, Settle, AckSucceeds, AckFails,
      RejectSucceeds, RejectFails
<1>4. ASSUME NEW d \in Deliveries, NEW res, HandlerEnds(d, res)
      PROVE  UNCHANGED <<messageOf, attempt, receiveCount>>
  BY <1>4 DEF HandlerEnds
<1>5. CASE ContextEnds \/ Restart \/ UNCHANGED vars
  BY <1>1, <1>5 DEF ContextEnds, Restart, vars
<1> QED
  BY <1>1, <1>2, <1>3, <1>4, <1>5 DEF Next

(* What a reject that succeeds has asked for.                              *)
LEMMA AskedStep ==
  ASSUME SafetyInv, [Next]_vars
  PROVE  \/ UNCHANGED asked
         \/ \E v \in ProcessorWorkers : \E seconds \in RejectTimeout(cur[v]) :
              /\ cur[v] \in 1..issued /\ cur[v] \in Deliveries
              /\ Accepted(seconds)
              /\ asked' = [asked EXCEPT ![cur[v]] = seconds]
              /\ UNCHANGED <<sqsVars, settings>>
<1>1. ASSUME NEW m \in Messages, Receive(m) \/ Reappear(m) PROVE UNCHANGED asked
  BY <1>1 DEF Receive, Reappear
<1>2. ASSUME NEW v \in ProcessorWorkers, RejectSucceeds(v), asked' # asked
      PROVE  \E seconds \in RejectTimeout(cur[v]) :
               /\ cur[v] \in 1..issued /\ cur[v] \in Deliveries
               /\ Accepted(seconds)
               /\ asked' = [asked EXCEPT ![cur[v]] = seconds]
               /\ UNCHANGED <<sqsVars, settings>>
  <2>1. cur[v] \in 1..issued /\ cur[v] \in Deliveries
    BY <1>2, Held DEF RejectSucceeds, R!RejectSucceeds, R!Release, R!Move
  <2> QED
    BY <1>2, <2>1 DEF RejectSucceeds
<1>3. ASSUME NEW v \in ProcessorWorkers, Worker(v), ~RejectSucceeds(v) PROVE UNCHANGED asked
  BY <1>3
  DEF Worker, Fetch, CallHandler, Result, TimeLimit, Unexpected, Settle, AckSucceeds,
      AckFails, RejectFails
<1>4. ASSUME NEW d \in Deliveries, NEW res, HandlerEnds(d, res) PROVE UNCHANGED asked
  BY <1>4 DEF HandlerEnds
<1>5. CASE ContextEnds \/ Restart \/ UNCHANGED vars
  BY <1>5 DEF ContextEnds, Restart, vars
<1> QED
  BY <1>1, <1>2, <1>3, <1>4, <1>5 DEF Next

LEMMA CountsStep ==
  ASSUME SafetyInv, [Next]_vars
  PROVE  CountsGrow' /\ AskedIsAccepted'
<1>1. CountsGrow /\ AskedIsAccepted /\ issued \in 0..MaxDeliveries
  BY IssuedIsCount DEF SafetyInv
<1>2. /\ receiveCount \in [Messages -> Nat]
      /\ messageOf \in [Deliveries -> Messages \cup {NoMessage}]
      /\ attempt \in [Deliveries -> Nat]
      /\ asked \in [Deliveries -> {-1} \cup 0..SQSMaxVisibility]
      /\ \A d \in 1..issued : messageOf[d] \in Messages /\ d \in Deliveries
  BY <1>1, RedeliveryAssumption
  DEF SafetyInv, TypeOK, IssuedInOrder, Deliveries, RedeliveryAssumption
<1>3. ASSUME NEW m \in Messages, Receive(m) PROVE CountsGrow' /\ AskedIsAccepted'
  <2>1. /\ issued + 1 \in Deliveries /\ issued' = issued + 1
        /\ messageOf' = [messageOf EXCEPT ![issued + 1] = m]
    BY <1>3, ReceiveIssues
  <2>2. /\ receiveCount' = [receiveCount EXCEPT ![m] = @ + 1]
        /\ attempt' = [attempt EXCEPT ![issued + 1] = receiveCount[m] + 1]
        /\ UNCHANGED asked
    BY <1>3 DEF Receive
  <2>3. ASSUME NEW d \in 1..issued
        PROVE  /\ attempt'[d] = attempt[d] /\ messageOf'[d] = messageOf[d]
               /\ attempt[d] \in 1..receiveCount'[messageOf[d]]
    <3>1. receiveCount[messageOf[d]] \in Nat
          /\ receiveCount'[messageOf[d]] \in {receiveCount[messageOf[d]], receiveCount[messageOf[d]] + 1}
      BY <1>2, <2>2
    <3>2. attempt[d] \in 1..receiveCount[messageOf[d]]
      BY <1>1 DEF CountsGrow
    <3> QED
      BY <1>1, <1>2, <2>1, <2>2, <3>1, <3>2
  <2>4. /\ attempt'[issued + 1] = receiveCount[m] + 1 /\ messageOf'[issued + 1] = m
        /\ receiveCount'[m] = receiveCount[m] + 1 /\ receiveCount[m] \in Nat
    BY <1>2, <2>1, <2>2
  <2>5. CountsGrow'
    <3>1. ASSUME NEW d \in 1..(issued + 1) PROVE attempt'[d] \in 1..receiveCount'[messageOf'[d]]
      <4>1. d \in 1..issued \/ d = issued + 1
        BY <1>1
      <4> QED
        BY <2>3, <2>4, <4>1
    <3>2. ASSUME NEW d \in 1..(issued + 1), NEW e \in 1..(issued + 1), d < e,
                 messageOf'[d] = messageOf'[e]
          PROVE  attempt'[d] < attempt'[e]
      <4>1. d \in 1..issued /\ (e \in 1..issued \/ e = issued + 1)
        BY <1>1, <3>2
      <4>2. CASE e \in 1..issued
        BY <1>1, <2>3, <3>2, <4>1, <4>2 DEF CountsGrow
      <4>3. CASE e = issued + 1
        <5>1. attempt'[d] = attempt[d] /\ messageOf[d] = m
          BY <2>3, <2>4, <3>2, <4>1, <4>3
        <5>2. attempt[d] \in 1..receiveCount[m]
          BY <1>1, <4>1, <5>1 DEF CountsGrow
        <5> QED
          BY <2>4, <4>3, <5>1, <5>2
      <4> QED
        BY <4>1, <4>2, <4>3
    <3> QED
      BY <2>1, <3>1, <3>2 DEF CountsGrow
  <2>6. AskedIsAccepted'
    <3>1. \A d \in Deliveries : asked[d] # -1 => d # issued + 1
      BY <1>1, <2>1 DEF SafetyInv, IssuedInOrder
    <3>2. \A d \in Deliveries : asked[d] # -1 => attempt'[d] = attempt[d]
      BY <1>2, <2>2, <3>1
    <3> QED
      BY <1>1, <2>2, <3>2 DEF AskedIsAccepted
  <2> QED
    BY <2>5, <2>6
<1>4. CASE ~\E m \in Messages : Receive(m)
  <2>1. UNCHANGED <<messageOf, attempt, receiveCount>> /\ issued' = issued
    BY <1>4, DeliveriesKept
  <2>2. CountsGrow'
    BY <1>1, <2>1 DEF CountsGrow
  <2>3. AskedIsAccepted'
    <3>1. CASE UNCHANGED asked
      BY <1>1, <2>1, <3>1 DEF AskedIsAccepted
    <3>2. ASSUME NEW v \in ProcessorWorkers, NEW seconds \in RejectTimeout(cur[v]),
                 cur[v] \in Deliveries, Accepted(seconds),
                 asked' = [asked EXCEPT ![cur[v]] = seconds]
          PROVE  AskedIsAccepted'
      <4>1. AckStrategy = "exponential" =>
              seconds \in VisibilityTimeout(ReceiveCount(attempt[cur[v]]))
        BY DEF RejectTimeout
      <4>2. \A d \in Deliveries : asked'[d] = IF d = cur[v] THEN seconds ELSE asked[d]
        BY <1>2, <3>2
      <4> QED
        BY <1>1, <2>1, <3>2, <4>1, <4>2 DEF AskedIsAccepted
    <3> QED
      BY <3>1, <3>2, AskedStep
  <2> QED
    BY <2>2, <2>3
<1> QED
  BY <1>3, <1>4

(* What becomes of the visibility of a message, and why.                   *)
LEMMA VisibilityStep ==
  ASSUME SafetyInv, [Next]_vars
  PROVE  \/ UNCHANGED visibility
         \/ \E m \in Messages : Receive(m) \/ Reappear(m)
         \/ \E v \in ProcessorWorkers :
              /\ procPc[v] = "ack" /\ cur[v] \in Deliveries /\ messageOf[cur[v]] \in Messages
              /\ visibility' = [visibility EXCEPT ![messageOf[cur[v]]] = "deleted"]
              /\ UNCHANGED <<asked, timedOut, handlerVars, settings>>
<1>1. ASSUME NEW v \in ProcessorWorkers, AckSucceeds(v) \/ AckFails(v), visibility' # visibility
      PROVE  /\ procPc[v] = "ack" /\ cur[v] \in Deliveries /\ messageOf[cur[v]] \in Messages
             /\ visibility' = [visibility EXCEPT ![messageOf[cur[v]]] = "deleted"]
             /\ UNCHANGED <<asked, timedOut, handlerVars, settings>>
  <2>1. procPc[v] = "ack"
    BY <1>1 DEF AckSucceeds, AckFails, R!AckSucceeds, R!AckFails, R!Release, R!Move
  <2>2. cur[v] \in Deliveries /\ messageOf[cur[v]] \in Messages
    BY <2>1, Held
  <2> QED
    BY <1>1, <2>1, <2>2 DEF AckSucceeds, AckFails, Deleted
<1>2. ASSUME NEW v \in ProcessorWorkers, Worker(v), ~(AckSucceeds(v) \/ AckFails(v))
      PROVE  UNCHANGED visibility
  BY <1>2
  DEF Worker, Fetch, CallHandler, Result, TimeLimit, Unexpected, Settle, RejectSucceeds,
      RejectFails, sqsVars
<1>3. ASSUME NEW d \in Deliveries, NEW res, HandlerEnds(d, res) PROVE UNCHANGED visibility
  BY <1>3 DEF HandlerEnds, sqsVars
<1>4. CASE ContextEnds \/ Restart \/ UNCHANGED vars
  BY <1>4 DEF ContextEnds, Restart, vars, sqsVars
<1> QED
  BY <1>1, <1>2, <1>3, <1>4 DEF Next

LEMMA TimedOutStep ==
  ASSUME [Next]_vars
  PROVE  (\E m \in Messages : Reappear(m)) \/ UNCHANGED timedOut
<1>1. ASSUME NEW m \in Messages, Receive(m) PROVE UNCHANGED timedOut
  BY <1>1 DEF Receive
<1>2. ASSUME NEW v \in ProcessorWorkers, Worker(v) PROVE UNCHANGED timedOut
  BY <1>2
  DEF Worker, Fetch, CallHandler, Result, TimeLimit, Unexpected, Settle, AckSucceeds, AckFails,
      RejectSucceeds, RejectFails, sqsVars
<1>3. ASSUME NEW d \in Deliveries, NEW res, HandlerEnds(d, res) PROVE UNCHANGED timedOut
  BY <1>3 DEF HandlerEnds, sqsVars
<1>4. CASE ContextEnds \/ Restart \/ UNCHANGED vars
  BY <1>4 DEF ContextEnds, Restart, vars, sqsVars
<1> QED
  BY <1>1, <1>2, <1>3, <1>4 DEF Next

LEMMA HiddenStep ==
  ASSUME SafetyInv, [Next]_vars
  PROVE  HiddenUntilTimeout'
<1>1. HiddenUntilTimeout /\ issued \in 0..MaxDeliveries
  BY IssuedIsCount DEF SafetyInv
<1>2. /\ messageOf \in [Deliveries -> Messages \cup {NoMessage}]
      /\ visibility \in [Messages -> {"visible", "hidden", "deleted"}]
      /\ asked \in [Deliveries -> {-1} \cup 0..SQSMaxVisibility]
      /\ \A d \in 1..issued : messageOf[d] \in Messages /\ d \in Deliveries
  BY <1>1, RedeliveryAssumption
  DEF SafetyInv, TypeOK, IssuedInOrder, Deliveries, RedeliveryAssumption
<1>3. ASSUME NEW m \in Messages, Receive(m) PROVE HiddenUntilTimeout'
  <2>1. /\ issued + 1 \in Deliveries /\ issued' = issued + 1 /\ issued \in Nat
        /\ messageOf' = [messageOf EXCEPT ![issued + 1] = m]
        /\ \A d \in Deliveries : messageOf'[d] # NoMessage <=> d <= issued + 1
    BY <1>3, ReceiveIssues
  <2>2. /\ visibility[m] = "visible" /\ visibility' = [visibility EXCEPT ![m] = "hidden"]
        /\ UNCHANGED <<asked, timedOut>> /\ m # NoMessage
    BY <1>3, RedeliveryAssumption DEF Receive, RedeliveryAssumption
  <2>3. ASSUME NEW d, d = issued + 1
        PROVE  Latest(d)' /\ visibility'[messageOf'[d]] # "visible"
    <3>1. messageOf'[d] = m /\ visibility'[m] = "hidden"
      BY <1>2, <2>1, <2>2, <2>3
    <3>2. \A e \in Deliveries : messageOf'[e] = messageOf'[d] => e <= d
      BY <2>1, <2>2, <2>3, <3>1
    <3> QED
      BY <3>1, <3>2 DEF Latest, Deliveries
  <2>4. ASSUME NEW d \in 1..issued, ~(d \in timedOut \/ asked[d] # -1)
        PROVE  Latest(d)' /\ visibility'[messageOf'[d]] # "visible"
    <3>1. Latest(d) /\ visibility[messageOf[d]] # "visible" /\ messageOf[d] \in Messages
      BY <1>1, <1>2, <2>4 DEF HiddenUntilTimeout
    <3>2. messageOf[d] # m /\ d # issued + 1 /\ d \in Deliveries
      BY <1>1, <1>2, <2>2, <3>1
    <3>3. messageOf'[d] = messageOf[d] /\ visibility'[messageOf[d]] = visibility[messageOf[d]]
      BY <1>2, <2>1, <2>2, <3>1, <3>2
    <3>4. \A e \in Deliveries : messageOf'[e] = IF e = issued + 1 THEN m ELSE messageOf[e]
      BY <1>2, <2>1
    <3>5. Latest(d)'
      BY <3>1, <3>2, <3>3, <3>4 DEF Latest, Deliveries
    <3> QED
      BY <3>1, <3>3, <3>5
  <2>5. ASSUME NEW d \in 1..(issued + 1)
        PROVE  \/ d \in timedOut'
               \/ asked'[d] # -1
               \/ Latest(d)' /\ visibility'[messageOf'[d]] # "visible"
    <3>1. d \in 1..issued \/ d = issued + 1
      BY <1>1
    <3> QED
      BY <2>2, <2>3, <2>4, <3>1
  <2> QED
    BY <2>1, <2>5 DEF HiddenUntilTimeout
<1>4. CASE ~\E m \in Messages : Receive(m)
  <2>1. UNCHANGED messageOf /\ issued' = issued
    BY <1>4, DeliveriesKept
  <2>2. \A d \in Deliveries : asked[d] # -1 => asked'[d] # -1
    BY <1>2, AskedStep DEF Accepted
  <2>3. \A d \in 1..issued : Latest(d)' <=> Latest(d)
    BY <2>1 DEF Latest, Deliveries
  <2>4. ASSUME NEW m \in Messages, Reappear(m) PROVE HiddenUntilTimeout'
    <3>1. /\ visibility' = [visibility EXCEPT ![m] = "visible"] /\ UNCHANGED asked
          /\ timedOut' = timedOut \cup
               {d \in Deliveries : messageOf[d] = m /\ Latest(d) /\ asked[d] = -1}
      BY <2>4 DEF Reappear
    <3>2. \A d \in 1..issued : messageOf[d] # m =>
            visibility'[messageOf[d]] = visibility[messageOf[d]]
      BY <1>2, <3>1
    <3> QED
      BY <1>1, <1>2, <2>1, <2>3, <3>1, <3>2 DEF HiddenUntilTimeout
  <2>5. CASE ~\E m \in Messages : Reappear(m)
    <3>1. UNCHANGED timedOut
      BY <2>5, TimedOutStep
    <3>2. \A m \in Messages : visibility'[m] = "visible" => visibility[m] = "visible"
      BY <1>2, <1>4, <2>5, VisibilityStep
    <3> QED
      BY <1>1, <1>2, <2>1, <2>2, <2>3, <3>1, <3>2 DEF HiddenUntilTimeout
  <2> QED
    BY <2>4, <2>5
<1> QED
  BY <1>3, <1>4

LEMMA DeletedStep ==
  ASSUME SafetyInv, [Next]_vars
  PROVE  DeletedForGood'
<1>1. DeletedForGood /\ OutcomeWhenEnded /\ StageDecided
  BY DEF SafetyInv
<1>2. /\ messageOf \in [Deliveries -> Messages \cup {NoMessage}]
      /\ visibility \in [Messages -> {"visible", "hidden", "deleted"}]
      /\ outcome \in [Deliveries -> {"none", "ok", "error", "panic"}]
      /\ NoMessage \notin Messages
  BY RedeliveryAssumption DEF SafetyInv, TypeOK, RedeliveryAssumption
<1>3. \A d \in Deliveries : outcome[d] = "ok" => outcome'[d] = "ok"
  <2> USE DEF handlerVars
  <2>1. ASSUME NEW m \in Messages, Receive(m) \/ Reappear(m) PROVE UNCHANGED outcome
    BY <2>1 DEF Receive, Reappear
  <2>2. ASSUME NEW v \in ProcessorWorkers, Worker(v) PROVE UNCHANGED outcome
    BY <2>2
    DEF Worker, Fetch, CallHandler, Result, TimeLimit, Unexpected, Settle, AckSucceeds, AckFails,
        RejectSucceeds, RejectFails
  <2>3. ASSUME NEW d \in Deliveries, NEW res, HandlerEnds(d, res)
        PROVE  \A e \in Deliveries : outcome[e] = "ok" => outcome'[e] = "ok"
    <3>1. outcome[d] = "none" /\ outcome' = [outcome EXCEPT ![d] = res]
      BY <1>1, <2>3 DEF HandlerEnds, OutcomeWhenEnded
    <3> QED
      BY <1>2, <3>1
  <2>4. CASE ContextEnds \/ Restart \/ UNCHANGED vars
    BY <2>4 DEF ContextEnds, Restart, vars
  <2> QED
    BY <2>1, <2>2, <2>3, <2>4 DEF Next
<1>4. \A d \in Deliveries : messageOf[d] \in Messages => messageOf'[d] = messageOf[d]
  <2>1. ASSUME NEW m \in Messages, Receive(m)
        PROVE  \A d \in Deliveries : messageOf[d] \in Messages => messageOf'[d] = messageOf[d]
    BY <1>2, <2>1, ReceiveIssues
  <2> QED
    BY <2>1, DeliveriesKept
<1>5. Used("ignoreErrors")' <=> Used("ignoreErrors")
  BY SettingsStep DEF Used, settings
<1>6. ASSUME NEW m \in Messages, visibility'[m] = "deleted"
      PROVE  Used("ignoreErrors") \/ \E d \in Deliveries : messageOf[d] = m /\ outcome[d] = "ok"
  <2>1. CASE visibility[m] = "deleted"
    BY <1>1, <2>1 DEF DeletedForGood
  <2>2. CASE visibility[m] # "deleted"
    <3>1. ASSUME NEW n \in Messages, Receive(n) \/ Reappear(n) PROVE visibility'[m] # "deleted"
      BY <1>2, <2>2, <3>1 DEF Receive, Reappear
    <3>2. PICK v \in ProcessorWorkers :
            /\ procPc[v] = "ack" /\ cur[v] \in Deliveries
            /\ visibility' = [visibility EXCEPT ![messageOf[cur[v]]] = "deleted"]
      BY <1>6, <2>2, <3>1, VisibilityStep
    <3>3. messageOf[cur[v]] = m
      BY <1>2, <1>6, <2>2, <3>2
    <3> QED
      BY <1>1, <3>2, <3>3 DEF StageDecided
  <2> QED
    BY <2>1, <2>2
<1> QED
  BY <1>3, <1>4, <1>5, <1>6 DEF DeletedForGood

LEMMA RecoverStep ==
  ASSUME SafetyInv, [Next]_vars
  PROVE  RecoverKeepsProcess'
<1>1. RecoverKeepsProcess /\ stack \in Stacks
  BY DEF SafetyInv
<1>2. stack.outer \in Seq(Middlewares) /\ stack.inner \in Seq(Middlewares)
  BY <1>1, RedeliveryAssumption DEF RedeliveryAssumption
<1>3. stack' = stack
  BY SettingsStep DEF settings
<1>4. ASSUME NEW d \in Deliveries, NEW res \in Results, HandlerEnds(d, res)
      PROVE  RecoverKeepsProcess'
  <2> SUFFICES ASSUME crashed'
               PROVE  /\ ~Has("panicRecover", stack.inner)
                      /\ Has("panicRecover", stack.outer) => stack.limited
    BY <1>3 DEF RecoverKeepsProcess
  <2>1. Through(IF stack.limited THEN stack.inner ELSE stack.outer \o stack.inner, res) = "panic"
    BY <1>4 DEF HandlerEnds
  <2>2. CASE stack.limited
    BY <1>2, <2>1, <2>2, ResultStays
  <2>3. CASE ~stack.limited
    <3>1. stack.outer \o stack.inner \in Seq(Middlewares)
      BY <1>2, HasInEither
    <3>2. ~Has("panicRecover", stack.outer \o stack.inner)
      BY <2>1, <2>3, <3>1, ResultStays
    <3> QED
      BY <1>2, <3>2, HasInEither
  <2> QED
    BY <2>2, <2>3
<1>5. CASE ~\E d \in Deliveries, res \in Results : HandlerEnds(d, res)
  <2>1. crashed' => crashed
    <3>1. ASSUME NEW m \in Messages, Receive(m) \/ Reappear(m) PROVE UNCHANGED crashed
      BY <3>1 DEF Receive, Reappear
    <3>2. ASSUME NEW v \in ProcessorWorkers, Worker(v) PROVE UNCHANGED crashed
      BY <3>2
      DEF Worker, Fetch, CallHandler, Result, TimeLimit, Unexpected, Settle, AckSucceeds, AckFails,
          RejectSucceeds, RejectFails
    <3>3. CASE ContextEnds \/ Restart \/ UNCHANGED vars
      BY <3>3 DEF ContextEnds, Restart, vars
    <3> QED
      BY <1>5, <3>1, <3>2, <3>3 DEF Next, Results
  <2> QED
    BY <1>1, <1>3, <2>1 DEF RecoverKeepsProcess
<1> QED
  BY <1>4, <1>5

-----------------------------------------------------------------------------
LEMMA InitSafety == Init => SafetyInv
<1> SUFFICES ASSUME Init PROVE SafetyInv
  OBVIOUS
<1>1. issued = 0
  <2>1. 0 \in 0..MaxDeliveries /\ \A d \in Deliveries : messageOf[d] # NoMessage <=> d <= 0
    BY RedeliveryAssumption DEF RedeliveryAssumption, Init, Deliveries
  <2> QED
    BY <2>1, CountOfPrefix DEF issued
<1> USE RedeliveryAssumption DEF RedeliveryAssumption, Init, Deliveries
<1>2. R!Init
  OBVIOUS
<1>3. RP!Init
  BY <1>2 DEF R!Init, RP!Init, R!Deliveries, RP!Deliveries
<1>4. RP!SafetyInv
  BY <1>3, RP!InitSafety
<1>5. ProcessorInv /\ stack \in Stacks /\ sameQueue \in BOOLEAN
  BY <1>2, <1>4 DEF RP!SafetyInv, ProcessorInv, R!Init
<1>6. TypeOK
  <2>1. R!TypeOK
    BY <1>5 DEF ProcessorInv, RP!TypeOK, R!TypeOK, RP!Deliveries, R!Deliveries
  <2> QED
    BY <2>1 DEF TypeOK
<1>7. buf = <<>> /\ taken = {} /\ procPc = [v \in ProcessorWorkers |-> "select"]
  BY <1>2 DEF R!Init
<1>8. IssuedInOrder
  BY <1>1, <1>7, EmptySeq DEF IssuedInOrder, Range
<1>9. OutcomeWhenEnded /\ StageDecided /\ AskedIsLetGo
  BY <1>7 DEF OutcomeWhenEnded, StageDecided, AskedIsLetGo
<1>10. HiddenUntilTimeout /\ CountsGrow /\ AskedIsAccepted /\ DeletedForGood
  BY <1>1 DEF HiddenUntilTimeout, CountsGrow, AskedIsAccepted, DeletedForGood
<1>11. RecoverKeepsProcess
  BY DEF RecoverKeepsProcess
<1> QED
  BY <1>5, <1>6, <1>8, <1>9, <1>10, <1>11 DEF SafetyInv

LEMMA SafetyInvariant == Spec => []SafetyInv
<1>1. SafetyInv /\ [Next]_vars => SafetyInv'
  BY TypeStep, ProcessorStep, IssuedStep, OutcomeStep, HiddenStep, CountsStep, DeletedStep,
     RecoverStep
  DEF SafetyInv
<1> QED
  BY InitSafety, <1>1, PTL DEF Spec

-----------------------------------------------------------------------------
(* The variables keep their types, through crashes and restarts, and SQS   *)
(* is never asked for a timeout it does not accept.                        *)
THEOREM TypeCorrect == Spec => []TypeOK
<1>1. SafetyInv => TypeOK
  BY DEF SafetyInv
<1> QED
  BY SafetyInvariant, <1>1, PTL

(* A message leaves the queue only with a handler's success, or with       *)
(* IgnoreErrors; a success is rejected only by a middleware's doing.       *)
THEOREM Settlement == Spec => []SettledByOutcome
<1>1. ASSUME SafetyInv PROVE SettledByOutcome
  <2>1. stack.outer \in Seq(Middlewares) /\ stack.inner \in Seq(Middlewares)
    BY <1>1, RedeliveryAssumption DEF SafetyInv, RedeliveryAssumption
  <2>2. \A mw : Has(mw, stack.outer \o stack.inner) <=> Used(mw)
    BY DEF Used
  <2>3. ASSUME NEW d \in Deliveries, asked[d] # -1, outcome[d] = "ok"
        PROVE  stack.limited \/ Used("timeTracking")
    BY <1>1, <2>3 DEF SafetyInv, AskedIsLetGo, RejectExplained
  <2> QED
    BY <1>1, <2>2, <2>3 DEF SafetyInv, DeletedForGood, SettledByOutcome
<1> QED
  BY SafetyInvariant, <1>1, PTL

(* Two handlers work on one message only after a visibility timeout or a   *)
(* time limit.                                                             *)
THEOREM OverlapExplained == Spec => []OverlapHasCause
<1>1. ASSUME SafetyInv PROVE OverlapHasCause
  <2> SUFFICES ASSUME NEW d \in Deliveries, NEW e \in Deliveries,
                      d < e, messageOf[d] = messageOf[e],
                      handler[d] = "running", handler[e] = "running", d \notin timedOut
               PROVE  stack.limited /\ \A v \in ProcessorWorkers : cur[v] # d
    BY DEF OverlapHasCause
  <2>1. d \in 1..issued
    BY <1>1, IssuedIsCount DEF SafetyInv, IssuedInOrder, Deliveries
  <2>2. ~Latest(d)
    BY DEF Latest, Deliveries
  <2>3. asked[d] # -1
    BY <1>1, <2>1, <2>2 DEF SafetyInv, HiddenUntilTimeout
  <2> QED
    BY <1>1, <2>3 DEF SafetyInv, AskedIsLetGo, RejectExplained
<1> QED
  BY SafetyInvariant, <1>1, PTL

(* PanicRecover keeps the process alive, except from outside a time limit. *)
THEOREM RecoverProtects == Spec => []RecoverKeepsProcess
<1>1. SafetyInv => RecoverKeepsProcess
  BY DEF SafetyInv
<1> QED
  BY SafetyInvariant, <1>1, PTL

(* The exponential rejector spaces the deliveries of a message out.        *)
THEOREM RejectsSpaced == Spec => []RejectsSpaceOut
<1>1. ASSUME SafetyInv PROVE RejectsSpaceOut
  <2> SUFFICES ASSUME NEW e \in Deliveries, AckStrategy = "exponential", asked[e] # -1
               PROVE  /\ asked[e] >= 2
                      /\ attempt[e] \notin 20..37
                      /\ attempt[e] < 38 =>
                           \A d \in Deliveries :
                             d < e /\ messageOf[d] = messageOf[e] => asked[d] <= asked[e]
    BY DEF RejectsSpaceOut
  <2>1. ASSUME NEW d \in Deliveries, asked[d] # -1
        PROVE  /\ d \in 1..issued
               /\ attempt[d] \in Nat \ {0}
               /\ ReceiveCount(attempt[d]) \in Nat \ {0}
               /\ attempt[d] <= 38 => ReceiveCount(attempt[d]) = attempt[d]
               /\ asked[d] \in VisibilityTimeout(ReceiveCount(attempt[d])) /\ Accepted(asked[d])
    <3>1. d \in 1..issued
      BY <1>1, <2>1, IssuedIsCount DEF SafetyInv, IssuedInOrder, Deliveries
    <3>2. messageOf[d] \in Messages
      BY <1>1, <3>1, IssuedIsCount DEF SafetyInv, IssuedInOrder, TypeOK
    <3>3. attempt[d] \in 1..receiveCount[messageOf[d]] /\ receiveCount[messageOf[d]] \in Nat
      BY <1>1, <3>1, <3>2 DEF SafetyInv, CountsGrow, TypeOK
    <3>4. attempt[d] \in Nat \ {0}
      BY <3>3
    <3> QED
      BY <1>1, <2>1, <3>1, <3>4, CountsAreTaken DEF SafetyInv, AskedIsAccepted
  <2>2. asked[e] >= 2 /\ attempt[e] \notin 20..37
    <3>1. asked[e] >= 2 /\ ReceiveCount(attempt[e]) \notin 20..37
      BY <2>1, TimeoutIsLong
    <3> QED
      BY <2>1, <3>1
  <2>3. ASSUME attempt[e] < 38, NEW d \in Deliveries, d < e, messageOf[d] = messageOf[e]
        PROVE  asked[d] <= asked[e]
    <3>1. CASE asked[d] = -1
      BY <2>1, <2>2, <3>1 DEF Accepted
    <3>2. CASE asked[d] # -1
      <4>1. attempt[d] < attempt[e]
        BY <1>1, <2>1, <2>3, <3>2 DEF SafetyInv, CountsGrow
      <4>2. attempt[d] \in 1..37 /\ attempt[e] \in 1..37 /\ attempt[d] <= attempt[e]
        BY <2>1, <2>3, <3>2, <4>1
      <4>3. ReceiveCount(attempt[d]) = attempt[d] /\ ReceiveCount(attempt[e]) = attempt[e]
        BY <2>1, <3>2, <4>2
      <4> QED
        BY <2>1, <3>2, <4>2, <4>3, TimeoutsGrow
    <3> QED
      BY <3>1, <3>2
  <2> QED
    BY <2>2, <2>3
<1> QED
  BY SafetyInvariant, <1>1, PTL

(* Between crashes the way of a message is one run of Processor: every     *)
(* step but a restart takes a step of it, or none.                         *)
THEOREM ProcessesAsProcessor == Spec => StepsAsProcessor
<1>1. [RP!Next]_(RP!vars) => [R!Next]_(R!vars)
  BY DEF R!Next, RP!Next, R!vars, RP!vars, R!processorVars, RP!processorVars, R!channel, RP!channel,
         R!Worker, RP!Worker, R!Feed, RP!Feed, R!Range, RP!Range, R!Deliveries, RP!Deliveries,
         R!Stop, RP!Stop, R!Take, RP!Take, R!Drained, RP!Drained,
         R!TransformSucceeds, RP!TransformSucceeds, R!TransformFails, RP!TransformFails,
         R!HandleSucceeds, RP!HandleSucceeds, R!HandleFails, RP!HandleFails,
         R!AckSucceeds, RP!AckSucceeds, R!AckFails, RP!AckFails,
         R!RejectSucceeds, RP!RejectSucceeds, R!RejectFails, RP!RejectFails,
         R!Rejected, RP!Rejected, R!Move, RP!Move, R!Release, RP!Release,
         R!ContextEnds, RP!ContextEnds, R!ProcessReturns, RP!ProcessReturns,
         R!CloseChannel, RP!CloseChannel, R!Terminated, RP!Terminated
<1>2. [Next]_vars => [[R!Next]_(R!vars) \/ Restart]_vars
  BY SameProcessor, <1>1
<1> QED
  BY <1>2, PTL DEF Spec, StepsAsProcessor
=============================================================================
