------------------------- MODULE ObservabilityProofs -------------------------
(***************************************************************************)
(* The instrumentation for any number of workers, pollers, calls of        *)
(* Consume, carriers and traces and for batches of any size: whoever shares the pool, a worker   *)
(* extracts the trace of its own message, and no interleaving of first     *)
(* records makes a type assertion fail.                                    *)
(***************************************************************************)
EXTENDS Observability, SequenceTheorems, TLAPS

-----------------------------------------------------------------------------
(* The instrument cache, for any number of goroutines, names and uses.     *)

TypeOK ==
  /\ instruments \in [Names -> {"absent", "once"} \cup Kinds]
  /\ once \in [Names -> {"unused", "running", "done"}]
  /\ created \in [Names -> Nat]
  /\ metricPc \in [Callers -> {"idle", "loadOrStore", "do", "factory", "leave", "load",
                                "recorded", "panicked"}]
  /\ use \in [Callers -> Uses \cup {NoUse}]
  /\ \A c \in Callers : metricPc[c] # "idle" => use[c] \in Uses

(* In the function that the Once runs.                                     *)
Inside(c, n) == metricPc[c] \in {"factory", "leave"} /\ name(c) = n

(* What the Once, the map and the callers know of each other.              *)
OnceInv(n) ==
  /\ once[n] = "unused" => created[n] = 0 /\ \A c \in Callers : ~Inside(c, n)
  /\ once[n] = "running" =>
       \A c, d \in Callers : Inside(c, n) /\ Inside(d, n) => c = d
  /\ once[n] = "done" => created[n] = 1 /\ \A c \in Callers : ~Inside(c, n)
  /\ created[n] \in {0, 1}
  /\ created[n] = 1 <=> instruments[n] \in Kinds
  /\ instruments[n] \in Kinds => <<n, instruments[n]>> \in Uses

CallerInv(c) ==
  /\ metricPc[c] = "factory" => created[name(c)] = 0 /\ once[name(c)] = "running"
  /\ metricPc[c] = "leave" => created[name(c)] = 1 /\ once[name(c)] = "running"
  /\ metricPc[c] \in {"load", "recorded"} => created[name(c)] = 1
  /\ metricPc[c] = "panicked" => Clash(name(c))

IInv == TypeOK /\ (\A n \in Names : OnceInv(n)) /\ (\A c \in Callers : CallerInv(c))

(* The parts of a use are a name and a kind.                               *)
LEMMA UseParts ==
  ASSUME NEW u \in Uses
  PROVE  u[1] \in Names /\ u[2] \in Kinds /\ u = <<u[1], u[2]>>
BY InstrumentsAssumption DEF Names

(* Initially nothing is stored and nobody records.                         *)
LEMMA InitIInv == InstrumentsInit => IInv
<1> SUFFICES ASSUME InstrumentsInit PROVE IInv
  OBVIOUS
<1>1. TypeOK
  BY DEF InstrumentsInit, TypeOK
<1>2. \A n \in Names : OnceInv(n)
  BY DEF InstrumentsInit, OnceInv, Inside, Kinds
<1>3. \A c \in Callers : CallerInv(c)
  BY DEF InstrumentsInit, CallerInv
<1> QED
  BY <1>1, <1>2, <1>3 DEF IInv

(* An assertion on a result succeeds, or the name has two kinds.           *)
LEMMA UseStep ==
  ASSUME IInv, NEW c \in Callers, use[c] \in Uses, instruments[name(c)] \in Kinds
  PROVE  instruments[name(c)] = kind(c) \/ Clash(name(c))
<1>1. use[c] = <<name(c), kind(c)>> /\ name(c) \in Names
  BY UseParts DEF name, kind
<1>2. <<name(c), instruments[name(c)]>> \in Uses
  BY <1>1 DEF IInv, OnceInv
<1> QED
  BY <1>1, <1>2 DEF Clash

(* Every step keeps the types.                                             *)
LEMMA TypeStep ==
  ASSUME IInv, [InstrumentsNext]_instrumentVars
  PROVE  TypeOK'
<1>1. CASE UNCHANGED instrumentVars
  BY <1>1 DEF IInv, TypeOK, instrumentVars
<1>2. ASSUME NEW c \in Callers, NEW u \in Uses, Record(c, u)
      PROVE  TypeOK'
  BY <1>2 DEF IInv, TypeOK, Record, Step
<1>3. ASSUME NEW c \in Callers, GetOrCreate(c)
      PROVE  TypeOK'
  <2> USE DEF IInv, TypeOK, Step
  <2>0. metricPc[c] # "idle" => name(c) \in Names /\ kind(c) \in Kinds
    BY UseParts DEF name, kind
  <2>1. CASE LoadOrStore(c)
    BY <2>0, <2>1 DEF LoadOrStore, Use
  <2>2. CASE Do(c)
    BY <2>0, <2>2 DEF Do
  <2>3. CASE Create(c)
    BY <2>0, <2>3 DEF Create
  <2>4. CASE Leave(c)
    BY <2>0, <2>4 DEF Leave
  <2>5. CASE Load(c)
    BY <2>0, <2>5 DEF Load, Use
  <2>6. CASE Recorded(c)
    BY <2>0, <2>6 DEF Recorded
  <2> QED
    BY <1>3, <2>1, <2>2, <2>3, <2>4, <2>5, <2>6 DEF GetOrCreate
<1> QED
  BY <1>1, <1>2, <1>3 DEF InstrumentsNext

(* A step of one caller, seen from the others: they stand where they were. *)
LEMMA OthersStand ==
  ASSUME TypeOK, NEW c \in Callers, GetOrCreate(c), NEW d \in Callers, d # c
  PROVE  metricPc'[d] = metricPc[d] /\ use'[d] = use[d]
BY DEF TypeOK, GetOrCreate, LoadOrStore, Do, Create, Leave, Load, Recorded, Use, Step

(* Every step keeps what the Once, the map and the callers know.           *)
LEMMA StepIInv == IInv /\ [InstrumentsNext]_instrumentVars => IInv'
<1> SUFFICES ASSUME IInv, [InstrumentsNext]_instrumentVars PROVE IInv'
  OBVIOUS
<1>0. TypeOK /\ TypeOK'
  BY TypeStep DEF IInv
<1>1. CASE UNCHANGED instrumentVars
  <2>1. \A n \in Names : OnceInv(n)'
    BY <1>1 DEF IInv, OnceInv, Inside, name, instrumentVars
  <2>2. \A c \in Callers : CallerInv(c)'
    BY <1>1 DEF IInv, CallerInv, name, Clash, instrumentVars
  <2> QED
    BY <1>0, <2>1, <2>2 DEF IInv
<1>2. ASSUME NEW c \in Callers, NEW u \in Uses, Record(c, u)
      PROVE  IInv'
  <2>1. \A n \in Names : OnceInv(n)'
    BY <1>0, <1>2 DEF IInv, OnceInv, Inside, name, TypeOK, Record, Step
  <2>2. \A d \in Callers : CallerInv(d)'
    BY <1>0, <1>2 DEF IInv, CallerInv, name, Clash, TypeOK, Record, Step
  <2> QED
    BY <1>0, <2>1, <2>2 DEF IInv
<1>3. ASSUME NEW c \in Callers, GetOrCreate(c)
      PROVE  IInv'
  <2>0. metricPc[c] # "idle"
    BY <1>3 DEF GetOrCreate, LoadOrStore, Do, Create, Leave, Load, Recorded, Use, Step
  <2>u. /\ use[c] \in Uses /\ use[c] = <<name(c), kind(c)>>
        /\ name(c) \in Names /\ kind(c) \in Kinds
    BY <1>0, <2>0, UseParts DEF TypeOK, name, kind
  <2>o. \A d \in Callers \ {c} : metricPc'[d] = metricPc[d] /\ name(d)' = name(d)
    BY <1>0, <1>3, OthersStand DEF name
  <2>k. "absent" \notin Kinds /\ "once" \notin Kinds
    BY DEF Kinds
  <2>i. \A n \in Names, d \in Callers \ {c} : Inside(d, n)' <=> Inside(d, n)
    BY <2>o DEF Inside
  <2>n. ASSUME NEW n \in Names, n # name(c), ~Inside(c, n)'
        PROVE  OnceInv(n)'
    <3>1. once'[n] = once[n] /\ created'[n] = created[n] /\ instruments'[n] = instruments[n]
      BY <1>0, <1>3, <2>n, <2>u DEF TypeOK, GetOrCreate, LoadOrStore, Do, Create, Leave, Load,
         Recorded, Use, Step
    <3>2. ~Inside(c, n)
      BY <2>n DEF Inside
    <3>3. OnceInv(n)
      BY DEF IInv
    <3> QED
      BY <2>n, <2>i, <3>1, <3>2, <3>3 DEF OnceInv
  <2>1. CASE LoadOrStore(c)
    <3> USE <2>1, <2>u, <2>o, <2>k, <1>0
    <3>1. CASE instruments[name(c)] \in {"absent", "once"}
      <4>1. /\ metricPc' = [metricPc EXCEPT ![c] = "do"]
            /\ instruments' = [instruments EXCEPT ![name(c)] = "once"]
            /\ UNCHANGED <<once, created, use>>
        BY <3>1 DEF LoadOrStore, Step
      <4>2. \A n \in Names : OnceInv(n)'
        <5>1. ~Inside(c, name(c))' /\ name(c)' = name(c)
          BY <4>1 DEF Inside, name, TypeOK
        <5>2. /\ once'[name(c)] = once[name(c)] /\ created'[name(c)] = created[name(c)]
              /\ instruments[name(c)] \notin Kinds /\ instruments'[name(c)] \notin Kinds
          BY <4>1, <3>1 DEF TypeOK
        <5>3. OnceInv(name(c)) /\ ~Inside(c, name(c))
          BY DEF IInv, Inside, LoadOrStore
        <5>4. \A n \in Names : n # name(c) => ~Inside(c, n)'
          BY <5>1 DEF Inside
        <5>5. OnceInv(name(c))'
          BY <5>1, <5>2, <5>3, <2>i DEF OnceInv
        <5> QED
          BY <5>1, <5>4, <5>5, <2>n
      <4>3. \A d \in Callers : CallerInv(d)'
        BY <4>1 DEF IInv, CallerInv, name, Clash, TypeOK
      <4> QED
        BY <4>2, <4>3 DEF IInv
    <3>2. CASE instruments[name(c)] \notin {"absent", "once"}
      <4>1. /\ metricPc' = [metricPc EXCEPT ![c] =
                              IF instruments[name(c)] = kind(c) THEN "recorded" ELSE "panicked"]
            /\ UNCHANGED <<instruments, once, created, use>>
        BY <3>2 DEF LoadOrStore, Use, Step
      <4>2. instruments[name(c)] \in Kinds /\ created[name(c)] = 1
        BY <3>2 DEF TypeOK, IInv, OnceInv
      <4>3. \A n \in Names : OnceInv(n)'
        BY <4>1 DEF IInv, OnceInv, Inside, name, TypeOK
      <4>4. instruments[name(c)] = kind(c) \/ Clash(name(c))
        BY <4>2, UseStep
      <4>5. \A d \in Callers : CallerInv(d)'
        BY <4>1, <4>2, <4>4 DEF IInv, CallerInv, name, Clash, TypeOK
      <4> QED
        BY <4>3, <4>5 DEF IInv
    <3> QED
      BY <3>1, <3>2
  <2>2. CASE Do(c)
    <3> USE <2>2, <2>u, <2>o, <1>0
    <3>0. /\ metricPc[c] = "do" /\ name(c)' = name(c) /\ OnceInv(name(c)) /\ CallerInv(c)
          /\ UNCHANGED <<instruments, created, use>>
      BY DEF IInv, Do, Step, name
    <3>1. CASE once[name(c)] = "unused" /\ metricPc' = [metricPc EXCEPT ![c] = "factory"]
                                       /\ once' = [once EXCEPT ![name(c)] = "running"]
      <4>1. once'[name(c)] = "running" /\ metricPc'[c] = "factory"
        BY <3>1 DEF TypeOK
      <4>2. \A d \in Callers : ~Inside(d, name(c)) /\ created[name(c)] = 0
        BY <3>0, <3>1 DEF OnceInv
      <4>3. \A n \in Names : n # name(c) => ~Inside(c, n)'
        BY <3>0 DEF Inside
      <4>4. OnceInv(name(c))'
        BY <3>0, <4>1, <4>2, <2>i DEF OnceInv
      <4>5. \A n \in Names : OnceInv(n)'
        <5> TAKE n \in Names
        <5>1. CASE n = name(c)
          BY <5>1, <4>4, <3>0 DEF OnceInv, Inside
        <5>2. CASE n # name(c)
          BY <5>2, <4>3, <2>n
        <5> QED
          BY <5>1, <5>2
      <4>6. CallerInv(c)'
        BY <3>0, <4>1, <4>2 DEF CallerInv
      <4>7. ASSUME NEW d \in Callers, d # c PROVE CallerInv(d)'
        <5>1. metricPc'[d] = metricPc[d] /\ name(d)' = name(d) /\ CallerInv(d)
          BY <4>7 DEF IInv
        <5>2. metricPc[d] \in {"factory", "leave"} => name(d) # name(c)
          BY <4>2 DEF Inside
        <5>3. name(d) # name(c) => once'[name(d)] = once[name(d)]
          BY <3>1 DEF TypeOK
        <5> QED
          BY <5>1, <5>2, <5>3, <3>0 DEF CallerInv, Clash
      <4> QED
        BY <4>5, <4>6, <4>7 DEF IInv
    <3>2. CASE /\ once[name(c)] = "done" /\ UNCHANGED once
               /\ metricPc' = [metricPc EXCEPT ![c] = "load"]
      <4>1. metricPc'[c] = "load" /\ created[name(c)] = 1
        BY <3>0, <3>2 DEF TypeOK, OnceInv
      <4>2. \A n \in Names : ~Inside(c, n) /\ ~Inside(c, n)'
        BY <3>0, <4>1 DEF Inside
      <4>3. \A n \in Names : OnceInv(n)'
        BY <3>0, <3>2, <4>2, <2>i DEF IInv, OnceInv
      <4>4. CallerInv(c)'
        BY <3>0, <4>1 DEF CallerInv
      <4>5. \A d \in Callers \ {c} : CallerInv(d)'
        BY <3>0, <3>2 DEF IInv, CallerInv, Clash
      <4> QED
        BY <4>3, <4>4, <4>5 DEF IInv
    <3> QED
      BY <3>1, <3>2 DEF Do, Step
  <2>3. CASE Create(c)
    <3> USE <2>3, <2>u, <2>o, <2>k, <1>0
    <3>1. /\ metricPc[c] = "factory" /\ metricPc' = [metricPc EXCEPT ![c] = "leave"]
          /\ created' = [created EXCEPT ![name(c)] = @ + 1]
          /\ instruments' = [instruments EXCEPT ![name(c)] = kind(c)]
          /\ UNCHANGED <<once, use>>
      BY DEF Create, Step
    <3>2. created[name(c)] = 0 /\ once[name(c)] = "running"
      BY <3>1 DEF IInv, CallerInv
    <3>3. \A n \in Names : OnceInv(n)'
      <4>1. /\ created'[name(c)] = 1 /\ instruments'[name(c)] = kind(c)
            /\ metricPc'[c] = "leave" /\ name(c)' = name(c)
        BY <3>1, <3>2 DEF TypeOK, name
      <4>2. Inside(c, name(c)) /\ Inside(c, name(c))'
        BY <3>1, <4>1 DEF Inside
      <4>3. \A n \in Names : n # name(c) => ~Inside(c, n)'
        BY <4>1 DEF Inside
      <4>4. OnceInv(name(c))
        BY DEF IInv
      <4>5. OnceInv(name(c))'
        BY <3>1, <3>2, <4>1, <4>2, <4>4, <2>i DEF OnceInv
      <4> QED
        <5> TAKE n \in Names
        <5>1. CASE n = name(c)
          BY <5>1, <4>5, <4>1 DEF OnceInv, Inside
        <5>2. CASE n # name(c)
          BY <5>2, <4>3, <2>n
        <5> QED
          BY <5>1, <5>2
    <3>4. \A d \in Callers \ {c} : Inside(d, name(c)) => FALSE
      BY <3>1, <3>2 DEF IInv, OnceInv, Inside
    <3>5. \A d \in Callers : CallerInv(d)'
      BY <3>1, <3>2, <3>4 DEF IInv, CallerInv, Inside, name, Clash, TypeOK
    <3> QED
      BY <3>3, <3>5 DEF IInv
  <2>4. CASE Leave(c)
    <3> USE <2>4, <2>u, <2>o, <1>0
    <3>1. /\ metricPc[c] = "leave" /\ metricPc' = [metricPc EXCEPT ![c] = "load"]
          /\ once' = [once EXCEPT ![name(c)] = "done"]
          /\ UNCHANGED <<instruments, created, use>>
      BY DEF Leave, Step
    <3>2. created[name(c)] = 1 /\ once[name(c)] = "running"
      BY <3>1 DEF IInv, CallerInv
    <3>3. \A d \in Callers \ {c} : Inside(d, name(c)) => FALSE
      BY <3>1, <3>2 DEF IInv, OnceInv, Inside
    <3>4. \A n \in Names : OnceInv(n)'
      BY <3>1, <3>2, <3>3 DEF IInv, OnceInv, Inside, name, TypeOK
    <3>5. \A d \in Callers : CallerInv(d)'
      BY <3>1, <3>2, <3>3 DEF IInv, CallerInv, Inside, name, Clash, TypeOK
    <3> QED
      BY <3>4, <3>5 DEF IInv
  <2>5. CASE Load(c)
    <3> USE <2>5, <2>u, <2>o, <1>0
    <3>1. /\ metricPc[c] = "load"
          /\ metricPc' = [metricPc EXCEPT ![c] =
                            IF instruments[name(c)] = kind(c) THEN "recorded" ELSE "panicked"]
          /\ UNCHANGED <<instruments, once, created, use>>
      BY DEF Load, Use, Step
    <3>2. created[name(c)] = 1 /\ instruments[name(c)] \in Kinds
      BY <3>1 DEF IInv, CallerInv, OnceInv
    <3>3. instruments[name(c)] = kind(c) \/ Clash(name(c))
      BY <3>2, UseStep
    <3>4. \A n \in Names : OnceInv(n)'
      BY <3>1 DEF IInv, OnceInv, Inside, name, TypeOK
    <3>5. \A d \in Callers : CallerInv(d)'
      BY <3>1, <3>2, <3>3 DEF IInv, CallerInv, name, Clash, TypeOK
    <3> QED
      BY <3>4, <3>5 DEF IInv
  <2>6. CASE Recorded(c)
    <3> USE <2>6, <2>u, <2>o, <1>0
    <3>1. /\ metricPc[c] = "recorded" /\ metricPc' = [metricPc EXCEPT ![c] = "idle"]
          /\ UNCHANGED <<instruments, once, created>>
      BY DEF Recorded, Step
    <3>2. \A n \in Names : OnceInv(n)'
      BY <3>1 DEF IInv, OnceInv, Inside, TypeOK
    <3>3. \A d \in Callers : CallerInv(d)'
      BY <3>1 DEF IInv, CallerInv, Clash, TypeOK
    <3> QED
      BY <3>2, <3>3 DEF IInv
  <2> QED
    BY <1>3, <2>1, <2>2, <2>3, <2>4, <2>5, <2>6 DEF GetOrCreate
<1> QED
  BY <1>1, <1>2, <1>3 DEF InstrumentsNext

LEMMA Invariant == InstrumentsSpec => []IInv
BY InitIInv, StepIInv, PTL DEF InstrumentsSpec

(* Whatever goroutines record for the first time at once, each name gets   *)
(* one instrument and every record goes to it.                             *)
THEOREM OneInstrument == InstrumentsSpec => []OneInstrumentPerName
<1>1. ASSUME IInv PROVE OneInstrumentPerName
  <2>1. ASSUME NEW n \in Names PROVE created[n] <= 1
    <3>1. created[n] = 0 \/ created[n] = 1
      BY <1>1 DEF IInv, OnceInv
    <3> QED
      BY <3>1
  <2>2. ASSUME NEW n \in Names, NEW c \in Callers, metricPc[c] = "recorded", name(c) = n
        PROVE  created[n] = 1
    BY <1>1, <2>2 DEF IInv, CallerInv
  <2> QED
    BY <2>1, <2>2 DEF OneInstrumentPerName
<1> QED
  BY <1>1, Invariant, PTL

(* getOrCreateInstrument panics for no interleaving, only for a name that  *)
(* is recorded with two kinds.                                             *)
THEOREM AssertionsHold == InstrumentsSpec => []NoFailedAssertion
<1>1. IInv => NoFailedAssertion
  BY DEF IInv, CallerInv, NoFailedAssertion
<1> QED
  BY <1>1, Invariant, PTL

-----------------------------------------------------------------------------
(* The pool of carriers *)

CarriersTypeOK ==
  /\ pool \subseteq Carriers
  /\ attributes \in [Carriers -> MessageTraces]
  /\ tracePc \in [Workers -> {"idle", "reset", "extract"}]
  /\ message \in [Workers -> MessageTraces]
  /\ carrier \in [Workers -> Carriers \cup {NoCarrier}]
  /\ read \in [Workers -> [Keys -> MessageTraces \cup {Unread}]]

(* A carrier in use is in nobody else's hands, and not in the pool.        *)
UsedAlone ==
  \A w \in Workers :
    /\ tracePc[w] = "idle" <=> carrier[w] = NoCarrier
    /\ carrier[w] \notin pool
    /\ \A v \in Workers : carrier[v] = carrier[w] => v = w \/ carrier[w] = NoCarrier

(* What has been read, and what is still to be read, is the own message's. *)
ReadsOwn(w) ==
  /\ tracePc[w] = "extract" => attributes[carrier[w]] = message[w]
  /\ \A key \in Keys :
       read[w][key] # Unread => tracePc[w] = "extract" /\ read[w][key] = message[w]

CarriersInv == CarriersTypeOK /\ UsedAlone /\ \A w \in Workers : ReadsOwn(w)

(* Initially no carrier is in use and nothing has been read.               *)
LEMMA InitCarriers == TraceInit => CarriersInv
BY TraceAssumption
   DEF TraceInit, CarriersInv, CarriersTypeOK, UsedAlone, ReadsOwn, MessageTraces, TraceAssumption

(* Every step keeps the types.                                             *)
LEMMA CarriersTypeStep ==
  ASSUME CarriersInv, [TraceNext]_traceVars
  PROVE  CarriersTypeOK'
<1> USE TraceAssumption DEF TraceAssumption, CarriersInv, CarriersTypeOK, MessageTraces
<1>1. CASE UNCHANGED traceVars
  BY <1>1 DEF traceVars
<1>2. ASSUME NEW w \in Workers, Reset(w) PROVE CarriersTypeOK'
  BY <1>2 DEF Reset, Goto, UsedAlone
<1>3. ASSUME NEW w \in Workers, PutCarrier(w) PROVE CarriersTypeOK'
  BY <1>3 DEF PutCarrier, Goto, UsedAlone
<1>4. ASSUME NEW w \in Workers, NEW key \in Keys, ReadKey(w, key) PROVE CarriersTypeOK'
  BY <1>4 DEF ReadKey, UsedAlone
<1>5. ASSUME NEW w \in Workers, NEW trace \in MessageTraces, NEW c \in Carriers,
             GetCarrier(w, trace, c)
      PROVE  CarriersTypeOK'
  BY <1>5 DEF GetCarrier, Goto
<1> QED
  BY <1>1, <1>2, <1>3, <1>4, <1>5 DEF TraceNext

(* Every step keeps the carriers apart.                                    *)
LEMMA AloneStep ==
  ASSUME CarriersInv, [TraceNext]_traceVars
  PROVE  UsedAlone'
<1> USE TraceAssumption DEF TraceAssumption, CarriersInv, CarriersTypeOK, UsedAlone
<1>1. CASE UNCHANGED traceVars
  BY <1>1 DEF traceVars
<1>2. ASSUME NEW w \in Workers, Reset(w) PROVE UsedAlone'
  BY <1>2 DEF Reset, Goto
<1>3. ASSUME NEW w \in Workers, PutCarrier(w) PROVE UsedAlone'
  BY <1>3 DEF PutCarrier, Goto
<1>4. ASSUME NEW w \in Workers, NEW key \in Keys, ReadKey(w, key) PROVE UsedAlone'
  BY <1>4 DEF ReadKey
<1>5. ASSUME NEW w \in Workers, NEW trace \in MessageTraces, NEW c \in Carriers,
             GetCarrier(w, trace, c)
      PROVE  UsedAlone'
  <2>1. \A v \in Workers : carrier[v] # c
    BY <1>5 DEF GetCarrier
  <2> QED
    BY <1>5, <2>1 DEF GetCarrier, Goto
<1> QED
  BY <1>1, <1>2, <1>3, <1>4, <1>5 DEF TraceNext

(* Every step keeps what each worker reads its own: a reset of one carrier *)
(* is not seen through another.                                            *)
LEMMA ReadStep ==
  ASSUME CarriersInv, [TraceNext]_traceVars, NEW v \in Workers
  PROVE  ReadsOwn(v)'
<1> USE TraceAssumption DEF TraceAssumption, CarriersInv, CarriersTypeOK, ReadsOwn
<1>1. CASE UNCHANGED traceVars
  BY <1>1 DEF traceVars
<1>2. ASSUME NEW w \in Workers, Reset(w) PROVE ReadsOwn(v)'
  <2>1. tracePc[w] = "reset" /\ carrier[w] \in Carriers
    BY <1>2 DEF Reset, Goto, UsedAlone
  <2>2. CASE v = w
    BY <1>2, <2>1, <2>2 DEF Reset, Goto
  <2>3. CASE v # w
    <3>1. tracePc[v] = "extract" => carrier[v] # carrier[w]
      BY <2>3 DEF UsedAlone
    <3> QED
      BY <1>2, <2>1, <2>3, <3>1 DEF Reset, Goto
  <2> QED
    BY <2>2, <2>3
<1>3. ASSUME NEW w \in Workers, PutCarrier(w) PROVE ReadsOwn(v)'
  BY <1>3 DEF PutCarrier, Goto
<1>4. ASSUME NEW w \in Workers, NEW key \in Keys, ReadKey(w, key) PROVE ReadsOwn(v)'
  BY <1>4 DEF ReadKey
<1>5. ASSUME NEW w \in Workers, NEW trace \in MessageTraces, NEW c \in Carriers,
             GetCarrier(w, trace, c)
      PROVE  ReadsOwn(v)'
  <2>1. tracePc[w] = "idle" /\ carrier[v] # c
    BY <1>5 DEF GetCarrier, Goto, UsedAlone
  <2> QED
    BY <1>5, <2>1 DEF GetCarrier, Goto
<1> QED
  BY <1>1, <1>2, <1>3, <1>4, <1>5 DEF TraceNext

LEMMA CarriersInvariant == TraceSpec => []CarriersInv
<1>1. CarriersInv /\ [TraceNext]_traceVars => CarriersInv'
  BY CarriersTypeStep, AloneStep, ReadStep DEF CarriersInv
<1> QED
  BY <1>1, InitCarriers, PTL DEF TraceSpec

(* The context a worker goes on with has the trace of its own message, for *)
(* any number of workers that share the pool.                              *)
THEOREM OwnTraceExtracted == TraceSpec => []OwnTrace
<1>1. CarriersInv => OwnTrace
  BY DEF CarriersInv, ReadsOwn, OwnTrace, Extracted
<1> QED
  BY <1>1, CarriersInvariant, PTL

-----------------------------------------------------------------------------
(* What is recorded *)

(* The names of metric_options.go with the kind each is recorded with.     *)
KnownUses ==
  { <<"processingDuration", "histogram">>, <<"acknowledgmentDuration", "histogram">>,
    <<"pollingDuration", "histogram">>, <<"pollingRequests", "counter">>,
    <<"messages", "counter">>, <<"messagesReceived", "gauge">>,
    <<"activeWorkers", "gauge">>, <<"bufferSize", "gauge">> }

AllRecords == ConsumeRecords \cup MessageRecords \cup PollRecords

LEMMA RecordsKnown ==
  \A records \in AllRecords : records \in Seq(KnownUses)
<1>1. /\ RecordTransform \in Seq(KnownUses) /\ RecordHandle \in Seq(KnownUses)
      /\ RecordAcknowledgment \in Seq(KnownUses) /\ RecordPolling \in Seq(KnownUses)
  BY DEF RecordTransform, RecordHandle, RecordAcknowledgment, RecordPolling, KnownUses
<1>2. ASSUME NEW n \in 0..MaxBatch PROVE RecordReceived(n) \in Seq(KnownUses)
  <2>1. <<<<"messagesReceived", "gauge">>>> \in Seq(KnownUses)
    BY DEF KnownUses
  <2>2. [i \in 1..n |-> <<"messages", "counter">>] \in Seq(KnownUses)
    <3>1. n \in Nat /\ <<"messages", "counter">> \in KnownUses
      BY DEF KnownUses
    <3> QED
      BY <3>1, IsASeq
  <2> QED
    BY <2>1, <2>2, ConcatProperties DEF RecordReceived
<1> HIDE DEF KnownUses
<1>3. \A s, t \in Seq(KnownUses) : s \o t \in Seq(KnownUses)
  BY ConcatProperties
<1>4. MessageRecords \subseteq Seq(KnownUses)
  <2>1. RecordTransform \o RecordHandle \in Seq(KnownUses)
    BY <1>1, <1>3
  <2>2. RecordTransform \o RecordHandle \o RecordAcknowledgment \in Seq(KnownUses)
    BY <1>1, <1>3, <2>1
  <2> QED
    BY <1>1, <2>2, Zenon DEF MessageRecords
<1>5. PollRecords \subseteq Seq(KnownUses)
  <2>1. \A n \in 0..MaxBatch : RecordPolling \o RecordReceived(n) \in Seq(KnownUses)
    BY <1>1, <1>2, <1>3
  <2> QED
    BY <1>1, <2>1, Zenon DEF PollRecords
<1>6. ConsumeRecords \subseteq Seq(KnownUses)
  BY DEF ConsumeRecords, RecordStarted, RecordStopped, KnownUses
<1> QED
  BY <1>4, <1>5, <1>6 DEF AllRecords

(* Each name is recorded with one kind only.                               *)
LEMMA NoClash == \A n \in Names : ~Clash(n)
<1>1. Uses \subseteq KnownUses
  <2> SUFFICES ASSUME NEW u \in Uses PROVE u \in KnownUses
    OBVIOUS
  <2>1. PICK records \in AllRecords : \E i \in DOMAIN records : u = records[i]
    BY ObservabilityAssumption DEF RecordedUses, AllRecords
  <2>2. records \in Seq(KnownUses)
    BY RecordsKnown
  <2> HIDE DEF KnownUses
  <2> QED
    BY <2>1, <2>2
<1>2. \A u, w \in KnownUses : u[1] = w[1] => u[2] = w[2]
  BY DEF KnownUses
<1> QED
  BY <1>1, <1>2 DEF Clash

(* A goroutine has only uses of the program still to record.               *)
TodoOK == todo \in [Callers -> Seq(Uses)]

LEMMA RecordsAreUses ==
  \A records \in AllRecords : records \in Seq(Uses)
<1> SUFFICES ASSUME NEW records \in AllRecords PROVE records \in Seq(Uses)
  OBVIOUS
<1>1. records \in Seq(KnownUses)
  BY RecordsKnown
<1>2. \A i \in DOMAIN records : records[i] \in Uses
  BY ObservabilityAssumption DEF RecordedUses, AllRecords
<1> HIDE DEF KnownUses
<1>3. Len(records) \in Nat /\ records = [i \in 1..Len(records) |-> records[i]]
      /\ DOMAIN records = 1..Len(records)
  BY <1>1
<1> QED
  BY <1>2, <1>3, IsASeq

LEMMA TodoStep ==
  ASSUME TodoOK, [Next]_vars
  PROVE  TodoOK'
<1> USE DEF TodoOK
<1>1. CASE UNCHANGED todo
  BY <1>1
<1>2. ASSUME NEW w \in Workers, Process(w) PROVE TodoOK'
  BY <1>2, RecordsAreUses DEF Process, AllRecords
<1>3. ASSUME NEW p \in Pollers, Poll(p) PROVE TodoOK'
  BY <1>3, RecordsAreUses DEF Poll, AllRecords
<1>4. ASSUME NEW c \in Callers, RecordNext(c) PROVE TodoOK'
  <2>1. todo[c] \in Seq(Uses) /\ todo[c] # <<>>
    BY <1>4 DEF RecordNext
  <2>2. Tail(todo[c]) \in Seq(Uses)
    BY <2>1, HeadTailProperties
  <2> QED
    BY <1>4, <2>2 DEF RecordNext
<1>5. ASSUME NEW m \in Consumers, StartConsume(m) \/ StopConsume(m) PROVE TodoOK'
  BY <1>5, RecordsAreUses DEF StartConsume, StopConsume, ConsumeRecords, AllRecords
<1> QED
  BY <1>1, <1>2, <1>3, <1>4, <1>5
  DEF Next, vars, Launch, StartMessage, ExtractTrace, UseInstrument

(* The two parts keep to their own specifications.                         *)
LEMMA InstrumentsStep ==
  ASSUME TodoOK, [Next]_vars
  PROVE  [InstrumentsNext]_instrumentVars
<1>1. CASE UNCHANGED instrumentVars
  BY <1>1
<1>2. ASSUME NEW c \in Callers, UseInstrument(c) PROVE InstrumentsNext
  BY <1>2 DEF UseInstrument, InstrumentsNext
<1>3. ASSUME NEW c \in Callers, RecordNext(c) PROVE InstrumentsNext
  <2>1. todo[c] \in Seq(Uses) /\ todo[c] # <<>>
    BY <1>3 DEF RecordNext, TodoOK
  <2>2. PICK u \in Uses : u = Head(todo[c])
    BY <2>1, HeadTailProperties
  <2>3. Record(c, u)
    BY <1>3, <2>2 DEF RecordNext
  <2> QED
    BY <2>3 DEF InstrumentsNext
<1> QED
  BY <1>1, <1>2, <1>3
  DEF Next, vars, StartConsume, Launch, StopConsume, StartMessage, ExtractTrace, Process, Poll

LEMMA CarriersStep == [Next]_vars => [TraceNext]_traceVars
BY DEF Next, vars, TraceNext, StartConsume, Launch, StopConsume, StartMessage, ExtractTrace,
   Process, Poll, RecordNext, UseInstrument

LEMMA PartsImplemented == Spec => InstrumentsSpec /\ TraceSpec
<1>1. Init => TodoOK
  BY EmptySeq DEF Init, TodoOK
<1>2. Init => InstrumentsInit /\ TraceInit
  BY DEF Init
<1> QED
  BY <1>1, <1>2, TodoStep, InstrumentsStep, CarriersStep, PTL DEF Spec, InstrumentsSpec, TraceSpec

(* In the consumer no type assertion of getOrCreateInstrument fails,       *)
(* whichever goroutine records a name first (metrics.go:105, 115).         *)
THEOREM NeverPanics == Spec => []NoPanic
<1>1. IInv => NoPanic
  <2> SUFFICES ASSUME IInv, NEW c \in Callers PROVE metricPc[c] # "panicked"
    BY DEF NoPanic, Alive
  <2>1. metricPc[c] = "panicked" => name(c) \in Names /\ Clash(name(c))
    BY UseParts DEF IInv, TypeOK, CallerInv, name
  <2> QED
    BY <2>1, NoClash
<1> QED
  BY <1>1, PartsImplemented, Invariant, PTL

(* So the cache makes one instrument for each name ...                     *)
THEOREM OneInstrumentEach == Spec => []OneInstrumentPerName
BY PartsImplemented, OneInstrument, PTL

(* ... and each message goes on with its own trace.                        *)
THEOREM OwnTraceKept == Spec => []OwnTrace
BY PartsImplemented, OwnTraceExtracted, PTL
=============================================================================
