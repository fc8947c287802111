----------------------------- MODULE Instruments -----------------------------
(***************************************************************************)
(* The cache of metric instruments (consumer/observability/metrics.go):    *)
(* getOrCreateInstrument, called by Counter, Gauge and Histogram of any    *)
(* goroutine.  The sync.Map holds for a name nothing, a sync.Once or, in   *)
(* the Once's place, the result of the factory, whose type is that of the  *)
(* instrument's kind.  Only the one Once stored for a name is ever run.    *)
(***************************************************************************)
EXTENDS Naturals, FiniteSets

CONSTANTS
  Callers,   (* goroutines that record metrics                             *)
  Uses       (* the pairs <<name, kind>> the program records               *)

Kinds == {"counter", "gauge", "histogram"}
Names == {u[1] : u \in Uses}

ASSUME InstrumentsAssumption ==
  \A u \in Uses : u = <<u[1], u[2]>> /\ u[2] \in Kinds

VARIABLES
  instruments,   (* of each name: "absent", "once" or a kind: its result   *)
  once,          (* of each name: "unused", "running" or "done"            *)
  created,       (* calls of a factory for each name                       *)
  metricPc,      (* where each caller is in getOrCreateInstrument          *)
  use            (* what it records, or NoUse                              *)

instrumentVars == <<instruments, once, created, metricPc, use>>

NoUse == <<"none", "none">>

name(c) == use[c][1]
kind(c) == use[c][2]

Step(c, from, to) ==
  /\ metricPc[c] = from
  /\ metricPc' = [metricPc EXCEPT ![c] = to]

(* Counter, Gauge, Histogram or RecordDuration is called.                  *)
Record(c, u) ==
  /\ Step(c, "idle", "loadOrStore")
  /\ use' = [use EXCEPT ![c] = u]
  /\ UNCHANGED <<instruments, once, created>>

(* What the type assertions do with a result of the kind that was loaded.  *)
Use(c, from, loaded) ==
  Step(c, from, IF loaded = kind(c) THEN "recorded" ELSE "panicked")

(* LoadOrStore: the first caller of a name leaves its Once there; the map  *)
(* may hold a result already; the assertions on one of another kind fail. *)
LoadOrStore(c) ==
  /\ metricPc[c] = "loadOrStore"
  /\ IF instruments[name(c)] \in {"absent", "once"}
        THEN /\ Step(c, "loadOrStore", "do")
             /\ instruments' = [instruments EXCEPT ![name(c)] = "once"]
        ELSE /\ Use(c, "loadOrStore", instruments[name(c)])
             /\ UNCHANGED instruments
  /\ UNCHANGED <<once, created, use>>

(* Mutant: everybody who has the Once runs the function.                   *)
DoByEveryone(c) ==
  /\ Step(c, "do", "factory")
  /\ once' = [once EXCEPT ![name(c)] = "running"]
  /\ UNCHANGED <<instruments, created, use>>

(* Once.Do: one caller runs the function, the others wait for its end.     *)
Do(c) ==
  /\ \/ /\ Step(c, "do", "factory")
        /\ once[name(c)] = "unused"
        /\ once' = [once EXCEPT ![name(c)] = "running"]
     \/ /\ Step(c, "do", "load")
        /\ once[name(c)] = "done"
        /\ UNCHANGED once
  /\ UNCHANGED <<instruments, created, use>>

(* The factory makes the instrument, or an error of the same result type,  *)
(* and the result takes the place of the Once.                             *)
Create(c) ==
  /\ Step(c, "factory", "leave")
  /\ created' = [created EXCEPT ![name(c)] = @ + 1]
  /\ instruments' = [instruments EXCEPT ![name(c)] = kind(c)]
  /\ UNCHANGED <<once, use>>

Leave(c) ==
  /\ Step(c, "leave", "load")
  /\ once' = [once EXCEPT ![name(c)] = "done"]
  /\ UNCHANGED <<instruments, created, use>>

(* Load, and the assertion that is meant to be safe.                       *)
Load(c) ==
  /\ Use(c, "load", instruments[name(c)])
  /\ UNCHANGED <<instruments, once, created, use>>

(* The value is added to the instrument, or the error handed to otel.      *)
Recorded(c) ==
  /\ Step(c, "recorded", "idle")
  /\ use' = [use EXCEPT ![c] = NoUse]
  /\ UNCHANGED <<instruments, once, created>>

GetOrCreate(c) ==
  LoadOrStore(c) \/ Do(c) \/ Create(c) \/ Leave(c) \/ Load(c) \/ Recorded(c)

InstrumentsInit ==
  /\ instruments = [n \in Names |-> "absent"]
  /\ once = [n \in Names |-> "unused"]
  /\ created = [n \in Names |-> 0]
  /\ metricPc = [c \in Callers |-> "idle"]
  /\ use = [c \in Callers |-> NoUse]

InstrumentsNext == \E c \in Callers : GetOrCreate(c) \/ \E u \in Uses : Record(c, u)

InstrumentsSpec == InstrumentsInit /\ [][InstrumentsNext]_instrumentVars

-----------------------------------------------------------------------------
(* Properties *)

(* Concurrent first uses of a name make one instrument, before anybody     *)
(* records to it, and later uses find that one.                            *)
OneInstrumentPerName ==
  \A n \in Names :
    /\ created[n] <= 1
    /\ \A c \in Callers : metricPc[c] = "recorded" /\ name(c) = n => created[n] = 1

Clash(n) == \E u, w \in Uses : u[1] = n /\ w[1] = n /\ u[2] # w[2]

(* The unchecked type assertions (metrics.go:105, 115) fail only for a     *)
(* name that is recorded with two kinds of instruments: no interleaving of *)
(* first uses gets there by itself.                                        *)
NoFailedAssertion ==
  \A c \in Callers : metricPc[c] = "panicked" => Clash(name(c))
=============================================================================
