---------------------------- MODULE TraceCarriers ----------------------------
(***************************************************************************)
(* ExtractTraceContext (consumer/observability/context.go): workers share  *)
(* a sync.Pool of carriers, each of which keeps the attributes of the last *)
(* message it was reset to.  The propagator reads the carrier key by key.  *)
(* A message carries the trace its producer has put into its attributes,   *)
(* or none.                                                                *)
(***************************************************************************)
EXTENDS Naturals

CONSTANTS
  Workers,    (* the goroutines of the processor                           *)
  Carriers,   (* as many as may be needed: one for each worker             *)
  NoCarrier,  (* the worker is not in ExtractTraceContext                  *)
  Traces,     (* trace contexts of producers                               *)
  NoTrace,    (* no trace attributes in the message, or in the context     *)
  Unread      (* the propagator has not asked for the key yet              *)

ASSUME TraceAssumption ==
  /\ NoCarrier \notin Carriers
  /\ NoTrace \notin Traces /\ Unread \notin Traces /\ Unread # NoTrace

Keys == {"traceparent", "baggage"}

VARIABLES
  pool,         (* carriers in the pool                                    *)
  attributes,   (* whose attributes each carrier has                       *)
  tracePc,      (* where each worker is in ExtractTraceContext             *)
  message,      (* the trace of the message each worker has                *)
  carrier,      (* the carrier each worker uses                            *)
  read          (* what the propagator has read for each key               *)

traceVars == <<pool, attributes, tracePc, message, carrier, read>>

Goto(w, from, to) ==
  /\ tracePc[w] = from
  /\ tracePc' = [tracePc EXCEPT ![w] = to]

(* What processMessage may find in the attributes: the example's producer  *)
(* injects its trace, others need not.                                     *)
MessageTraces == Traces \cup {NoTrace}

(* A message comes and a carrier is taken: one of the pool, which may be   *)
(* any, or a new one.                                                      *)
GetCarrier(w, trace, c) ==
  /\ Goto(w, "idle", "reset")
  /\ c \in pool \/ \A v \in Workers : carrier[v] # c
  /\ message' = [message EXCEPT ![w] = trace]
  /\ carrier' = [carrier EXCEPT ![w] = c]
  /\ pool' = pool \ {c}
  /\ attributes' = IF c \in pool THEN attributes ELSE [attributes EXCEPT ![c] = NoTrace]
  /\ UNCHANGED read

(* Mutant: the carrier is put back without a defer, before it is read.     *)
ResetAndPut(w) ==
  /\ Goto(w, "reset", "extract")
  /\ attributes' = [attributes EXCEPT ![carrier[w]] = message[w]]
  /\ pool' = pool \cup {carrier[w]}
  /\ UNCHANGED <<message, carrier, read>>

Reset(w) ==
  /\ Goto(w, "reset", "extract")
  /\ attributes' = [attributes EXCEPT ![carrier[w]] = message[w]]
  /\ UNCHANGED <<pool, message, carrier, read>>

(* Get of the carrier, for one key of the propagator.                      *)
ReadKey(w, key) ==
  /\ tracePc[w] = "extract"
  /\ read[w][key] = Unread
  /\ read' = [read EXCEPT ![w][key] = attributes[carrier[w]]]
  /\ UNCHANGED <<pool, attributes, tracePc, message, carrier>>

Extracted(w) == tracePc[w] = "extract" /\ \A key \in Keys : read[w][key] # Unread

(* Extract is done and the deferred Put gives the carrier back, with the   *)
(* attributes still in it.                                                 *)
PutCarrier(w) ==
  /\ Extracted(w)
  /\ Goto(w, "extract", "idle")
  /\ pool' = pool \cup {carrier[w]}
  /\ message' = [message EXCEPT ![w] = NoTrace]
  /\ carrier' = [carrier EXCEPT ![w] = NoCarrier]
  /\ read' = [read EXCEPT ![w] = [key \in Keys |-> Unread]]
  /\ UNCHANGED attributes

TraceInit ==
  /\ pool = {}
  /\ attributes = [c \in Carriers |-> NoTrace]
  /\ tracePc = [w \in Workers |-> "idle"]
  /\ message = [w \in Workers |-> NoTrace]
  /\ carrier = [w \in Workers |-> NoCarrier]
  /\ read = [w \in Workers |-> [key \in Keys |-> Unread]]

TraceNext ==
  \E w \in Workers :
    \/ Reset(w)
    \/ PutCarrier(w)
    \/ \E key \in Keys : ReadKey(w, key)
    \/ \E trace \in MessageTraces, c \in Carriers : GetCarrier(w, trace, c)

TraceSpec == TraceInit /\ [][TraceNext]_traceVars

-----------------------------------------------------------------------------
(* Properties *)

(* The context a worker goes on with has the trace of its own message, or  *)
(* none if that has none, whatever the carrier held and whoever uses the   *)
(* pool at the same time.                                                  *)
OwnTrace ==
  \A w \in Workers :
    Extracted(w) => \A key \in Keys : read[w][key] = message[w]
=============================================================================
