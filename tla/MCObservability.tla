-------------------------- MODULE MCObservability --------------------------
(* Observability for TLC: two small groups that meet on one thing each,    *)
(* the instruments or the pool of carriers, instead of all goroutines at   *)
(* once.  The others of a behaviour never take a step.                     *)
EXTENDS Observability, FiniteSets, TLC

VARIABLE active   (* the goroutines, carriers and traces of the group       *)

Members == <<Workers, Pollers, Consumers, Carriers, Traces>>

(* How many of each kind: the first call of Consume is joined by one that  *)
(* is refused or comes after it, or starts two workers that share the pool.*)
GroupSizes == {<<1, 1, 2, 1, 0>>, <<2, 0, 1, 2, 1>>}

Groups ==
  {group \in SUBSET (Callers \cup Carriers \cup Traces) :
     [i \in DOMAIN Members |-> Cardinality(group \cap Members[i])] \in GroupSizes}

Untouched(c) == todo'[c] = todo[c] /\ metricPc'[c] = metricPc[c]

GroupInit == Init /\ active \in Groups

GroupNext ==
  /\ Next
  /\ \A c \in Callers \ active : Untouched(c)
  /\ \A m \in Consumers \ active : consumePc'[m] = consumePc[m]
  /\ \A w \in Workers \ active : tracePc'[w] = tracePc[w]
  /\ \A w \in Workers : /\ carrier'[w] \in active \cup {NoCarrier}
                        /\ message'[w] \in active \cup {NoTrace}
  /\ UNCHANGED active

GroupSpec == GroupInit /\ [][GroupNext]_<<vars, active>>

Symmetry == Permutations(Workers) \cup Permutations(Carriers) \cup Permutations(Consumers)
=============================================================================
