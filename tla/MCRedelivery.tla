---------------------------- MODULE MCRedelivery ----------------------------
(* Redelivery for TLC: stacks in which every middleware stands on either    *)
(* side of a time limit, and receive counts before each limit that matters. *)
EXTENDS Redelivery

StackOf(outer, limited, inner) == [outer |-> outer, limited |-> limited, inner |-> inner]

SomeStacks == {
  StackOf(<<>>, FALSE, <<>>),
  StackOf(<<"panicRecover">>, TRUE, <<"adapted">>),
  StackOf(<<"timeTracking">>, FALSE, <<"panicRecover">>),
  StackOf(<<>>, TRUE, <<"panicRecover">>),
  StackOf(<<"ignoreErrors", "panicRecover">>, TRUE, <<>>),
  StackOf(<<>>, TRUE, <<"ignoreErrors", "replacing">>) }

(* Before the delay passes the two seconds, before SQS refuses it and      *)
(* before it overflows.                                                    *)
SomeCounts == {4, 18, 36}
=============================================================================
