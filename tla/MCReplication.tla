--------------------------- MODULE MCReplication ---------------------------
(* Small instances of Replication for TLC. *)
EXTENDS Replication

CONSTANTS a, b, c

Two == {a, b}
Pair == {{a, b}}
Three == {a, b, c}
Line == {{a, b}, {b, c}}
OnlyA == {a}
OnlyB == {b}
Nobody == {}

CancelOrder == <<"cancel", "order">>
AllKinds == <<"order", "trade", "cancel">>

\* The trade is of a pair that b does not know, the cancel is broken for c.
BadBoth == {<<b, 2>>, <<c, 3>>}
AllPaired == {}

\* a refuses the cancel and has no pair for the order, if it is b that sends them.
BadCancel == {<<a, 1>>}
NoPairAtA == {<<a, 2>>}
============================================================================
