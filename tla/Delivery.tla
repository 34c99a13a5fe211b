------------------------------ MODULE Delivery ------------------------------
(***************************************************************************)
(* What the trade queue promises its backend: the matched trades reach the *)
(* agent in the order in which they were matched, each of them once and    *)
(* none of them before an earlier one.  TradeQueue implements this         *)
(* specification when the backend calls a ready wallet only.               *)
(***************************************************************************)
EXTENDS Naturals, Sequences

CONSTANT Batches     \* the batches of trades that the backend creates, in order

VARIABLES
    created,     \* how many batches it has created
    delivered    \* the trades that the agent was sent

vars == <<created, delivered>>

Init ==
    /\ created = 0
    /\ delivered = <<>>

\* The trades of the first n batches, one after the other.
Matched[n \in 0..Len(Batches)] ==
    IF n = 0 THEN <<>> ELSE Matched[n - 1] \o Batches[n]

Create ==
    /\ created < Len(Batches)
    /\ created' = created + 1
    /\ UNCHANGED delivered

Deliver ==
    /\ Len(delivered) < Len(Matched[created])
    /\ delivered' = Append(delivered, Matched[created][Len(delivered) + 1])
    /\ UNCHANGED created

Next == Create \/ Deliver

Spec == Init /\ [][Next]_vars
=============================================================================
