---------------------------- MODULE MCSettlement ----------------------------
(* A small instance of Settlement for TLC. *)
EXTENDS Settlement

\* Taker t matches the whole of a and a part of b, in one batch: in the other
\* order t would be filled by b alone.
MCBatches == <<<<1, 2>>>>
MCOrders == {"t", "a", "b"}
MCSize == [t |-> 3, a |-> 1, b |-> 3]
MCTaker == <<"t", "t">>
MCMaker == <<"a", "b">>
============================================================================
