-------------------------- MODULE MCOrderBookSync --------------------------
(* A small instance of OrderBookSync for TLC. *)
EXTENDS OrderBookSync

CONSTANTS big, small, third

\* The first taker fills half of the maker's order, the second the rest.
Three == {big, small, third}
Sizes == [o \in Three |-> IF o = big THEN 2 ELSE 1]
Matches == {<<small, big>>, <<big, small>>, <<third, big>>}
Rounded == {<<big, small>>}
Bad == {third}
============================================================================
