----------------------------- MODULE OrderLife -----------------------------
(***************************************************************************)
(* What the agent promises about orders, whatever packages carry them and  *)
(* whatever the prices and fees are: an order is a budget, used up by one  *)
(* match after the other; it ends executed or cancelled, and both are      *)
(* final.  DexAA implements this specification.                            *)
(***************************************************************************)
EXTENDS Integers

CONSTANTS
    Ids,     \* the orders
    Size     \* what the owner of each of them signed to sell

VARIABLES
    state,   \* of each order: open, executed or cancelled
    left     \* what it has still to sell

vars == <<state, left>>

Init ==
    /\ state = [id \in Ids |-> "open"]
    /\ left = [id \in Ids |-> Size[id]]

StateWith(amount) == IF amount = 0 THEN "executed" ELSE "open"

\* A match fills one of two open orders and takes from the other one what it has.
Match(full, other) ==
    /\ full # other
    /\ state[full] = "open" /\ state[other] = "open"
    /\ \E rest \in 0..left[other] :
          /\ left' = [left EXCEPT ![full] = 0, ![other] = rest]
          /\ state' = [state EXCEPT ![full] = "executed", ![other] = StateWith(rest)]

Cancel(id) ==
    /\ state[id] = "open"
    /\ state' = [state EXCEPT ![id] = "cancelled"]
    /\ UNCHANGED left

Next ==
    \/ \E full, other \in Ids : Match(full, other)
    \/ \E id \in Ids : Cancel(id)

Spec == Init /\ [][Next]_vars
============================================================================
