----------------------------- MODULE MCDagState -----------------------------
(* A small instance of DagState for TLC. *)
EXTENDS DagState

CONSTANTS u1, u2, op

MCUsers == {u1, u2, op}

\* u1 has had a deposit, u2 has not.
MCFirstBalance == u1 :> 2 @@ u2 :> Absent @@ op :> 1

Request(kind, from, owner, to, amount) ==
    [kind |-> kind, from |-> from, owner |-> owner, to |-> to, amount |-> amount]

\* u1 deposits for u2 and withdraws a part; u2 withdraws everything on behalf of u1;
\* the operator sends a trade; u2 cancels an order.
MCRequests ==
    {Request("deposit", u1, u2, u2, 1),
     Request("withdrawal", u1, u1, NoAddress, 1),
     Request("withdrawal", u2, u1, u1, All),
     Request("trade", op, u1, u2, 1),
     Request("cancel", u2, u2, NoAddress, 1)}

\* For an asset whose balance has no default: u2 withdraws what it does not have,
\* the operator withdraws everything.
MCWithdrawals ==
    {Request("withdrawal", u2, u2, NoAddress, 1),
     Request("withdrawal", op, op, NoAddress, All)}
=============================================================================
