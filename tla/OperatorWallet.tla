--------------------------- MODULE OperatorWallet ---------------------------
(***************************************************************************)
(* The operator's own money (operator_wallet.js).  Every trade that the    *)
(* wallet sends carries a payment to the agent, which credits it to the    *)
(* operator's balance there.  checkBalance brings it back: it runs at the  *)
(* start, every ten minutes and after some of the trades, asks for the     *)
(* wallet's balance, then for the balance on the exchange (which is shown  *)
(* without what is being withdrawn, dag_state.js), and withdraws all of    *)
(* it.  Checks may overlap, and each of their answers may be stale when it *)
(* is used.  Money is counted in payments of MIN_BYTES_BOUNCE_FEE.         *)
(***************************************************************************)
EXTENDS Integers, Sequences

CONSTANTS
    MinForRefill,     \* conf.MIN_BALANCE_FOR_REFILL
    NotifyBelow,      \* conf.MIN_BALANCE_FOR_NOTIFICATION
    MinToWithdraw,    \* 50000
    MaxMoney,         \* bound: what the operator owns at the start
    MaxTopUps,        \* bound: payments by the admin
    MaxChecks,        \* bound: checks that overlap
    MaxCrashes        \* bound: crashes of the process

ASSUME WalletAssumption ==
    /\ {MinForRefill, NotifyBelow, MinToWithdraw} \subseteq Nat \ {0}
    /\ {MaxMoney, MaxTopUps, MaxCrashes} \subseteq Nat
    /\ MaxChecks \in Nat \ {0}
    /\ MinToWithdraw <= NotifyBelow

VARIABLES
    wallet,       \* what the operator's address can pay
    exchange,     \* its balance in the agent
    trades,       \* trades sent that the agent has not executed yet
    requests,     \* withdrawals sent that it has not executed yet: how onSavedUnit
                  \* sees each of them: new, pending, or missed in a crash
    up,           \* the process is running
    timer,        \* setInterval is set
    checks,       \* how many checks wait for: outputs, exchange, or to withdraw
    late,         \* withdrawals executed, of which onSavedUnit is still to learn
    outrun,       \* a withdrawal became pending after it was executed
    told,         \* the admin was notified since money came in
    topUps, crashes

memory == <<timer, checks, late, outrun>>
money == <<wallet, exchange, trades, requests>>
vars == <<money, up, memory, told, topUps, crashes>>

Steps == {"outputs", "exchange", "withdraw"}
NoChecks == [s \in Steps |-> 0]
Running == checks["outputs"] + checks["exchange"] + checks["withdraw"]

From(s, n) == [n EXCEPT ![s] = @ - 1]
To(s, n) == [n EXCEPT ![s] = @ + 1]

Init ==
    /\ wallet \in 0..MaxMoney
    /\ exchange \in 0..(MaxMoney - wallet)
    /\ trades = 0
    /\ requests = <<>>
    /\ up = TRUE
    /\ timer = FALSE
    /\ checks = To("outputs", NoChecks)     \* start()
    /\ late = 0
    /\ outrun = FALSE
    /\ told = FALSE
    /\ topUps = 0
    /\ crashes = 0

-----------------------------------------------------------------------------
(* checkBalance *)

\* A check has ended; start() sets the timer when the first one has.
Ended(s) ==
    /\ checks' = From(s, checks)
    /\ timer' = TRUE

\* By the timer, or after a trade was sent.
BeginCheck ==
    /\ up
    /\ timer
    /\ Running < MaxChecks
    /\ checks' = To("outputs", checks)
    /\ UNCHANGED <<money, up, timer, late, outrun, told, topUps, crashes>>

ReadOutputsBalance_AtLeast ==    \* mutant: >= for >
    /\ checks["outputs"] > 0
    /\ IF wallet >= MinForRefill THEN Ended("outputs")
       ELSE /\ checks' = To("exchange", From("outputs", checks))
            /\ UNCHANGED timer
    /\ UNCHANGED <<money, up, late, outrun, told, topUps, crashes>>

ReadOutputsBalance ==
    /\ checks["outputs"] > 0
    /\ IF wallet > MinForRefill THEN Ended("outputs")
       ELSE /\ checks' = To("exchange", From("outputs", checks))
            /\ UNCHANGED timer
    /\ UNCHANGED <<money, up, late, outrun, told, topUps, crashes>>

\* assocPendingWithdrawals has a withdrawal by the operator.
HasPending == outrun \/ \E i \in DOMAIN requests : requests[i] = "pending"

\* getBalances: a pending withdrawal of `all' leaves nothing.
ExchangeBalance == IF HasPending THEN 0 ELSE exchange

GetBalance_NoNotice ==    \* mutant: notifyAdmin comes after the return
    /\ checks["exchange"] > 0
    /\ UNCHANGED told
    /\ IF ExchangeBalance < MinToWithdraw THEN Ended("exchange")
       ELSE /\ checks' = To("withdraw", From("exchange", checks))
            /\ UNCHANGED timer
    /\ UNCHANGED <<money, up, late, outrun, topUps, crashes>>

GetBalance ==
    /\ checks["exchange"] > 0
    /\ told' = (told \/ ExchangeBalance < NotifyBelow)
    /\ IF ExchangeBalance < MinToWithdraw THEN Ended("exchange")
       ELSE /\ checks' = To("withdraw", From("exchange", checks))
            /\ UNCHANGED timer
    /\ UNCHANGED <<money, up, late, outrun, topUps, crashes>>

Withdraw_Unpaid ==    \* mutant: the request is sent without its payment being secured
    /\ checks["withdraw"] > 0
    /\ Ended("withdraw")
    /\ wallet' = wallet - 1
    /\ requests' = Append(requests, "new")
    /\ UNCHANGED <<exchange, trades, up, late, outrun, told, topUps, crashes>>

\* The request itself needs a payment.  A failure is logged, and no more.
Withdraw ==
    /\ checks["withdraw"] > 0
    /\ Ended("withdraw")
    /\ IF wallet > 0
       THEN /\ wallet' = wallet - 1
            /\ requests' = Append(requests, "new")
       ELSE UNCHANGED <<wallet, requests>>
    /\ UNCHANGED <<exchange, trades, up, late, outrun, told, topUps, crashes>>

-----------------------------------------------------------------------------
(* dag_state.js: what is pending *)

\* onSavedUnit: getBalances has returned, the withdrawal is pending.
RegisterRequest(i) ==
    /\ requests[i] = "new"
    /\ requests' = [requests EXCEPT ![i] = "pending"]
    /\ UNCHANGED <<wallet, exchange, trades, up, memory, told, topUps, crashes>>

\* The same, when the agent has executed it already: nothing removes it again.
RegisterLate ==
    /\ late > 0
    /\ late' = late - 1
    /\ outrun' = TRUE
    /\ UNCHANGED <<money, up, timer, checks, told, topUps, crashes>>

\* The agent pays all of the balance out; onAAResponse deletes what is pending.
AgentPays ==
    /\ up
    /\ requests # <<>>
    /\ wallet' = wallet + exchange
    /\ exchange' = 0
    /\ told' = FALSE
    /\ requests' = Tail(requests)
    /\ late' = IF Head(requests) = "new" THEN late + 1 ELSE late
    /\ UNCHANGED <<trades, up, timer, checks, outrun, topUps, crashes>>

-----------------------------------------------------------------------------
(* The surroundings: trades, the admin, crashes *)

\* sendTradeTx
SendTrade ==
    /\ up
    /\ wallet > 0
    /\ wallet' = wallet - 1
    /\ trades' = trades + 1
    /\ UNCHANGED <<exchange, requests, up, memory, told, topUps, crashes>>

\* The agent credits the payment to the matcher.  Matcher fees, which come on
\* top, are left out: money that starts on the exchange stands for them.
AgentTrades ==
    /\ up
    /\ trades > 0
    /\ trades' = trades - 1
    /\ exchange' = exchange + 1
    /\ UNCHANGED <<wallet, requests, up, memory, told, topUps, crashes>>

TopUp ==
    /\ topUps < MaxTopUps
    /\ topUps' = topUps + 1
    /\ wallet' = wallet + 1
    /\ told' = FALSE
    /\ UNCHANGED <<exchange, trades, requests, up, memory, crashes>>

Crash ==
    /\ up
    /\ crashes < MaxCrashes
    /\ crashes' = crashes + 1
    /\ up' = FALSE
    /\ timer' = FALSE
    /\ checks' = NoChecks
    /\ late' = 0
    /\ outrun' = FALSE
    /\ requests' = [i \in DOMAIN requests |-> "missed"]
    /\ UNCHANGED <<wallet, exchange, trades, told, topUps>>

Restart ==
    /\ ~up
    /\ up' = TRUE
    /\ checks' = To("outputs", NoChecks)
    /\ UNCHANGED <<money, timer, late, outrun, told, topUps, crashes>>

Check == ReadOutputsBalance \/ GetBalance \/ Withdraw

Next ==
    \/ BeginCheck
    \/ Check
    \/ \E i \in DOMAIN requests : RegisterRequest(i)
    \/ RegisterLate
    \/ AgentPays
    \/ SendTrade
    \/ AgentTrades
    \/ TopUp
    \/ Crash
    \/ Restart

Spec == Init /\ [][Next]_vars

\* The timer runs, its checks come to their end, the agent executes what is
\* stable, and the process is restarted.  Nobody has to send trades or money.
Fairness ==
    /\ WF_vars(BeginCheck)
    /\ WF_vars(ReadOutputsBalance)
    /\ WF_vars(GetBalance)
    /\ WF_vars(Withdraw)
    /\ WF_vars(AgentPays)
    /\ WF_vars(AgentTrades)
    /\ WF_vars(Restart)

FairSpec == Spec /\ Fairness

-----------------------------------------------------------------------------
(* Properties *)

TypeOK ==
    /\ {wallet, exchange, trades, late} \subseteq Nat
    /\ requests \in Seq({"new", "pending", "missed"})
    /\ {up, timer, outrun, told} \subseteq BOOLEAN
    /\ checks \in [Steps -> Nat]
    /\ Running <= MaxChecks
    /\ topUps \in 0..MaxTopUps
    /\ crashes \in 0..MaxCrashes

Low == wallet <= MinForRefill
Dry == wallet = 0

\* A wallet that runs low is refilled from the exchange, except when it cannot
\* even pay for the request, or when a withdrawal that was executed before it
\* became pending hides the balance on the exchange for good.
RefilledWhenLow ==
    (Low /\ exchange >= MinToWithdraw) ~>
        \/ ~Low
        \/ exchange < MinToWithdraw
        \/ Dry
        \/ outrun

\* A wallet that has run dry stops all trading.  The admin hears of it, unless
\* there is enough on the exchange: the request that would fetch it fails, and
\* nobody is told.
ToldWhenDry == Dry ~> (~Dry \/ told \/ exchange >= NotifyBelow)
=============================================================================
