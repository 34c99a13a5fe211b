----------------------------- MODULE Settlement -----------------------------
(***************************************************************************)
(* How matched trades are settled: the trade queue sends them to the       *)
(* agent, the agent executes the units in the order of the DAG, and the    *)
(* wallet checks each response against the database (onAAResponse and      *)
(* checkTrade in dag_state.js) and passes it on to the backend, which      *)
(* marks the trade as COMMITTED.  A check that fails ends the process.     *)
(* After a restart the responses to trades that are not committed are      *)
(* handled again (updateTradeStatuses), while the queue is initialized.    *)
(*                                                                         *)
(* Every order has the same price, so that one amount stands for what both *)
(* sides of a trade exchange.                                              *)
(***************************************************************************)
EXTENDS TradeQueue

CONSTANTS
    Orders,     \* order hashes
    Size,       \* what each order sells
    Taker,      \* the taker order of each trade
    Maker       \* its maker order

ASSUME OrdersAssumption ==
    /\ Size \in [Orders -> Nat \ {0}]
    /\ Taker \in [Trades -> Orders]
    /\ Maker \in [Trades -> Orders]
    /\ \A t \in Trades : Taker[t] # Maker[t]

\* Trades are numbered without gaps.
ASSUME NumbersAssumption == Trades = 1..Cardinality(Trades)

VARIABLES
    left,         \* the agent's amount_left of each order
    responses,    \* its responses to units[1], units[2], ... (aa_responses)
    checks,       \* units of the calls of checkTrade in progress
    inbox,        \* units of 'exchange_response' events on their way to the backend
    catchup,      \* updateTradeStatuses: [pc, trades]
    overtaken,    \* ghost: trades that were executed before they were recorded
    disturbed,    \* ghost: orders of a trade that bounced, and of the later trades of these
    astray        \* ghost: trades of disturbed orders that the agent executed

memory == <<checks, inbox, catchup>>
ghosts == <<overtaken, disturbed, astray>>
settlement == <<left, responses, memory, ghosts>>
allVars == <<vars, settlement>>

MemoryLost ==
    /\ checks' = {}
    /\ inbox' = {}
    /\ catchup' = [pc |-> "down", trades |-> {}]

-----------------------------------------------------------------------------
(* What the backend matched *)

MinOf(m, n) == IF m < n THEN m ELSE n

\* The backend's matching engine: what its orders have left after the first n
\* trades, and what trade n exchanged.
Matched[n \in 0..Cardinality(Trades)] ==
    IF n = 0 THEN Size
    ELSE LET before == Matched[n - 1]
             amount == MinOf(before[Taker[n]], before[Maker[n]])
         IN  [before EXCEPT ![Taker[n]] = @ - amount, ![Maker[n]] = @ - amount]

\* trade.amount, and trade.remainingTakerSellAmount or remainingMakerSellAmount
Amount(t) == Matched[t - 1][Taker[t]] - Matched[t][Taker[t]]
RemainingAfter(t, o) == Matched[t][o]

\* order.remainingSellAmount in the database; the order is FILLED when it is 0
Remaining(o) == Matched[Cardinality({t \in Trades : status[t] # "NONE"})][o]

-----------------------------------------------------------------------------
(* The agent *)

Sides(t) == {Taker[t], Maker[t]}

\* The response to a trade.  It bounces when one of the orders was executed, and
\* when the agent refuses it: an order has expired, was cancelled, is not covered
\* by the owner's balance or not signed by somebody he granted the right to, the
\* prices do not match, a fee cannot be paid.  Of a bounced response nothing but
\* that it bounced is looked at.
Response(t, refused) ==
    LET amount == MinOf(left[Taker[t]], left[Maker[t]])
        after  == [o \in Sides(t) |-> left[o] - amount]
    IN  [bounced |-> refused \/ amount = 0, amount |-> amount,
         executed |-> {o \in Sides(t) : after[o] = 0},
         left |-> [o \in {s \in Sides(t) : after[s] # 0} |-> after[o]]]

\* onAAResponse, up to its first await: the backend is told, and the check of
\* a trade that was executed begins.
OnAAResponse(u, response) ==
    /\ inbox' = inbox \cup {u}
    /\ checks' = IF response.bounced THEN checks ELSE checks \cup {u}

\* The agent executes the next unit, once it is stable.  The node receives no
\* units until the queue is initialized: network.start comes later.
ExecuteUnit(u, refused) ==
    LET t == units[u]
        response == Response(t, refused)
        shared == Sides(t) \cap disturbed # {}
    IN  /\ responses' = Append(responses, response)
        /\ left' = IF response.bounced THEN left
                   ELSE [o \in Orders |->
                           IF o \in Sides(t) THEN left[o] - response.amount ELSE left[o]]
        /\ overtaken' = IF txHash[t] = u THEN overtaken ELSE overtaken \cup {t}
        /\ disturbed' = IF response.bounced \/ shared THEN disturbed \cup Sides(t)
                        ELSE disturbed
        /\ astray' = IF ~response.bounced /\ shared THEN astray \cup {t} ELSE astray
        /\ OnAAResponse(u, response)

AgentExecutes ==
    /\ Initialized
    /\ Len(responses) < Len(units)
    /\ \E refused \in BOOLEAN : ExecuteUnit(Len(responses) + 1, refused)
    /\ UNCHANGED <<vars, catchup>>

-----------------------------------------------------------------------------
(* checkTrade *)

TradesIn(u) == {t \in Trades : txHash[t] = u}

\* What it finds wrong first, if anything, with the response to unit u.
Verdict(u) ==
    LET response == responses[u]
        rest == response.left
    IN  CASE ~(Cardinality(response.executed) \in {1, 2} /\ Cardinality(DOMAIN rest) <= 1)
               -> "wrong number of orders"
          [] TradesIn(u) = {} -> "own trade not found"
          [] \E t \in TradesIn(u) : Amount(t) # response.amount -> "trade amount mismatch"
          [] \E o \in response.executed : Remaining(o) # 0 -> "executed order is not filled"
          [] \E o \in DOMAIN rest : Remaining(o) > rest[o] -> "amount left is too large in db"
          [] \E o \in DOMAIN rest, t \in TradesIn(u) :
                o \notin Sides(t) \/ RemainingAfter(t, o) # rest[o] -> "amount left mismatch"
          [] OTHER -> "ok"

\* The trade and its orders are read one after the other; in between, what the
\* orders have left in the database can only decrease.
CheckTrade(u) ==
    /\ Verdict(u) = "ok"
    /\ checks' = checks \ {u}
    /\ UNCHANGED <<vars, left, responses, inbox, catchup, ghosts>>

\* An exception in checkTrade is an unhandled rejection, which ends the process.
CheckThrows(u) ==
    /\ Verdict(u) # "ok"
    /\ Down
    /\ MemoryLost
    /\ UNCHANGED <<crashes, left, responses, ghosts>>

Check == \E u \in checks : CheckTrade(u) \/ CheckThrows(u)

-----------------------------------------------------------------------------
(* The backend, and the restart *)

BackendSettles_ByUnit(u) ==    \* mutant: a trade is settled by what its unit carries
    /\ inbox' = inbox \ {u}
    /\ status' = [status EXCEPT ![units[u]] = "COMMITTED"]
    /\ UNCHANGED <<txHash, units, stable, funds, events, backend, up, volatile, crashes,
                   left, responses, checks, catchup, ghosts>>

\* 'exchange_response': the trade that the database has for the unit is settled.
\* Each event is about a trade of its own, so that their order is left open.  A
\* trade that bounced stays as it is, and so do its orders.
BackendSettles(u) ==
    /\ inbox' = inbox \ {u}
    /\ status' = [t \in Trades |->
                    IF t \in TradesIn(u) /\ ~responses[u].bounced
                    THEN "COMMITTED" ELSE status[t]]
    /\ UNCHANGED <<txHash, units, stable, funds, events, backend, up, volatile, crashes,
                   left, responses, checks, catchup, ghosts>>

\* updateTradeStatuses: the trades that were sent but not settled ...
FindUncommitted ==
    /\ catchup.pc = "find"
    /\ catchup' = [pc |-> "query", trades |-> {t \in Trades : status[t] = "SUCCESS"}]
    /\ UNCHANGED <<vars, left, responses, checks, inbox, ghosts>>

HandleUncommitted_Skips ==    \* mutant: the responses are not handled again
    /\ catchup.pc = "query"
    /\ catchup' = [pc |-> "done", trades |-> {}]
    /\ UNCHANGED <<vars, left, responses, checks, inbox, ghosts>>

\* ... and the responses to them, all of which are handled at once.
HandleUncommitted ==
    /\ catchup.pc = "query"
    /\ LET rows == {txHash[t] : t \in catchup.trades} \cap DOMAIN responses
       IN  /\ inbox' = inbox \cup rows
           /\ checks' = checks \cup {u \in rows : ~responses[u].bounced}
    /\ catchup' = [pc |-> "done", trades |-> {}]
    /\ UNCHANGED <<vars, left, responses, ghosts>>

CrashAll ==
    /\ Crash
    /\ MemoryLost
    /\ UNCHANGED <<left, responses, ghosts>>

\* startWatching comes before trade_queue.start, and does not wait.
RestartAll ==
    /\ Restart
    /\ catchup' = [pc |-> "find", trades |-> {}]
    /\ UNCHANGED <<left, responses, checks, inbox, ghosts>>

-----------------------------------------------------------------------------

SettlementInit ==
    /\ Init
    /\ left = Size
    /\ responses = <<>>
    /\ checks = {}
    /\ inbox = {}
    /\ catchup = [pc |-> "find", trades |-> {}]
    /\ overtaken = {}
    /\ disturbed = {}
    /\ astray = {}

\* The steps of the trade queue that do not end or start the process.
QueueStep ==
    /\ \/ BackendCreate \/ BackendCall
       \/ \E w \in Workers : Work(w)
       \/ Execute \/ Resend \/ BecameStable \/ WithdrawalToOperator \/ Initialize
    /\ UNCHANGED settlement

CatchUp == FindUncommitted \/ HandleUncommitted

SettlementNext ==
    \/ QueueStep
    \/ AgentExecutes
    \/ Check
    \/ \E u \in inbox : BackendSettles(u)
    \/ CatchUp
    \/ CrashAll
    \/ RestartAll

SettlementSpec == SettlementInit /\ [][SettlementNext]_allVars

\* Beside the fairness of the queue: stable units are executed, and the handlers
\* and the backend come to their end.
SettlementFairness ==
    /\ \A w \in Workers : WF_allVars(Work(w) /\ UNCHANGED settlement)
    /\ WF_allVars(Execute /\ UNCHANGED settlement)
    /\ WF_allVars(Initialize /\ UNCHANGED settlement)
    /\ WF_allVars(RestartAll)
    /\ WF_allVars(AgentExecutes)
    /\ WF_allVars(Check)
    /\ WF_allVars(\E u \in inbox : BackendSettles(u))
    /\ WF_allVars(CatchUp)

FairSettlementSpec == SettlementSpec /\ SettlementFairness

-----------------------------------------------------------------------------
(* Properties *)

\* checkTrade finds the agent and the database at odds, and ends the process, in
\* two cases only, however trades are delayed, split and retried: the response is
\* to a trade that the queue has not recorded yet, or to one that shares an order
\* with a trade that bounced, or shares it with one that does.  In the latter case
\* the agent has more left of the order than the backend thinks.
ChecksAgree ==
    \A u \in checks :
        \/ Verdict(u) = "ok"
        \/ Verdict(u) = "own trade not found" /\ units[u] \in overtaken
        \/ units[u] \in astray

\* A trade is settled only if the agent executed it, in the unit that the
\* database names and for the amount that the backend matched.  The event reaches
\* the backend before the amount is checked, so that trades that went astray can
\* be settled for an amount of the agent's own.
CommittedAsMatched ==
    \A t \in Trades :
        status[t] = "COMMITTED" =>
            /\ txHash[t] \in DOMAIN responses
            /\ units[txHash[t]] = t
            /\ ~responses[txHash[t]].bounced
            /\ responses[txHash[t]].amount = Amount(t) \/ t \in astray

Bounced(t) == \E u \in DOMAIN responses : units[u] = t /\ responses[u].bounced

\* Every trade that was sent is settled, but for the one that the agent refused
\* and the one whose response was overtaken: the process then ends, and the
\* restart looks for trades to settle before the queue finds out that this one
\* was sent.  A crash alone loses no response.  Trades that went astray can end
\* the process over and over, as each restart handles their responses again.
SettledUnlessStopped ==
    \A t \in Trades :
        (status[t] = "SUCCESS" ~> \/ status[t] = "COMMITTED"
                                  \/ Bounced(t)
                                  \/ t \in overtaken)
        \/ <>[](\E s \in astray : status[s] # "COMMITTED")
=============================================================================
