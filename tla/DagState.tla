------------------------------ MODULE DagState ------------------------------
(***************************************************************************)
(* The view of the Autonomous Agent that the wallet shows to its users     *)
(* (dag_state.js).  Triggers of the agent arrive as units of the DAG; a    *)
(* withdrawal is registered as pending until the agent responds, and is    *)
(* subtracted from every balance shown in the meantime.  Every balance     *)
(* is read from the agent's state variables with awaits in between.        *)
(* Responses of the agent settle trades in the backend, once the database  *)
(* has the units of the trades.                                            *)
(*                                                                         *)
(* One asset is modelled: balances of different assets share nothing but   *)
(* the reading of the state variables.  A unit is its position in `units'. *)
(* A grant is a deposit; a revocation touches no balance and is left out.  *)
(* checkTrade is in Settlement; symbols and decimals of assets are left    *)
(* out.                                                                    *)
(***************************************************************************)
EXTENDS Integers, Sequences, FiniteSets, SequencesExt

CONSTANTS
    Users,        \* addresses, the operator's included
    Operator,
    NoAddress,    \* a trigger without data.to; also what no user is called
    All,          \* data.amount of a withdrawal of everything
    Absent,       \* no such state variable; `undefined' in the code
    NaN,          \* the outcome of arithmetic on `undefined'
    Default,      \* the balance shown for no state variable: 0 for bytes only
    NotShown,     \* the backend was told no balance since it was started
    FirstBalance, \* the balances at the start, from earlier deposits
    Requests,     \* what is requested of the agent; bound: each of them once
    MaxUnits,     \* bound: units
    MaxReads,     \* bound: reads of balances in progress when more are called for
    MaxCrashes    \* bound: crashes that the code does not cause itself

\* A deposit credits `to'; a withdrawal takes `amount' from `owner'; a trade
\* of matcher `from' moves `amount' from `owner' to `to'; an on-chain cancel
\* credits the owner of the order with the attached bytes less a fee.
RequestType ==
    [kind : {"deposit", "withdrawal", "trade", "cancel"},
     from : Users, owner : Users, to : Users \cup {NoAddress}, amount : Nat \cup {All}]

ASSUME DagStateAssumption ==
    /\ Operator \in Users
    /\ NoAddress \notin Users
    /\ {All, Absent, NaN, NotShown} \cap Int = {}
    /\ Cardinality({All, Absent, NaN, NotShown}) = 4
    /\ Default \in {0, Absent}
    /\ FirstBalance \in [Users -> Nat \cup {Absent}]
    /\ Requests \subseteq RequestType
    /\ \A r \in Requests :
          /\ r.kind # "withdrawal" => r.amount \in Nat
          /\ r.kind \in {"deposit", "trade"} => r.to \in Users
          /\ r.kind = "deposit" => r.owner = r.to
          /\ r.kind = "withdrawal" => r.owner \in {r.from, r.to}
    /\ {MaxUnits, MaxReads, MaxCrashes} \subseteq Nat

VARIABLES
    \* durable: the DAG with the agent's state, and the backend's database
    units,        \* the triggers, in the order in which they were saved
    balance,      \* var['balance_' || address || '_' || asset] of the agent
    executed,     \* units that the agent has responded to, in that order
    bounced,      \* those of them that it has bounced
    recorded,     \* trades whose unit the database has; their status is SUCCESS ...
    settled,      \* ... until the backend has recorded the response
    \* memory of the wallet process and of the backend it runs
    up,           \* both processes are running
    recovering,   \* updateTradeStatuses is reading the databases
    responses,    \* responses on their way to onAAResponse
    announced,    \* 'exchange_response' events on their way to the backend
    pending,      \* assocPendingWithdrawals, in the order of its keys
    resolving,    \* withdrawals whose symbol is being looked up
    validating,   \* on-chain cancels whose order is being validated
    reads,        \* calls of getBalances in progress
    shown,        \* last balances_update of each address
    overtaken,    \* ghost: addresses last shown what was not asked for last
    outrun,       \* ghost: withdrawals registered, if at all, after their response
    uninformed,   \* ghost: owners credited by a cancel, and no update called for since,
                  \* or none since the wallet learned that their request had bounced
    early,        \* ghost: trades executed before their unit was recorded (durable)
    crashes

durable == <<units, balance, executed, bounced, recorded, settled, early>>
process == <<up, recovering>>
handlers == <<resolving, validating, reads>>
ghosts == <<overtaken, outrun, uninformed>>
vars == <<durable, process, responses, announced, pending, handlers, shown, ghosts, crashes>>

Known(u) == u \in 1..Len(units)
Kind(u) == units[u].kind

\* The elements of s that are in S, in their order.
Filter(s, S) ==
    LET taken[n \in 0..Len(s)] ==
            IF n = 0 THEN <<>>
            ELSE IF s[n] \in S THEN Append(taken[n - 1], s[n]) ELSE taken[n - 1]
    IN  taken[Len(s)]

\* getBalances for an update of `address', or for the withdrawal in `unit'.
\* The state variables are read at some point between call and callback.
\* `late' is a ghost: a later call for the same address has come to its
\* callback before this one.
Update(address) ==
    [address |-> address, unit |-> 0, read |-> FALSE, value |-> Absent, late |-> FALSE]

Registration(u) == [Update(units[u].from) EXCEPT !.unit = u]

Updates(addresses) == [i \in 1..Len(addresses) |-> Update(addresses[i])]

\* Senders of bounced requests of which the wallet is still to learn
Refused == {units[u].from : u \in ToSet(responses) \cap bounced}

\* sendBalancesUpdate for each address of a list of updates
Call(updates) ==
    /\ reads' = reads \o updates
    /\ uninformed' = uninformed \ ({updates[i].address : i \in DOMAIN updates} \ Refused)

-----------------------------------------------------------------------------
(* Arithmetic of the code on balances that may be undefined *)

Minus(b, n) == IF b \in Int /\ n \in Int THEN b - n ELSE NaN
Below(b, n) == b \in Int /\ n \in Int /\ b < n

\* subtractPendingWithdrawals
Subtract_Negative(b, w) ==    \* mutant: "would be negative" is not ignored
    IF w.amount = All THEN 0 ELSE Minus(b, w.amount)

Subtract(b, w) ==
    CASE w.amount = All      -> 0
      [] Below(b, w.amount)  -> b
      [] OTHER               -> Minus(b, w.amount)

\* getBalances: of the value that was read, with what is pending by now
Displayed(address, value) ==
    LET after[n \in 0..Len(pending)] ==
            IF n = 0 THEN IF value = Absent THEN Default ELSE value
            ELSE LET w == units[pending[n]]
                 IN  IF w.from = address THEN Subtract(after[n - 1], w) ELSE after[n - 1]
    IN  after[Len(pending)]

Init ==
    /\ units = <<>>
    /\ balance = FirstBalance
    /\ executed = <<>>
    /\ bounced = {}
    /\ recorded = {}
    /\ settled = {}
    /\ up = TRUE
    /\ recovering = FALSE
    /\ responses = <<>>
    /\ announced = {}
    /\ pending = <<>>
    /\ resolving = {}
    /\ validating = {}
    /\ reads = <<>>
    /\ shown = [a \in Users |-> NotShown]
    /\ overtaken = {}
    /\ outrun = {}
    /\ uninformed = {}
    /\ early = {}
    /\ crashes = 0

-----------------------------------------------------------------------------
(* The process ends; the backend, its child, ends with it *)

Stop ==
    /\ up' = FALSE
    /\ recovering' = FALSE
    /\ responses' = <<>>
    /\ announced' = {}
    /\ pending' = <<>>
    /\ resolving' = {}
    /\ validating' = {}
    /\ reads' = <<>>
    /\ shown' = [a \in Users |-> NotShown]
    /\ overtaken' = {}
    /\ outrun' = {}
    /\ uninformed' = {}

Crash ==
    /\ up
    /\ crashes < MaxCrashes
    /\ crashes' = crashes + 1
    /\ Stop
    /\ UNCHANGED durable

Restart ==
    /\ ~up
    /\ up' = TRUE
    /\ recovering' = TRUE
    /\ UNCHANGED <<durable, responses, announced, pending, handlers, shown, ghosts, crashes>>

\* The queue's updateTrades and initQueue give the trade its unit.  A trade that
\* another matcher announces is settled at once if the agent has executed it.
Record(u) ==
    /\ up
    /\ Known(u) /\ Kind(u) = "trade"
    /\ u \notin recorded
    /\ recorded' = recorded \cup {u}
    /\ settled' = IF units[u].from # Operator /\ u \in ToSet(executed) \ bounced
                  THEN settled \cup {u} ELSE settled
    /\ UNCHANGED <<units, balance, executed, bounced, early, process, responses,
                   announced, pending, handlers, shown, ghosts, crashes>>

\* Trades with status SUCCESS that the agent has responded to.
Uncommitted == {u \in ToSet(executed) : u \in recorded \ settled}

Missed_Nothing == <<>>    \* mutant: updateTradeStatuses is not called

MissedResponses == Filter(executed, Uncommitted)

\* The responses to trades that the database has as sent but not as committed are
\* handled at once, those too whose event is still to come.
UpdateTradeStatuses ==
    /\ recovering
    /\ recovering' = FALSE
    /\ responses' = MissedResponses \o responses
    /\ UNCHANGED <<durable, up, announced, pending, handlers, shown, ghosts, crashes>>

-----------------------------------------------------------------------------
(* onSavedUnit *)

\* The first case of onSavedUnit takes every trigger with a valid data.to.
TakenForDeposit(r) ==
    \/ r.kind = "deposit"
    \/ r.kind = "withdrawal" /\ r.to # NoAddress

\* A unit arrives and is saved; up to the first await of onSavedUnit.
SavedUnit(r) ==
    /\ up
    /\ Len(units) < MaxUnits
    /\ r \notin ToSet(units)
    /\ units' = Append(units, r)
    /\ Call(IF TakenForDeposit(r) THEN <<Update(r.to)>> ELSE <<>>)
    /\ resolving' = IF r.kind = "withdrawal" /\ ~TakenForDeposit(r)
                    THEN resolving \cup {Len(units')} ELSE resolving
    /\ validating' = IF r.kind = "cancel" THEN validating \cup {Len(units')} ELSE validating
    /\ UNCHANGED <<balance, executed, bounced, recorded, settled, early, process, responses,
                   announced, pending, shown, overtaken, outrun, crashes>>

\* getSymbolByAsset returns, getBalances is called.
SymbolFound(u) ==
    /\ u \in resolving
    /\ resolving' = resolving \ {u}
    /\ reads' = Append(reads, Registration(u))
    /\ UNCHANGED <<durable, process, responses, announced, pending, validating, shown,
                   ghosts, crashes>>

\* The handler of on-chain cancels reads the variable `order', which it does
\* not declare: the exception ends the process.
CancelValidated(u) ==
    /\ u \in validating
    /\ Stop
    /\ UNCHANGED <<durable, crashes>>

-----------------------------------------------------------------------------
(* getBalances *)

ReadVars(i) ==
    /\ i \in 1..Len(reads)
    /\ ~reads[i].read
    /\ LET a == reads[i].address
       IN  reads' = [reads EXCEPT ![i].read = TRUE,
                                  ![i].value = IF a \in Users THEN balance[a] ELSE Absent]
    /\ UNCHANGED <<durable, process, responses, announced, pending, resolving, validating,
                   shown, ghosts, crashes>>

Overtake(i) ==
    [j \in 1..Len(reads) |->
        [reads[j] EXCEPT !.late = @ \/ (j < i /\ reads[j].address = reads[i].address)]]

Show(r, b) ==
    /\ shown' = IF r.address \in Users THEN [shown EXCEPT ![r.address] = b] ELSE shown
    /\ overtaken' = IF r.late THEN overtaken \cup {r.address} ELSE overtaken \ {r.address}

\* The callback in onSavedUnit.
Register(r, b) ==
    LET w    == units[r.unit]
        rest == Minus(b, IF w.amount = All THEN b ELSE w.amount)
    IN  IF Below(rest, 0)
        THEN UNCHANGED <<pending, shown, overtaken>>
        ELSE /\ pending' = Append(pending, r.unit)
             /\ Show(r, rest)

\* getBalances comes to its callback, with what is pending by then.
Answer(i) ==
    /\ i \in 1..Len(reads)
    /\ reads[i].read
    /\ reads' = RemoveAt(Overtake(i), i)
    /\ LET r == reads[i]
           b == Displayed(r.address, r.value)
       IN  IF r.unit # 0 THEN Register(r, b)
           ELSE Show(r, b) /\ UNCHANGED pending
    /\ UNCHANGED <<durable, process, responses, announced, resolving, validating, outrun,
                   uninformed, crashes>>

\* 'refresh_balances' for a user whose trade was sent or replicated, and is in
\* the database.
RefreshBalances(u, address) ==
    /\ up
    /\ u \in recorded
    /\ address \in {units[u].owner, units[u].to}
    /\ Len(reads) < MaxReads
    /\ Call(<<Update(address)>>)
    /\ UNCHANGED <<durable, process, responses, announced, pending, resolving, validating,
                   shown, overtaken, outrun, crashes>>

-----------------------------------------------------------------------------
(* The agent, and its responses *)

Amount(a) == IF balance[a] = Absent THEN 0 ELSE balance[a]

\* What a request takes from its owner; a deposit takes nothing.
Taken(r) ==
    CASE r.kind \in {"deposit", "cancel"} -> 0
      [] r.amount = All                   -> Amount(r.owner)
      [] OTHER                            -> r.amount

\* Whom a request credits, and with what; a withdrawal is paid out.
Receiver(r) == IF r.kind = "cancel" THEN r.owner ELSE r.to
Given(r) == IF r.kind = "withdrawal" THEN 0 ELSE r.amount

Accepted_Always(r) == TRUE    \* mutant: the balance is not compared

Accepted(r) == Taken(r) <= Amount(r.owner)

\* The addresses whose balance_ variable a request updates, and those of
\* them that onAAResponse sends updates for: it returns early from a cancel.
Touched(r) ==
    CASE r.kind = "deposit"    -> {r.to}
      [] r.kind = "withdrawal" -> {r.owner}
      [] r.kind = "trade"      -> {r.owner, r.to}
      [] r.kind = "cancel"     -> {r.owner}

Affected_Trigger(r) == {r.from} \ {Operator}    \* mutant: the sender only

Affected(r) == IF r.kind = "cancel" THEN {} ELSE Touched(r) \ {Operator}

\* The agent handles a unit that has become stable.  What it may refuse beside a
\* debit that is not covered (an order that has expired, a bad signature, coins
\* of two assets) is in DexAA; a withdrawal is only compared with the balance.
Execute(u, refused) ==
    /\ up
    /\ Known(u)
    /\ u \notin ToSet(executed)
    /\ executed' = Append(executed, u)
    /\ responses' = Append(responses, u)
    /\ early' = IF Kind(u) = "trade" /\ u \notin recorded THEN early \cup {u} ELSE early
    /\ LET r == units[u]
       IN  IF Accepted(r) /\ ~(refused /\ r.kind # "withdrawal")
           THEN /\ balance' = [a \in Users |->
                        IF a \in Touched(r)
                        THEN Amount(a) + (IF a = Receiver(r) THEN Given(r) ELSE 0)
                                       - (IF a = r.owner THEN Taken(r) ELSE 0)
                        ELSE balance[a]]
                /\ uninformed' = IF r.kind = "cancel" THEN uninformed \cup {r.owner}
                                 ELSE uninformed
                /\ UNCHANGED bounced
           ELSE bounced' = bounced \cup {u} /\ UNCHANGED <<balance, uninformed>>
    /\ UNCHANGED <<units, recorded, settled, process, announced, pending, handlers, shown,
                   overtaken, outrun, crashes>>

\* delete assocPendingWithdrawals[trigger_unit]
Forget_Accepted(u) ==    \* mutant: not for bounced requests
    IF u \in bounced THEN pending ELSE Filter(pending, ToSet(pending) \ {u})

Forget(u) == Filter(pending, ToSet(pending) \ {u})

\* sendBalancesUpdate is called with the trigger unit for an address.
Bounce(u) ==
    Call(IF units[u].from # Operator THEN <<Update(NoAddress)>> ELSE <<>>)

\* 'exchange_response'; what the backend makes of other bounces is left out.
ExchangeResponse(u) ==
    announced' = IF Kind(u) = "trade" THEN announced \cup {u} ELSE announced

\* "no addresses affected?"
NobodyAffected(r) ==
    /\ Affected(r) = {}
    /\ ~(r.from = Operator /\ r.kind \in {"deposit", "withdrawal"})

Registering(u) == u \in resolving \/ \E i \in 1..Len(reads) : reads[i].unit = u

Handle(u) ==
    /\ pending' = Forget(u)
    /\ outrun' = IF Registering(u) THEN outrun \cup {u} ELSE outrun
    /\ ExchangeResponse(u)
    /\ IF u \in bounced THEN Bounce(u)
       ELSE Call(Updates(SetToSeq(Affected(units[u]))))

OnAAResponse ==
    /\ responses # <<>>
    /\ Len(reads) <= MaxReads
    /\ LET u == Head(responses)
       IN  IF /\ u \notin bounced
              /\ Kind(u) # "cancel"
              /\ NobodyAffected(units[u])
           THEN Stop
           ELSE /\ Handle(u)
                /\ responses' = Tail(responses)
                /\ UNCHANGED <<process, resolving, validating, shown, overtaken>>
    /\ UNCHANGED <<durable, crashes>>

\* The backend records the response to a trade that the database has for the unit.
Commit(u) ==
    /\ u \in announced
    /\ announced' = announced \ {u}
    /\ settled' = IF u \in recorded \ bounced THEN settled \cup {u} ELSE settled
    /\ UNCHANGED <<units, balance, executed, bounced, recorded, early, process, responses,
                   pending, handlers, shown, ghosts, crashes>>

-----------------------------------------------------------------------------
Next ==
    \/ \E r \in Requests : SavedUnit(r)
    \/ \E u \in 1..MaxUnits :
          \/ SymbolFound(u)
          \/ CancelValidated(u)
          \/ \E refused \in BOOLEAN : Execute(u, refused)
          \/ Record(u)
          \/ Commit(u)
          \/ \E address \in Users : RefreshBalances(u, address)
    \/ \E i \in 1..Len(reads) : ReadVars(i)
    \/ \E i \in 1..Len(reads) : Answer(i)
    \/ OnAAResponse
    \/ Crash
    \/ Restart
    \/ UpdateTradeStatuses

Spec == Init /\ [][Next]_vars

\* Reads are answered, the process comes to the next response, the backend records what it is
\* told, and a process that has ended is started again.
Fairness ==
    /\ WF_vars(\E i \in 1..Len(reads) : ReadVars(i) \/ Answer(i))
    /\ WF_vars(OnAAResponse)
    /\ WF_vars(\E u \in 1..MaxUnits : Commit(u))
    /\ WF_vars(Restart \/ UpdateTradeStatuses)

FairSpec == Spec /\ Fairness

-----------------------------------------------------------------------------
(* Properties *)

ReadType ==
    [address : Users \cup {NoAddress}, unit : 0..MaxUnits, read : BOOLEAN,
     value : Nat \cup {Absent}, late : BOOLEAN]

TypeOK ==
    /\ units \in Seq(Requests) /\ Len(units) <= MaxUnits
    /\ balance \in [Users -> Nat \cup {Absent}]
    /\ executed \in Seq(1..Len(units))
    /\ bounced \subseteq ToSet(executed)
    /\ recorded \subseteq 1..Len(units)
    /\ settled \subseteq ToSet(executed)
    /\ up \in BOOLEAN /\ recovering \in BOOLEAN
    /\ responses \in Seq(ToSet(executed))
    /\ announced \subseteq ToSet(executed)
    /\ pending \in Seq(1..Len(units))
    /\ resolving \subseteq 1..Len(units)
    /\ validating \subseteq 1..Len(units)
    /\ reads \in Seq(ReadType)
    /\ shown \in [Users -> Int \cup {Absent, NaN, NotShown}]
    /\ overtaken \subseteq Users \cup {NoAddress}
    /\ outrun \subseteq 1..Len(units)
    /\ uninformed \subseteq Users
    /\ early \subseteq ToSet(executed)
    /\ crashes \in 0..MaxCrashes

\* Balances are read, and what is pending is subtracted, in different steps,
\* and several withdrawals of one user may be pending, one of which the agent
\* may bounce.  Still the backend is never told a balance below zero, or one
\* that is no number.  (dag_state.js:109-128, 497-504)
ShownIsAmount == \A a \in Users : shown[a] \in Nat \cup {Absent, NotShown}

\* A withdrawal is subtracted from the balances of its owner only while the
\* agent has not responded to it or the response is on its way.  The only
\* exception is a withdrawal whose response came before it was registered.
\* (dag_state.js:249, 503)
PendingInProgress ==
    \A u \in ToSet(pending) \ outrun : u \in ToSet(executed) => u \in ToSet(responses)

Quiet == up /\ ~recovering /\ resolving = {} /\ reads = <<>> /\ responses = <<>>

\* Once every callback has run, what the backend was last told of a user's
\* balance is the balance in the agent less what is pending, in whichever order
\* deposits, withdrawals, trades and their responses came, and though bounced
\* requests are reported for no address.  By PendingInProgress, what is pending is
\* the withdrawals in progress and those registered after their response, which
\* are subtracted for good.  The exceptions are the operator, whom no response is
\* reported for, an answer that an earlier call has given after a later one, and
\* the bytes that came with an on-chain cancel, which show only when something
\* else calls for an update, and if a request of that user has bounced, for one
\* after its response.  (dag_state.js:248-306, 262-265, 476-531)
QuietShown ==
    Quiet => \A a \in Users \ ({Operator} \cup overtaken \cup uninformed) :
                shown[a] \in {NotShown, Displayed(a, balance[a])}

\* "Some events might be missed if the daemon crashes" (dag_state.js:455): the
\* backend still records the response to every trade that the agent executed and
\* did not bounce, but for those executed before the database had their unit: the
\* backend finds no trade for the event, and after a crash the response is not
\* asked for.  (dag_state.js:254, 460)
TradesSettled ==
    \A u \in 1..MaxUnits :
        (u \in ToSet(executed) /\ Kind(u) = "trade" /\ u \notin bounced \cup early)
            ~> u \in settled
=============================================================================
