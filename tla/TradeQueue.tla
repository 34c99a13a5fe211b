----------------------------- MODULE TradeQueue -----------------------------
(***************************************************************************)
(* The trade queue of the DEX wallet (trade_queue.js).  The backend        *)
(* records matched trades as PENDING in MongoDB and hands them over with   *)
(* executeTrade.  The wallet posts one unit per trade to the DAG, records  *)
(* the unit in MongoDB and announces the trade to the other matchers.      *)
(* What cannot be posted waits in a queue in memory, which is retried when *)
(* the wallet's funds change and rebuilt from MongoDB after a restart.     *)
(*                                                                         *)
(* One action is what the node process does between two awaits.  A batch   *)
(* (`matches' in the code) is a taker order with several maker orders; it  *)
(* is modelled by the sequence of its trades.  Trades are numbered in the  *)
(* order in which the backend creates them.                                *)
(***************************************************************************)
EXTENDS Integers, Sequences, FiniteSets, SequencesExt

CONSTANTS
    Batches,      \* the batches that the backend creates, in order
    Patient,      \* the backend calls only a ready wallet, without delay
    MaxFunds,     \* bound: payments that the operator's bytes can pay for
    MaxWaiting,   \* bound: retries that wait for the lock
    MaxCrashes    \* bound: crashes of the wallet process

Trades == UNION {ToSet(Batches[i]) : i \in 1..Len(Batches)}

\* Trades in the order of their numbers, and trades that are older than others
Ascending(s) == \A i, j \in 1..Len(s) : i < j => s[i] < s[j]
Older(S, T) == \A s \in S, t \in T : s < t

ASSUME BatchesAssumption ==
    /\ Batches \in Seq(Seq(Nat \ {0}))
    /\ \A i \in 1..Len(Batches) : Batches[i] # <<>>
    /\ \A i \in 1..Len(Batches) : Ascending(Batches[i])
    /\ \A i, j \in 1..Len(Batches) : i < j => Older(ToSet(Batches[i]), ToSet(Batches[j]))
    /\ Patient \in BOOLEAN
    /\ {MaxFunds, MaxWaiting, MaxCrashes} \subseteq Nat

VARIABLES
    \* durable: MongoDB, the DAG, the operator's funds, what peers received
    status,       \* trades.status
    txHash,       \* trades.txHash: the position of a unit on the DAG, or 0
    units,        \* the trade that each posted unit carries
    stable,       \* how many of them have become stable
    funds,        \* how many payments the operator can still make
    events,       \* announced 'trade' events: sequences of [trade, status]
    \* the backend
    created,      \* how many batches it has created
    toCall,       \* batches that it has created but not handed over yet
    \* memory of the wallet process
    up,           \* the process is running
    init,         \* progress of initQueue: [pc, todo]
    queue,        \* arrQueuedTrades
    calls,        \* batches in executeTrade that wait for the lock 'trade'
    job,          \* sendTradeTx and updateTrades, by executeTrade and by a retry
    retryLock,    \* mutex resendQueuedTradesUnderLock is held
    waiting,      \* retries that wait for it
    crashes

durable == <<status, txHash, units, stable, funds, events>>
backend == <<created, toCall>>
volatile == <<init, queue, calls, job, retryLock, waiting>>
vars == <<durable, backend, up, volatile, crashes>>

Workers == {"execute", "resend"}
Idle == [pc |-> "idle", matches |-> <<>>, sent |-> <<>>, updated |-> 0]
Sending(matches) == [Idle EXCEPT !.pc = "send", !.matches = matches]

\* bInitializedQueue
Initialized == up /\ init.pc = "done"

Init ==
    /\ status = [t \in Trades |-> "NONE"]
    /\ txHash = [t \in Trades |-> 0]
    /\ units = <<>>
    /\ stable = 0
    /\ funds \in 0..MaxFunds
    /\ events = <<>>
    /\ created = 0
    /\ toCall = <<>>
    /\ up = TRUE
    /\ init = [pc |-> "load", todo |-> <<>>]
    /\ queue = <<>>
    /\ calls = <<>>
    /\ job = [w \in Workers |-> Idle]
    /\ retryLock = FALSE
    /\ waiting = 0
    /\ crashes = 0

-----------------------------------------------------------------------------
(* The backend: creates PENDING trades, then calls executeTrade *)

BackendCreate ==
    /\ created < Len(Batches)
    /\ created' = created + 1
    /\ status' = [t \in Trades |->
                    IF t \in ToSet(Batches[created + 1]) THEN "PENDING" ELSE status[t]]
    /\ IF Patient
       THEN /\ Initialized
            /\ calls' = Append(calls, Batches[created + 1])
            /\ UNCHANGED toCall
       ELSE /\ toCall' = Append(toCall, Batches[created + 1])
            /\ UNCHANGED calls
    /\ UNCHANGED <<txHash, units, stable, funds, events, up, init, queue, job, retryLock,
                   waiting, crashes>>

\* rpc.start comes before trade_queue.start: a call may find the queue not
\* initialized yet.  A call to a process that is down fails.
BackendCall ==
    /\ toCall # <<>>
    /\ toCall' = Tail(toCall)
    /\ calls' = IF up THEN Append(calls, Head(toCall)) ELSE calls
    /\ UNCHANGED <<durable, created, up, init, queue, job, retryLock, waiting, crashes>>

-----------------------------------------------------------------------------
(* sendTradeTx and updateTrades, which both workers go through *)

SendOne_IgnoresError(w) ==    \* mutant: `if (err)' is missing
    /\ job[w].pc = "send"
    /\ LET j == job[w]
           sent == Append(j.sent, Len(units) + 1)
       IN  /\ units' = Append(units, j.matches[Len(j.sent) + 1])
           /\ job' = [job EXCEPT ![w].sent = sent,
                                 ![w].pc = IF Len(sent) = Len(j.matches)
                                           THEN "update" ELSE "send"]
    /\ funds' = funds - 1
    /\ UNCHANGED <<status, txHash, stable, events, backend, up, init, queue, calls,
                   retryLock, waiting, crashes>>

\* sendMultiPayment succeeds: the unit is on the DAG.
SendOne(w) ==
    /\ job[w].pc = "send"
    /\ funds > 0
    /\ LET j == job[w]
           sent == Append(j.sent, Len(units) + 1)
       IN  /\ units' = Append(units, j.matches[Len(j.sent) + 1])
           /\ job' = [job EXCEPT ![w].sent = sent,
                                 ![w].pc = IF Len(sent) = Len(j.matches)
                                           THEN "update" ELSE "send"]
    /\ funds' = funds - 1
    /\ UNCHANGED <<status, txHash, stable, events, backend, up, init, queue, calls,
                   retryLock, waiting, crashes>>

\* sendMultiPayment fails and async.eachSeries stops at the first error.  What
\* was sent before is recorded; when nothing was, see the two workers.
SendFails(w) == job[w].pc = "send" /\ funds = 0

SendFailsLater(w) ==
    /\ SendFails(w)
    /\ job[w].sent # <<>>
    /\ job' = [job EXCEPT ![w].pc = "update"]
    /\ UNCHANGED <<durable, backend, up, init, queue, calls, retryLock, waiting, crashes>>

UpdateOne_FirstUnit(w) ==    \* mutant: arrTriggerUnits[0] for arrTriggerUnits[i]
    /\ job[w].pc = "update"
    /\ job[w].updated < Len(job[w].sent)
    /\ LET i == job[w].updated + 1
           t == job[w].matches[i]
       IN  /\ status' = [status EXCEPT ![t] = "SUCCESS"]
           /\ txHash' = [txHash EXCEPT ![t] = job[w].sent[1]]
           /\ job' = [job EXCEPT ![w].updated = i]
    /\ UNCHANGED <<units, stable, funds, events, backend, up, init, queue, calls, retryLock,
                   waiting, crashes>>

UpdateOne(w) ==
    /\ job[w].pc = "update"
    /\ job[w].updated < Len(job[w].sent)
    /\ LET i == job[w].updated + 1
           t == job[w].matches[i]
       IN  /\ status' = [status EXCEPT ![t] = "SUCCESS"]
           /\ txHash' = [txHash EXCEPT ![t] = job[w].sent[i]]
           /\ job' = [job EXCEPT ![w].updated = i]
    /\ UNCHANGED <<units, stable, funds, events, backend, up, init, queue, calls, retryLock,
                   waiting, crashes>>

Updated(w) == job[w].pc = "update" /\ job[w].updated = Len(job[w].sent)

Successful_All(j) == j.matches    \* mutant: what was not sent is announced too

\* getSuccessfulMatches, and the rest that is to be sent later
Successful(j) == SubSeq(j.matches, 1, Len(j.sent))

Unsent(j) == SubSeq(j.matches, Len(j.sent) + 1, Len(j.matches))

\* createAndBroadcastEvent('trade', ...) with the trades as they are in memory
Announce(trades, st) ==
    IF trades = <<>> THEN events
    ELSE Append(events, [i \in 1..Len(trades) |-> [trade |-> trades[i], status |-> st]])

-----------------------------------------------------------------------------
(* executeTrade, under the mutex 'trade' *)

\* The lock is granted; doExecuteTrade waits for 'initialized_trade_queue'.
TakeCall ==
    /\ job["execute"].pc = "idle"
    /\ calls # <<>>
    /\ job' = [job EXCEPT !["execute"] = [Idle EXCEPT !.pc = "wait", !.matches = Head(calls)]]
    /\ calls' = Tail(calls)
    /\ UNCHANGED <<durable, backend, up, init, queue, retryLock, waiting, crashes>>

\* Earlier trades need to be sent first: the batch joins the queue.
ExecuteBehindQueue ==
    /\ job["execute"].pc = "wait"
    /\ Initialized
    /\ queue # <<>>
    /\ queue' = Append(queue, job["execute"].matches)
    /\ job' = [job EXCEPT !["execute"] = Idle]
    /\ UNCHANGED <<durable, backend, up, init, calls, retryLock, waiting, crashes>>

ExecuteNow_Ahead ==    \* mutant: arrQueuedTrades.length is not looked at
    /\ job["execute"].pc = "wait"
    /\ Initialized
    /\ job' = [job EXCEPT !["execute"].pc = "send"]
    /\ UNCHANGED <<durable, backend, up, init, queue, calls, retryLock, waiting, crashes>>

ExecuteNow ==
    /\ job["execute"].pc = "wait"
    /\ Initialized
    /\ queue = <<>>
    /\ job' = [job EXCEPT !["execute"].pc = "send"]
    /\ UNCHANGED <<durable, backend, up, init, queue, calls, retryLock, waiting, crashes>>

ExecuteNothing_Drops ==    \* mutant: an unsent batch is not queued
    /\ SendFails("execute")
    /\ job["execute"].sent = <<>>
    /\ job' = [job EXCEPT !["execute"] = Idle]
    /\ UNCHANGED <<durable, backend, up, init, queue, calls, retryLock, waiting, crashes>>

ExecuteNothing_KeepsLock ==    \* mutant: an error is returned without unlock()
    /\ SendFails("execute")
    /\ job["execute"].sent = <<>>
    /\ queue' = Append(queue, job["execute"].matches)
    /\ job' = [job EXCEPT !["execute"].pc = "locked"]
    /\ UNCHANGED <<durable, backend, up, init, calls, retryLock, waiting, crashes>>

\* Nothing was sent: the whole batch joins the queue.
ExecuteNothing ==
    /\ SendFails("execute")
    /\ job["execute"].sent = <<>>
    /\ queue' = Append(queue, job["execute"].matches)
    /\ job' = [job EXCEPT !["execute"] = Idle]
    /\ UNCHANGED <<durable, backend, up, init, calls, retryLock, waiting, crashes>>

ExecuteDone_DropsRest ==    \* mutant: the unsent rest is not queued
    /\ Updated("execute")
    /\ events' = Announce(Successful(job["execute"]), "SUCCESS")
    /\ job' = [job EXCEPT !["execute"] = Idle]
    /\ UNCHANGED <<status, txHash, units, stable, funds, backend, up, init, queue, calls,
                   retryLock, waiting, crashes>>

ExecuteDone_OnlyWhole ==    \* mutant: a part of a batch is not announced
    /\ Updated("execute")
    /\ LET j == job["execute"]
       IN  /\ queue' = IF Unsent(j) = <<>> THEN queue ELSE Append(queue, Unsent(j))
           /\ events' = IF Unsent(j) = <<>> THEN Announce(j.matches, "SUCCESS") ELSE events
    /\ job' = [job EXCEPT !["execute"] = Idle]
    /\ UNCHANGED <<status, txHash, units, stable, funds, backend, up, init, calls, retryLock,
                   waiting, crashes>>

\* What was not sent joins the queue, what was sent is announced.
ExecuteDone ==
    /\ Updated("execute")
    /\ LET j == job["execute"]
       IN  /\ queue' = IF Unsent(j) = <<>> THEN queue ELSE Append(queue, Unsent(j))
           /\ events' = Announce(Successful(j), "SUCCESS")
    /\ job' = [job EXCEPT !["execute"] = Idle]
    /\ UNCHANGED <<status, txHash, units, stable, funds, backend, up, init, calls, retryLock,
                   waiting, crashes>>

-----------------------------------------------------------------------------
(* resendQueuedTrades, under the mutex resendQueuedTradesUnderLock *)

\* With the lock granted: an empty queue releases it at once.
BeginRetry ==
    /\ retryLock' = (queue # <<>>)
    /\ job' = IF queue = <<>> THEN job
              ELSE [job EXCEPT !["resend"] = Sending(Head(queue))]

\* mutex.lock calls resendQueuedTrades now, or makes it wait.
Retry ==
    IF retryLock
    THEN /\ waiting' = IF waiting < MaxWaiting THEN waiting + 1 ELSE waiting
         /\ UNCHANGED <<retryLock, job>>
    ELSE BeginRetry /\ UNCHANGED waiting

\* 'my_transactions_became_stable', with every unit that has by now
BecameStable ==
    /\ Initialized
    /\ stable < Len(units)
    /\ stable' = Len(units)
    /\ Retry
    /\ UNCHANGED <<status, txHash, units, funds, events, backend, up, init, queue, calls,
                   crashes>>

\* 'withdrawal_to_operator': the operator can pay for one more unit.
WithdrawalToOperator ==
    /\ Initialized
    /\ funds < MaxFunds
    /\ funds' = funds + 1
    /\ Retry
    /\ UNCHANGED <<status, txHash, units, stable, events, backend, up, init, queue, calls,
                   crashes>>

\* A retry that waited for the lock gets it.
NextRetry ==
    /\ up
    /\ ~retryLock
    /\ waiting > 0
    /\ waiting' = waiting - 1
    /\ BeginRetry
    /\ UNCHANGED <<durable, backend, up, init, queue, calls, crashes>>

\* Nothing could be sent: onDone releases the lock.
ResendNothing ==
    /\ SendFails("resend")
    /\ job["resend"].sent = <<>>
    /\ job' = [job EXCEPT !["resend"] = Idle]
    /\ retryLock' = FALSE
    /\ UNCHANGED <<durable, backend, up, init, queue, calls, waiting, crashes>>

\* Some of the head was sent, then an error: the head keeps the rest.  The
\* function returns without calling onDone, so the lock stays held.
ResendPart ==
    /\ Updated("resend")
    /\ LET j == job["resend"]
       IN  /\ Unsent(j) # <<>>
           /\ queue' = [queue EXCEPT ![1] = Unsent(j)]
           /\ events' = Announce(Successful(j), "SUCCESS")
    /\ job' = [job EXCEPT !["resend"] = Idle]
    /\ UNCHANGED <<status, txHash, units, stable, funds, backend, up, init, calls, retryLock,
                   waiting, crashes>>

\* All of the head was sent: go to the next batch.  When there is none the
\* function returns without calling onDone, and the lock stays held.
ResendAll ==
    /\ Updated("resend")
    /\ LET j == job["resend"]
       IN  /\ Unsent(j) = <<>>
           /\ events' = Announce(Successful(j), "SUCCESS")
    /\ queue' = Tail(queue)
    /\ job' = [job EXCEPT !["resend"] = IF Tail(queue) = <<>> THEN Idle
                                        ELSE Sending(Head(Tail(queue)))]
    /\ UNCHANGED <<status, txHash, units, stable, funds, backend, up, init, calls, retryLock,
                   waiting, crashes>>

-----------------------------------------------------------------------------
(* initQueue, and a crash *)

\* The (one) sequence of the elements of S in ascending order.
Sorted(S) ==
    {s \in [1..Cardinality(S) -> S] :
        ToSet(s) = S /\ \A i, j \in DOMAIN s : i < j => s[i] < s[j]}

\* find({ status: "PENDING" }).sort({ createdAt: 1, _id: 1 })
InitLoad ==
    /\ up
    /\ init.pc = "load"
    /\ \E todo \in Sorted({t \in Trades : status[t] = "PENDING"}) :
          init' = [pc |-> "check", todo |-> todo]
    /\ UNCHANGED <<durable, backend, up, queue, calls, job, retryLock, waiting, crashes>>

\* SELECT unit ... WHERE payload_hash=?: the units that carry the trade.
UnitsOf(t) == {u \in DOMAIN units : units[u] = t}

\* Not on the DAG: to be sent again.
InitQueue ==
    /\ up
    /\ init.pc = "check"
    /\ init.todo # <<>>
    /\ UnitsOf(Head(init.todo)) = {}
    /\ queue' = Append(queue, <<Head(init.todo)>>)
    /\ init' = [init EXCEPT !.todo = Tail(@)]
    /\ UNCHANGED <<durable, backend, up, calls, job, retryLock, waiting, crashes>>

\* Already sent when the daemon crashed: its entry is updated ...
InitAlreadySent ==
    /\ up
    /\ init.pc = "check"
    /\ init.todo # <<>>
    /\ LET t == Head(init.todo)
       IN  \E u \in UnitsOf(t) :
              /\ status' = [status EXCEPT ![t] = "SUCCESS"]
              /\ txHash' = [txHash EXCEPT ![t] = u]
    /\ init' = [init EXCEPT !.pc = "announce"]
    /\ UNCHANGED <<units, stable, funds, events, backend, up, queue, calls, job, retryLock,
                   waiting, crashes>>

\* ... and it is announced, as it was read from MongoDB before the update.
InitAnnounce ==
    /\ up
    /\ init.pc = "announce"
    /\ events' = Announce(<<Head(init.todo)>>, "PENDING")
    /\ init' = [pc |-> "check", todo |-> Tail(init.todo)]
    /\ UNCHANGED <<status, txHash, units, stable, funds, backend, up, queue, calls, job,
                   retryLock, waiting, crashes>>

\* 'initialized_trade_queue'; start() then retries what was loaded.
InitDone ==
    /\ up
    /\ init.pc = "check"
    /\ init.todo = <<>>
    /\ init' = [init EXCEPT !.pc = "done"]
    /\ BeginRetry
    /\ UNCHANGED <<durable, backend, up, queue, calls, waiting, crashes>>

\* The process ends: what is in its memory is lost.
Down ==
    /\ up
    /\ up' = FALSE
    /\ init' = [pc |-> "load", todo |-> <<>>]
    /\ queue' = <<>>
    /\ calls' = <<>>
    /\ job' = [w \in Workers |-> Idle]
    /\ retryLock' = FALSE
    /\ waiting' = 0
    /\ UNCHANGED <<durable, backend>>

Crash ==
    /\ crashes < MaxCrashes
    /\ crashes' = crashes + 1
    /\ Down

Restart ==
    /\ ~up
    /\ up' = TRUE
    /\ UNCHANGED <<durable, backend, volatile, crashes>>

Work(w) == SendOne(w) \/ SendFailsLater(w) \/ UpdateOne(w)
Execute == TakeCall \/ ExecuteBehindQueue \/ ExecuteNow \/ ExecuteNothing \/ ExecuteDone
Resend == NextRetry \/ ResendNothing \/ ResendPart \/ ResendAll
Initialize == InitLoad \/ InitQueue \/ InitAlreadySent \/ InitAnnounce \/ InitDone

Next ==
    \/ BackendCreate
    \/ BackendCall
    \/ \E w \in Workers : Work(w)
    \/ Execute
    \/ Resend
    \/ BecameStable
    \/ WithdrawalToOperator
    \/ Initialize
    \/ Crash
    \/ Restart

Spec == Init /\ [][Next]_vars

\* The process runs on and units become stable.  Nobody is taken to refill the
\* operator: a wallet that has run dry cannot pay for its own withdrawal request.
Fairness ==
    /\ \A w \in Workers : WF_vars(Work(w))
    /\ WF_vars(Execute)
    /\ WF_vars(Resend)
    /\ WF_vars(Initialize)
    /\ WF_vars(Restart)
    /\ WF_vars(BackendCall)
    /\ WF_vars(BecameStable)

FairSpec == Spec /\ Fairness

-----------------------------------------------------------------------------
(* Properties *)

TypeOK ==
    /\ status \in [Trades -> {"NONE", "PENDING", "SUCCESS"}]
    /\ txHash \in [Trades -> Nat]
    /\ units \in Seq(Trades)
    /\ stable \in 0..Len(units)
    /\ funds \in 0..MaxFunds
    /\ events \in Seq(Seq([trade : Trades, status : {"PENDING", "SUCCESS"}]))
    /\ created \in 0..Len(Batches)
    /\ toCall \in Seq(Seq(Trades))
    /\ up \in BOOLEAN
    /\ init \in [pc : {"load", "check", "announce", "done"}, todo : Seq(Trades)]
    /\ queue \in Seq(Seq(Trades))
    /\ calls \in Seq(Seq(Trades))
    /\ job \in [Workers -> [pc : {"idle", "wait", "send", "update"}, matches : Seq(Trades),
                            sent : Seq(Nat), updated : Nat]]
    /\ retryLock \in BOOLEAN
    /\ waiting \in 0..MaxWaiting
    /\ crashes \in 0..MaxCrashes

\* No trade is sent to the agent twice ("make sure the trade was not already
\* sent"), across retries, partly failed batches and restarts.
NoDuplicateSend == IsInjective(units)

Sends == INSTANCE Delivery WITH delivered <- units

\* What reaches the agent is always the sequence of the matched trades up to some
\* point: none twice, none missing, none ahead of an earlier one.
ImplementsDelivery == Sends!Spec

\* A trade that the database calls sent is on the DAG, in the very unit that
\* the database names.
SuccessIsOnDag ==
    \A t \in Trades :
        status[t] = "SUCCESS" => txHash[t] \in DOMAIN units /\ units[txHash[t]] = t

\* The memory of the process holds t, to be sent or being handled.
Tracked(t) ==
    \/ \E i \in DOMAIN queue : t \in ToSet(queue[i])
    \/ \E i \in DOMAIN calls : t \in ToSet(calls[i])
    \/ \E i \in DOMAIN toCall : t \in ToSet(toCall[i])
    \/ \E w \in Workers : t \in ToSet(job[w].matches)

\* No pending trade is forgotten: once the queue is initialized, a trade that
\* is not settled in the database is still somewhere on its way.
NoLostTrade ==
    Initialized => \A t \in Trades : status[t] = "PENDING" => Tracked(t)

\* The places of a trade in what was announced
Announcements(t) ==
    {p \in UNION {{i} \X DOMAIN events[i] : i \in DOMAIN events} :
        events[p[1]][p[2]].trade = t}

\* Peers hear of a trade at most once, and only after it was sent.  They hear of
\* it as it was before (PENDING, which they refuse) only after a crash.
AnnouncedOnceAfterSending ==
    \A t \in Trades :
        /\ \A p, q \in Announcements(t) : p = q
        /\ Announcements(t) # {} => t \in ToSet(units)
        /\ crashes = 0 => \A p \in Announcements(t) : events[p[1]][p[2]].status = "SUCCESS"

\* Unless the process crashes, peers have heard of every trade that was sent as
\* soon as both workers are idle.
AllAnnounced ==
    crashes = 0 /\ (\A w \in Workers : job[w].pc \in {"idle", "wait"}) =>
        \A t \in ToSet(units) : Announcements(t) # {}

\* The lock of the retries is held, but no retry is running.
LockLeaked == retryLock /\ job["resend"].pc = "idle"

\* The queue could be sent, but the events that would retry it have passed: they
\* came while executeTrade was still recording the first part of a batch.
Unwoken == queue # <<>> /\ ~retryLock /\ funds > 0 /\ stable = Len(units)

Queued(t) == \E i \in DOMAIN queue : t \in ToSet(queue[i])

\* Every matched trade reaches the agent, unless it stays in the queue for ever
\* because the lock of the retries has leaked, nobody retries, or the operator's
\* wallet stays dry.
SentUnlessStuck ==
    \A t \in Trades :
        \/ status[t] = "PENDING" ~> t \in ToSet(units)
        \/ <>[](Queued(t) /\ LockLeaked)
        \/ <>[](Queued(t) /\ Unwoken)
        \/ <>[](Queued(t) /\ funds = 0)

\* Every executeTrade call is answered: the mutex 'trade' is always released,
\* also when the wallet runs dry in the middle of a batch.
CallsAnswered == []<>(calls = <<>> /\ job["execute"].pc = "idle")
=============================================================================
