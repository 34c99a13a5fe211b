-------------------------- MODULE Settlement_proofs --------------------------
(***************************************************************************)
(* How trades are settled, for any batches, orders, funds and number of    *)
(* crashes, whatever trades the agent refuses, and a backend that calls a  *)
(* ready wallet only: a trade is committed as it was matched, and the      *)
(* process is ended by a check only when a response has overtaken the      *)
(* record of its trade, unless an order of the trade was in one that       *)
(* bounced.                                                                *)
(*                                                                         *)
(* The queue's own invariants come from TradeQueue_proofs.  The queue      *)
(* cannot tell a trade that is committed from one that was sent.           *)
(***************************************************************************)
EXTENDS Settlement, SequenceTheorems, FiniteSetTheorems, TLAPS

Database == [t \in Trades |-> IF status[t] = "COMMITTED" THEN "SUCCESS" ELSE status[t]]

Queue == INSTANCE TradeQueue_proofs WITH status <- Database

-----------------------------------------------------------------------------
(* Trades and their numbers *)

LEMMA SameOperators ==
    /\ Queue!Trades = Trades
    /\ \A s : Queue!ToSet(s) = ToSet(s)
  BY DEF Queue!Trades, Trades, Queue!ToSet, ToSet

LEMMA QueueAssumption ==
    Queue!BatchesAssumption
  BY BatchesAssumption DEF Queue!BatchesAssumption, Queue!Ascending, Ascending, Queue!Older,
     Older, Queue!ToSet, ToSet

LEMMA TradesAre ==
    /\ Cardinality(Trades) \in Nat
    /\ Trades = 1..Cardinality(Trades)
    /\ Trades \subseteq 0..Cardinality(Trades)
    /\ \A t \in Trades : t \in Nat \ {0} /\ t - 1 \in 0..Cardinality(Trades)
<1>1. IsFiniteSet(Queue!Trades)
  BY Queue!TradesFinite, QueueAssumption DEF Queue!IsFiniteSet, IsFiniteSet
<1>2. Cardinality(Trades) \in Nat
  BY <1>1, SameOperators, FS_CardinalityType
<1>3. PICK n \in Nat : n = Cardinality(Trades)
  BY <1>2
<1>4. Trades = 1..n
  BY <1>3, NumbersAssumption
<1>5. 1..n \subseteq 0..n /\ \A t \in 1..n : t \in Nat \ {0} /\ t - 1 \in 0..n
  OBVIOUS
<1> QED
  BY <1>3, <1>4, <1>5

LEMMA SidesAre ==
    ASSUME NEW t \in Trades
    PROVE  /\ Taker[t] \in Orders /\ Maker[t] \in Orders
           /\ Taker[t] # Maker[t]
           /\ Sides(t) \subseteq Orders
  BY OrdersAssumption DEF Sides

\* What holds of k and is passed on holds of every number from k to l.
LEMMA Reaches ==
    ASSUME NEW H, NEW k \in Nat, NEW l \in Nat, k \in H,
           \A i \in k..(l - 1) : i \in H => i + 1 \in H
    PROVE  \A i \in k..l : i \in H
<1> DEFINE N == {i \in k..l : i \notin H}
<1>1. N \subseteq Nat /\ k \notin N
  OBVIOUS
<1>2. ASSUME NEW i \in N, \A j \in N : i <= j
      PROVE  FALSE
  <2>1. i \in k..l /\ i # k
    BY <1>1, <1>2
  <2>2. i - 1 \in k..(l - 1) /\ i - 1 \in k..l /\ i - 1 + 1 = i /\ ~(i <= i - 1)
    BY <2>1
  <2>3. i - 1 \notin N
    <3> HIDE DEF N
    <3> QED
      BY <1>2, <2>2
  <2>4. i - 1 \in H
    BY <2>2, <2>3
  <2> QED
    BY <2>2, <2>4
<1>3. N = {}
  <2> HIDE DEF N
  <2> QED
    BY <1>1, <1>2, Queue!LeastNumber, QueueAssumption
<1> QED
  BY <1>3

-----------------------------------------------------------------------------
(* What the backend matched *)

\* What the orders have left after a trade
Exchange(before, t) ==
    LET amount == MinOf(before[Taker[t]], before[Maker[t]])
    IN  [before EXCEPT ![Taker[t]] = @ - amount, ![Maker[t]] = @ - amount]

LEMMA ExchangeFacts ==
    ASSUME NEW before \in [Orders -> Nat], NEW t \in Trades
    PROVE  LET amount == MinOf(before[Taker[t]], before[Maker[t]])
               after == Exchange(before, t)
           IN  /\ amount \in Nat
               /\ after \in [Orders -> Nat]
               /\ after = [o \in Orders |-> IF o \in Sides(t) THEN before[o] - amount ELSE before[o]]
               /\ \A o \in Orders : after[o] <= before[o]
               /\ after[Taker[t]] = 0 \/ after[Maker[t]] = 0
<1> DEFINE amount == MinOf(before[Taker[t]], before[Maker[t]])
           after == Exchange(before, t)
<1>1. /\ Taker[t] \in Orders /\ Maker[t] \in Orders
      /\ Taker[t] # Maker[t]
  BY SidesAre
<1>2. /\ amount \in Nat
      /\ amount <= before[Taker[t]] /\ amount <= before[Maker[t]]
      /\ amount = before[Taker[t]] \/ amount = before[Maker[t]]
  BY <1>1 DEF MinOf
<1>3. after = [o \in Orders |-> IF o \in Sides(t) THEN before[o] - amount ELSE before[o]]
  <2>1. after = [before EXCEPT ![Taker[t]] = @ - amount, ![Maker[t]] = @ - amount]
    BY DEF Exchange
  <2> HIDE DEF amount, after
  <2> QED
    BY <1>1, <2>1 DEF Sides
<1> HIDE DEF amount, after
<1>4. \A o \in Orders : after[o] = IF o \in Sides(t) THEN before[o] - amount ELSE before[o]
  BY <1>3
<1>5. \A o \in Orders : after[o] \in Nat /\ after[o] <= before[o]
  BY <1>1, <1>2, <1>4 DEF Sides
<1>6. after[Taker[t]] = 0 \/ after[Maker[t]] = 0
  BY <1>1, <1>2, <1>4 DEF Sides
<1>7. after \in [Orders -> Nat]
  BY <1>3, <1>5
<1> QED
  BY <1>2, <1>3, <1>5, <1>6, <1>7 DEF amount, after

MatchedStep(f, n) == IF n = 0 THEN Size ELSE Exchange(f[n - 1], n)

\* The recursion of Matched has a solution on every initial segment.
LEMMA MatchedUpTo ==
    ASSUME NEW n \in Nat
    PROVE  \E f : f = [k \in 0..n |-> MatchedStep(f, k)]
<1> DEFINE Solves(f, m) == f = [k \in 0..m |-> MatchedStep(f, k)]
           H == {m \in Nat : \E f : Solves(f, m)}
<1>1. 0 \in H
  <2> DEFINE e == [k \in 0..0 |-> Size]
  <2>1. \A k \in 0..0 : k = 0
    OBVIOUS
  <2>2. Solves(e, 0)
    BY <2>1 DEF MatchedStep
  <2> QED
    BY <2>2
<1>2. ASSUME NEW m \in 0..(n - 1), m \in H
      PROVE  m + 1 \in H
  <2>1. m \in Nat /\ m + 1 \in Nat
    BY <1>2
  <2>2. PICK f : Solves(f, m)
    BY <1>2
  <2> DEFINE g == [k \in 0..(m + 1) |-> IF k = m + 1 THEN Exchange(f[m], m + 1) ELSE f[k]]
  <2>3. \A k \in 0..m : k \in 0..(m + 1) /\ k # m + 1 /\ f[k] = MatchedStep(f, k)
    BY <2>1, <2>2
  <2>4. \A k \in 0..m : g[k] = f[k]
    BY <2>3
  <2>5. ASSUME NEW k \in 0..(m + 1)
        PROVE  g[k] = MatchedStep(g, k)
    <3>1. CASE k = m + 1
      <4>1. g[k] = Exchange(f[m], m + 1) /\ m \in 0..m /\ k - 1 = m /\ k # 0
        BY <2>1, <3>1
      <4>2. g[k - 1] = f[m]
        BY <2>4, <4>1
      <4> HIDE DEF g
      <4> QED
        BY <3>1, <4>1, <4>2 DEF MatchedStep
    <3>2. CASE k # m + 1 /\ k # 0
      <4>1. k \in 0..m /\ k - 1 \in 0..m
        BY <2>1, <3>2
      <4>2. g[k] = f[k] /\ g[k - 1] = f[k - 1] /\ f[k] = MatchedStep(f, k)
        BY <2>3, <2>4, <4>1
      <4> HIDE DEF g
      <4> QED
        BY <3>2, <4>2 DEF MatchedStep
    <3>3. CASE k # m + 1 /\ k = 0
      <4>1. k \in 0..m
        BY <2>1, <3>3
      <4>2. g[k] = f[k] /\ f[k] = MatchedStep(f, k)
        BY <2>3, <2>4, <4>1
      <4> HIDE DEF g
      <4> QED
        BY <3>3, <4>2 DEF MatchedStep
    <3> QED
      BY <3>1, <3>2, <3>3
  <2>6. Solves(g, m + 1)
    <3>1. g = [k \in 0..(m + 1) |-> g[k]]
      OBVIOUS
    <3>2. [k \in 0..(m + 1) |-> g[k]] = [k \in 0..(m + 1) |-> MatchedStep(g, k)]
      BY <2>5
    <3> QED
      BY <3>1, <3>2
  <2> HIDE DEF g, Solves
  <2> QED
    BY <2>1, <2>6
<1>3. H \subseteq Nat /\ n \in 0..n
  OBVIOUS
<1>4. n \in H
  <2> HIDE DEF H
  <2>1. \A i \in 0..n : i \in H
    BY <1>1, <1>2, Reaches
  <2> QED
    BY <1>3, <2>1
<1> QED
  BY <1>4

LEMMA MatchedUnfolds ==
    /\ Matched[0] = Size
    /\ \A t \in Trades : Matched[t] = Exchange(Matched[t - 1], t)
<1>1. PICK l \in Nat : l = Cardinality(Trades)
  BY TradesAre
<1>2. \E f : f = [k \in 0..l |-> MatchedStep(f, k)]
  BY MatchedUpTo
<1> DEFINE m == CHOOSE f : f = [k \in 0..l |-> MatchedStep(f, k)]
<1>3. m = [k \in 0..l |-> MatchedStep(m, k)]
  BY <1>2
<1>4. Matched = m
  BY <1>1 DEF Matched, MatchedStep, Exchange
<1> HIDE DEF m
<1>5. \A k \in 0..l : m[k] = MatchedStep(m, k)
  BY <1>3
<1>6. 0 \in 0..l /\ \A t \in Trades : t \in 0..l /\ t # 0
  BY <1>1, TradesAre
<1> QED
  BY <1>4, <1>5, <1>6 DEF MatchedStep

LEMMA MatchedType ==
    \A n \in 0..Cardinality(Trades) : Matched[n] \in [Orders -> Nat]
<1> DEFINE H == {n \in Nat : Matched[n] \in [Orders -> Nat]}
<1>1. 0 \in H
  BY MatchedUnfolds, OrdersAssumption
<1>2. PICK l \in Nat : l = Cardinality(Trades)
  BY TradesAre
<1>3. ASSUME NEW n \in 0..(l - 1), n \in H
      PROVE  n + 1 \in H
  <2>1. n \in Nat /\ n + 1 \in Nat /\ n + 1 \in Trades /\ n + 1 - 1 = n
    BY <1>2, <1>3, NumbersAssumption
  <2>2. Matched[n + 1] = Exchange(Matched[n], n + 1)
    BY <2>1, MatchedUnfolds
  <2>3. Exchange(Matched[n], n + 1) \in [Orders -> Nat]
    BY <1>3, <2>1, ExchangeFacts
  <2> QED
    BY <2>1, <2>2, <2>3
<1>4. \A n \in 0..l : n \in H
  <2> HIDE DEF H
  <2> QED
    BY <1>1, <1>3, Reaches
<1> QED
  BY <1>2, <1>4

\* What an order has left only decreases.
LEMMA MatchedFalls ==
    ASSUME NEW k \in 0..Cardinality(Trades), NEW o \in Orders
    PROVE  \A m \in k..Cardinality(Trades) : Matched[m][o] <= Matched[k][o]
<1> DEFINE H == {m \in Nat : Matched[m][o] <= Matched[k][o]}
<1>1. PICK l \in Nat : l = Cardinality(Trades)
  BY TradesAre
<1>2. k \in Nat /\ k \in H
  BY <1>1, MatchedType
<1>3. ASSUME NEW n \in k..(l - 1), n \in H
      PROVE  n + 1 \in H
  <2>1. n \in 0..l /\ n + 1 \in Trades /\ n + 1 - 1 = n /\ n + 1 \in Nat /\ n + 1 \in 0..l
    BY <1>1, <1>2, <1>3, NumbersAssumption
  <2>2. /\ Matched[n] \in [Orders -> Nat]
        /\ Matched[n + 1] \in [Orders -> Nat]
        /\ Matched[k] \in [Orders -> Nat]
    BY <1>1, <2>1, MatchedType
  <2>3. Matched[n + 1] = Exchange(Matched[n], n + 1)
    BY <2>1, MatchedUnfolds
  <2>4. Matched[n + 1][o] <= Matched[n][o]
    BY <2>1, <2>2, <2>3, ExchangeFacts
  <2> QED
    BY <1>3, <2>1, <2>2, <2>4
<1>4. \A m \in k..l : m \in H
  <2> HIDE DEF H
  <2> QED
    BY <1>2, <1>3, Reaches
<1> QED
  BY <1>1, <1>4

-----------------------------------------------------------------------------
(* The steps of the queue, as TradeQueue_proofs knows them *)

StatusType == status \in [Trades -> {"NONE", "PENDING", "SUCCESS", "COMMITTED"}]

LEMMA MemoryIs ==
    /\ Queue!Idle = Idle
    /\ Queue!Workers = Workers
    /\ Queue!Initialized <=> Initialized
    /\ \A m : Queue!Sending(m) = Sending(m)
    /\ \A j : Queue!Unsent(j) = Unsent(j) /\ Queue!Successful(j) = Successful(j)
    /\ \A trades, st : Queue!Announce(trades, st) = Announce(trades, st)
    /\ \A t : Queue!UnitsOf(t) = UnitsOf(t)
  BY DEF Queue!Idle, Idle, Queue!Workers, Workers, Queue!Initialized, Initialized,
         Queue!Sending, Sending, Queue!Unsent, Unsent, Queue!Successful, Successful,
         Queue!Announce, Announce, Queue!UnitsOf, UnitsOf

LEMMA RetryIs ==
    /\ Queue!BeginRetry <=> BeginRetry
    /\ Queue!Retry <=> Retry
    /\ \A w : Queue!SendFails(w) <=> SendFails(w)
    /\ \A w : Queue!Updated(w) <=> Updated(w)
  BY MemoryIs DEF Queue!BeginRetry, BeginRetry, Queue!Retry, Retry, Queue!SendFails, SendFails,
     Queue!Updated, Updated

LEMMA QueueCreates ==
    ASSUME BackendCreate
    PROVE  Queue!BackendCreate
<1>1. Database' = [t \in Trades |-> IF t \in ToSet(Batches[created + 1])
                                    THEN "PENDING" ELSE Database[t]]
  BY DEF BackendCreate, Database
<1> QED
  BY <1>1, SameOperators, MemoryIs DEF BackendCreate, Queue!BackendCreate

LEMMA QueueCalls ==
    ASSUME BackendCall
    PROVE  Queue!BackendCall
  BY DEF BackendCall, Queue!BackendCall, durable, Queue!durable, Database

LEMMA QueueWorks ==
    ASSUME StatusType, NEW w \in Workers, Work(w)
    PROVE  Queue!Work(w)
<1>1. CASE SendOne(w)
  BY <1>1 DEF SendOne, Queue!Work, Queue!SendOne, backend, Queue!backend, Database
<1>2. CASE SendFailsLater(w)
  BY <1>2, RetryIs DEF SendFailsLater, Queue!Work, Queue!SendFailsLater, durable,
     Queue!durable, backend, Queue!backend, Database
<1>3. CASE UpdateOne(w)
  <2> DEFINE i == job[w].updated + 1
             u == job[w].matches[i]
  <2>1. status' = [status EXCEPT ![u] = "SUCCESS"]
    BY <1>3 DEF UpdateOne
  <2> HIDE DEF u
  <2>2. Database' = [Database EXCEPT ![u] = "SUCCESS"]
    BY <2>1 DEF Database, StatusType
  <2> USE DEF u
  <2> QED
    BY <1>3, <2>2 DEF UpdateOne, Queue!Work, Queue!UpdateOne, backend, Queue!backend
<1> QED
  BY <1>1, <1>2, <1>3 DEF Work

LEMMA QueueExecutes ==
    ASSUME Execute
    PROVE  Queue!Execute
<1> USE MemoryIs, RetryIs DEF durable, Queue!durable, backend, Queue!backend, Database,
        Queue!Execute
<1>1. CASE TakeCall
  BY <1>1 DEF TakeCall, Queue!TakeCall
<1>2. CASE ExecuteBehindQueue
  BY <1>2 DEF ExecuteBehindQueue, Queue!ExecuteBehindQueue
<1>3. CASE ExecuteNow
  BY <1>3 DEF ExecuteNow, Queue!ExecuteNow
<1>4. CASE ExecuteNothing
  BY <1>4 DEF ExecuteNothing, Queue!ExecuteNothing
<1>5. CASE ExecuteDone
  BY <1>5 DEF ExecuteDone, Queue!ExecuteDone
<1> QED
  BY <1>1, <1>2, <1>3, <1>4, <1>5 DEF Execute

LEMMA QueueResends ==
    ASSUME Resend
    PROVE  Queue!Resend
<1> USE MemoryIs, RetryIs DEF durable, Queue!durable, backend, Queue!backend, Database,
        Queue!Resend
<1>1. CASE NextRetry
  BY <1>1 DEF NextRetry, Queue!NextRetry
<1>2. CASE ResendNothing
  BY <1>2 DEF ResendNothing, Queue!ResendNothing
<1>3. CASE ResendPart
  BY <1>3 DEF ResendPart, Queue!ResendPart
<1>4. CASE ResendAll
  BY <1>4 DEF ResendAll, Queue!ResendAll
<1> QED
  BY <1>1, <1>2, <1>3, <1>4 DEF Resend

LEMMA QueueHears ==
    ASSUME BecameStable \/ WithdrawalToOperator
    PROVE  Queue!BecameStable \/ Queue!WithdrawalToOperator
  BY MemoryIs, RetryIs DEF BecameStable, WithdrawalToOperator, Queue!BecameStable,
     Queue!WithdrawalToOperator, backend, Queue!backend, Database

LEMMA PendingIs ==
    \A t \in Trades : (Database[t] = "PENDING") <=> (status[t] = "PENDING")
  BY DEF Database

LEMMA QueueInitializes ==
    ASSUME StatusType, Initialize
    PROVE  Queue!Initialize
<1> USE MemoryIs, RetryIs DEF durable, Queue!durable, backend, Queue!backend, Queue!Initialize
<1>1. CASE InitLoad
  <2>1. {t \in Trades : Database[t] = "PENDING"} = {t \in Trades : status[t] = "PENDING"}
    BY PendingIs
  <2>2. \A S : Queue!Sorted(S) = Sorted(S)
    BY SameOperators DEF Queue!Sorted, Sorted, Queue!Cardinality, Cardinality
  <2>3. UNCHANGED Database
    BY <1>1 DEF InitLoad, Database
  <2> QED
    BY <1>1, <2>1, <2>2, <2>3, SameOperators DEF InitLoad, Queue!InitLoad
<1>2. CASE InitQueue
  BY <1>2 DEF InitQueue, Queue!InitQueue, Database
<1>3. CASE InitAlreadySent
  <2>1. PICK u \in UnitsOf(Head(init.todo)) :
           /\ status' = [status EXCEPT ![Head(init.todo)] = "SUCCESS"]
           /\ txHash' = [txHash EXCEPT ![Head(init.todo)] = u]
    BY <1>3 DEF InitAlreadySent
  <2>2. PICK h : h = Head(init.todo)
    OBVIOUS
  <2>3. Database' = [Database EXCEPT ![h] = "SUCCESS"]
    <3>1. status' = [status EXCEPT ![h] = "SUCCESS"]
      BY <2>1, <2>2
    <3> QED
      BY <3>1 DEF Database, StatusType
  <2> QED
    BY <1>3, <2>1, <2>2, <2>3 DEF InitAlreadySent, Queue!InitAlreadySent
<1>4. CASE InitAnnounce
  BY <1>4 DEF InitAnnounce, Queue!InitAnnounce, Database
<1>5. CASE InitDone
  BY <1>5 DEF InitDone, Queue!InitDone, Database
<1> QED
  BY <1>1, <1>2, <1>3, <1>4, <1>5 DEF Initialize

LEMMA QueueDown ==
    ASSUME Down
    PROVE  Queue!Down
  BY MemoryIs DEF Down, Queue!Down, durable, Queue!durable, backend, Queue!backend, Database

LEMMA QueueRestarts ==
    ASSUME Restart
    PROVE  Queue!Restart
  BY DEF Restart, Queue!Restart, durable, Queue!durable, backend, Queue!backend, volatile,
         Queue!volatile, Database

\* Whatever the queue does is a step of TradeQueue.
LEMMA QueueSteps ==
    ASSUME StatusType, QueueStep \/ CrashAll \/ RestartAll
    PROVE  Queue!Next
<1>1. CASE QueueStep
  BY <1>1, MemoryIs, QueueCreates, QueueCalls, QueueWorks, QueueExecutes, QueueResends,
     QueueHears, QueueInitializes DEF QueueStep, Queue!Next
<1>2. CASE CrashAll
  BY <1>2, QueueDown DEF CrashAll, Crash, Queue!Next, Queue!Crash
<1>3. CASE RestartAll
  BY <1>3, QueueRestarts DEF RestartAll, Queue!Next
<1> QED
  BY <1>1, <1>2, <1>3

-----------------------------------------------------------------------------
(* The inductive invariant *)

\* The units carry the trades in the order of their numbers.
UnitsNumbered == \A u \in 1..Len(units) : units[u] = u

\* The response to trade t if the agent does what the backend matched
Expected(t) ==
    [bounced |-> Amount(t) = 0, amount |-> Amount(t),
     executed |-> {o \in Sides(t) : RemainingAfter(t, o) = 0},
     left |-> [o \in {s \in Sides(t) : RemainingAfter(t, s) # 0} |-> RemainingAfter(t, o)]]

Answers ==
    [bounced : BOOLEAN, amount : Nat, executed : SUBSET Orders,
     left : UNION {[D -> Nat] : D \in SUBSET Orders}]

\* The agent is where the backend was after the same trades, but for the orders
\* that a bounced trade has disturbed.
AgentSound ==
    /\ responses \in Seq(Answers)
    /\ Len(responses) <= Len(units)
    /\ left \in [Orders -> Nat]
    /\ \A u \in 1..Len(responses) :
          responses[u] = Expected(u) \/ responses[u].bounced \/ u \in astray
    /\ \A o \in Orders \ disturbed : left[o] = Matched[Len(responses)][o]

\* A unit is recorded only together with the status of its trade.
RecordSound == \A t \in Trades : Database[t] # "SUCCESS" => txHash[t] = 0

\* What is on its way in the process is about responses of the agent.
HandlersSound ==
    /\ checks \subseteq {u \in 1..Len(responses) : ~responses[u].bounced}
    /\ inbox \subseteq 1..Len(responses)

\* A trade that was executed is recorded, or was overtaken.
OvertakenSound == \A u \in 1..Len(responses) : txHash[u] = 0 => u \in overtaken

\* A committed trade was executed.
CommittedSound ==
    \A t \in Trades :
        status[t] = "COMMITTED" => t \in 1..Len(responses) /\ ~responses[t].bounced

SettlementInv ==
    /\ Queue!IInv
    /\ Queue!OrderInv
    /\ StatusType
    /\ UnitsNumbered
    /\ AgentSound
    /\ RecordSound
    /\ HandlersSound
    /\ OvertakenSound
    /\ CommittedSound

-----------------------------------------------------------------------------
(* What the invariant says of the queue *)

LEMMA UnitsAre ==
    ASSUME SettlementInv
    PROVE  /\ units \in Seq(Trades)
           /\ Len(units) \in Nat
           /\ 1..Len(units) \subseteq Trades
           /\ 1..Len(units) \subseteq Queue!Created
<1>1. Queue!TypeOK /\ Queue!OrderInv /\ UnitsNumbered
  BY DEF SettlementInv, Queue!IInv
<1>2. units \in Seq(Trades)
  BY <1>1, SameOperators DEF Queue!TypeOK
<1>3. Len(units) \in Nat /\ DOMAIN units = 1..Len(units)
  BY <1>2, LenProperties
<1>4. \A u \in 1..Len(units) : units[u] \in Trades /\ units[u] = u
  BY <1>1, <1>2, ElementOfSeq DEF UnitsNumbered
<1>5. ToSet(units) \subseteq Queue!Created
  BY <1>1, SameOperators DEF Queue!OrderInv, Queue!UnitsSound
<1>6. \A u \in 1..Len(units) : u \in ToSet(units)
  BY <1>3, <1>4 DEF ToSet
<1> QED
  BY <1>2, <1>3, <1>4, <1>5, <1>6

\* A trade is recorded in the unit of its number, or not at all.
LEMMA RecordIs ==
    ASSUME SettlementInv, NEW t \in Trades
    PROVE  /\ txHash[t] = IF status[t] \in {"SUCCESS", "COMMITTED"} THEN t ELSE 0
           /\ status[t] \in {"SUCCESS", "COMMITTED"} => t \in 1..Len(units)
<1>1. /\ Queue!SuccessIsOnDag /\ UnitsNumbered /\ RecordSound
      /\ DOMAIN units = 1..Len(units)
  BY UnitsAre, LenProperties DEF SettlementInv, Queue!IInv
<1>2. CASE status[t] \in {"SUCCESS", "COMMITTED"}
  <2>1. Database[t] = "SUCCESS"
    BY <1>2 DEF Database
  <2>2. txHash[t] \in DOMAIN units /\ units[txHash[t]] = t
    BY <1>1, <2>1, SameOperators DEF Queue!SuccessIsOnDag
  <2> QED
    BY <1>1, <1>2, <2>2 DEF UnitsNumbered
<1>3. CASE status[t] \notin {"SUCCESS", "COMMITTED"}
  BY <1>1, <1>3 DEF RecordSound, Database
<1> QED
  BY <1>2, <1>3

LEMMA TradesInAre ==
    ASSUME SettlementInv, NEW u \in 1..Len(units)
    PROVE  /\ u \in Trades
           /\ TradesIn(u) = IF txHash[u] = 0 THEN {} ELSE {u}
<1>1. u \in Trades /\ u # 0
  BY UnitsAre, TradesAre
<1>2. \A t \in Trades : txHash[t] = u => t = u
  BY <1>1, RecordIs
<1>3. txHash[u] \in {0, u}
  BY <1>1, RecordIs
<1> QED
  BY <1>1, <1>2, <1>3 DEF TradesIn

\* One more unit carries the trade with the next number.
LEMMA NextNumber ==
    ASSUME SettlementInv, NEW w \in Queue!Workers, Queue!SendOne(w)
    PROVE  units' = Append(units, Len(units) + 1)
<1>1. PICK t \in Queue!Created :
         /\ t \in Queue!Trades
         /\ t \notin Queue!ToSet(units)
         /\ units' = Append(units, t)
         /\ \A x \in Queue!Created \ Queue!ToSet(units) : x = t \/ t < x
  <2>1. Queue!IInv /\ Queue!OrderInv
    BY DEF SettlementInv
  <2> QED
    BY <2>1, Queue!SendsOldest, QueueAssumption
<1>2. /\ units \in Seq(Trades) /\ Len(units) \in Nat
      /\ DOMAIN units = 1..Len(units)
      /\ \A u \in 1..Len(units) : units[u] = u
  BY UnitsAre, LenProperties DEF SettlementInv, UnitsNumbered
<1>3. Queue!ToSet(units) = 1..Len(units)
  BY <1>2 DEF Queue!ToSet
<1>4. t \in Trades /\ t \in Nat \ {0} /\ ~(t <= Len(units))
  BY <1>1, <1>2, <1>3, SameOperators, TradesAre
<1> DEFINE n == Len(units) + 1
<1>5. n \in Trades /\ n <= t /\ n \notin 1..Len(units)
  <2>1. PICK l \in Nat : l = Cardinality(Trades)
    BY TradesAre
  <2>2. t \in 1..l
    BY <1>4, <2>1, NumbersAssumption
  <2>3. n \in 1..l
    BY <1>2, <1>4, <2>2
  <2> QED
    BY <1>2, <1>4, <2>1, <2>3, NumbersAssumption
<1>6. n \in Queue!Created
  <2>1. PICK i \in 1..created : t \in Queue!ToSet(Batches[i])
    BY <1>1 DEF Queue!Created
  <2>2. PICK k \in 1..Len(Batches) : n \in ToSet(Batches[k])
    BY <1>5 DEF Trades
  <2>3. /\ created \in Nat /\ created <= Len(Batches) /\ Len(Batches) \in Nat
    <3>1. created \in 0..Len(Batches) /\ Batches \in Seq(Seq(Nat \ {0}))
      BY BatchesAssumption DEF SettlementInv, Queue!IInv, Queue!TypeOK
    <3> QED
      BY <3>1
  <2>4. CASE k <= created
    BY <2>2, <2>3, <2>4, SameOperators DEF Queue!Created
  <2>5. CASE ~(k <= created)
    <3>1. i \in 1..Len(Batches) /\ i < k
      BY <2>1, <2>2, <2>3, <2>5
    <3>2. Older(ToSet(Batches[i]), ToSet(Batches[k]))
      BY <2>2, <3>1, BatchesAssumption
    <3>3. t < n
      BY <2>1, <2>2, <3>2, SameOperators DEF Older
    <3> QED
      BY <1>2, <1>4, <1>5, <3>3
  <2> QED
    BY <2>4, <2>5
<1>7. n = t
  BY <1>1, <1>2, <1>3, <1>4, <1>5, <1>6
<1> QED
  BY <1>1, <1>7

\* What a step of the queue keeps, and what it adds.
LEMMA QueueKeeps ==
    ASSUME SettlementInv, Patient, [Queue!Next]_(Queue!vars)
    PROVE  /\ Queue!IInv'
           /\ Queue!OrderInv'
           /\ UnitsNumbered'
           /\ Len(units) <= Len(units')
           /\ RecordSound'
           /\ \A t \in Trades : txHash'[t] = 0 => txHash[t] = 0
<1>1. Queue!IInv /\ Queue!OrderInv /\ RecordSound
  BY DEF SettlementInv
<1>2. Queue!IInv'
  BY <1>1, Queue!TypeStep, Queue!JobsStep, Queue!ResendStep, Queue!BatchesStep,
     Queue!InitStep, Queue!CreatedStep, Queue!OnDagStep, Queue!ForgottenStep,
     QueueAssumption DEF Queue!IInv
<1>3. Queue!OrderInv'
  BY <1>1, Queue!LoadStep, Queue!LineStep, Queue!UnitsStep, Queue!UnsentStep,
     Queue!RecordedStep, QueueAssumption DEF Queue!OrderInv
<1>4. UnitsNumbered' /\ Len(units) <= Len(units')
  <2>1. units \in Seq(Trades) /\ Len(units) \in Nat /\ UnitsNumbered
    BY UnitsAre DEF SettlementInv
  <2>2. CASE UNCHANGED units
    BY <2>1, <2>2 DEF UnitsNumbered
  <2>3. CASE \E w \in Queue!Workers : Queue!SendOne(w)
    <3>1. units' = Append(units, Len(units) + 1)
      BY <2>3, NextNumber
    <3>2. Len(units') = Len(units) + 1 /\ \A u \in 1..Len(units) : units'[u] = units[u]
      BY <2>1, <3>1
    <3>3. units'[Len(units) + 1] = Len(units) + 1
      BY <2>1, <3>1
    <3>4. \A u \in 1..(Len(units) + 1) : u \in 1..Len(units) \/ u = Len(units) + 1
      BY <2>1
    <3> QED
      BY <2>1, <3>2, <3>3, <3>4 DEF UnitsNumbered
  <2> QED
    BY <2>2, <2>3, Queue!WhoPosts, QueueAssumption
<1>5. \A t \in Trades : Database[t] = "SUCCESS" => Database'[t] = "SUCCESS"
  BY <1>1, Queue!SettledStays, QueueAssumption, SameOperators
<1>6. \A t \in Trades : txHash'[t] = txHash[t] \/ Database'[t] = "SUCCESS"
  <2>1. CASE UNCHANGED <<Database, txHash>>
    BY <2>1
  <2>2. CASE Queue!BackendCreate
    BY <2>2 DEF Queue!BackendCreate
  <2>3. /\ txHash \in [Trades -> Nat]
        /\ Database \in [Trades -> {"NONE", "PENDING", "SUCCESS"}]
    BY <1>1, SameOperators DEF Queue!IInv, Queue!TypeOK
  <2>4. ASSUME NEW x, NEW h, Database' = [Database EXCEPT ![x] = "SUCCESS"],
               txHash' = [txHash EXCEPT ![x] = h]
        PROVE  \A t \in Trades : txHash'[t] = txHash[t] \/ Database'[t] = "SUCCESS"
    BY <2>3, <2>4
  <2>5. CASE Queue!InitAlreadySent
    BY <2>4, <2>5 DEF Queue!InitAlreadySent
  <2>6. CASE \E w \in Queue!Workers : Queue!UpdateOne(w)
    BY <2>4, <2>6 DEF Queue!UpdateOne
  <2> QED
    BY <2>1, <2>2, <2>5, <2>6, Queue!WhoSettles, QueueAssumption
<1>7. RecordSound'
  BY <1>1, <1>5, <1>6 DEF RecordSound
<1>8. \A t \in Trades : txHash'[t] = 0 => txHash[t] = 0
  <2> SUFFICES ASSUME NEW t \in Trades, txHash'[t] = 0, txHash[t] # 0
               PROVE  FALSE
    OBVIOUS
  <2>1. Database'[t] = "SUCCESS"
    BY <1>1, <1>5 DEF RecordSound
  <2>2. txHash'[t] \in DOMAIN units' /\ units' \in Seq(Trades)
    BY <1>2, <2>1, SameOperators DEF Queue!IInv, Queue!SuccessIsOnDag, Queue!TypeOK
  <2> QED
    BY <2>2, LenProperties
<1> QED
  BY <1>2, <1>3, <1>4, <1>7, <1>8

LEMMA DownKept ==
    ASSUME SettlementInv, Queue!Down, UNCHANGED crashes
    PROVE  /\ Queue!IInv'
           /\ Queue!OrderInv'
           /\ UnitsNumbered'
           /\ RecordSound'
           /\ UNCHANGED <<units, txHash, Database>>
<1>1. Queue!IInv /\ Queue!OrderInv /\ RecordSound /\ UnitsNumbered
  BY DEF SettlementInv
<1>2. Queue!IInv' /\ Queue!OrderInv'
  BY <1>1, Queue!DownKeeps, Queue!DownKeepsOrder, QueueAssumption
<1>3. UNCHANGED <<units, txHash, Database>>
  BY DEF Queue!Down, Queue!durable
<1> QED
  BY <1>1, <1>2, <1>3 DEF RecordSound, UnitsNumbered

-----------------------------------------------------------------------------
(* The steps of the settlement *)

LEMMA ResponsesAre ==
    ASSUME AgentSound
    PROVE  /\ Len(responses) \in Nat
           /\ DOMAIN responses = 1..Len(responses)
  BY LenProperties DEF AgentSound

LEMMA StartHolds ==
    ASSUME SettlementInit
    PROVE  SettlementInv
<1>1. Queue!Init
  <2>1. Database = [t \in Trades |-> "NONE"]
    BY DEF SettlementInit, Init, Database
  <2> QED
    BY <2>1, SameOperators, MemoryIs DEF SettlementInit, Init, Queue!Init
<1>2. Queue!IInv /\ Queue!OrderInv
  BY <1>1, Queue!InitHolds, Queue!InitOrder, QueueAssumption
<1>3. /\ units = <<>> /\ responses = <<>> /\ Len(<<>>) = 0 /\ 1..0 = {}
      /\ <<>> \in Seq(Answers)
  BY EmptySeq DEF SettlementInit, Init
<1>4. StatusType /\ RecordSound /\ CommittedSound
  BY DEF SettlementInit, Init, StatusType, RecordSound, CommittedSound
<1>5. UnitsNumbered /\ AgentSound /\ HandlersSound /\ OvertakenSound
  BY <1>3, MatchedUnfolds, OrdersAssumption DEF SettlementInit, UnitsNumbered, AgentSound,
     HandlersSound, OvertakenSound
<1> QED
  BY <1>2, <1>4, <1>5 DEF SettlementInv

\* The queue and the ends of the process leave the agent alone and commit nothing.
LEMMA QueueLeaves ==
    ASSUME QueueStep \/ CrashAll \/ RestartAll
    PROVE  /\ UNCHANGED <<left, responses, ghosts>>
           /\ checks' \in {checks, {}} /\ inbox' \in {inbox, {}}
  BY DEF QueueStep, CrashAll, RestartAll, MemoryLost, settlement, memory, ghosts

LEMMA QueueCommits ==
    ASSUME StatusType, QueueStep \/ CrashAll \/ RestartAll
    PROVE  /\ StatusType'
           /\ \A t \in Trades : status'[t] = "COMMITTED" => status[t] = "COMMITTED"
<1>1. CASE UNCHANGED status
  BY <1>1 DEF StatusType
<1>2. CASE BackendCreate
  BY <1>2 DEF BackendCreate, StatusType
<1>3. ASSUME NEW t, status' = [status EXCEPT ![t] = "SUCCESS"]
      PROVE  /\ StatusType'
             /\ \A x \in Trades : status'[x] = "COMMITTED" => status[x] = "COMMITTED"
  BY <1>3 DEF StatusType
<1>4. CASE InitAlreadySent \/ \E w \in Workers : UpdateOne(w)
  BY <1>3, <1>4 DEF InitAlreadySent, UpdateOne
<1>5. \/ UNCHANGED status
      \/ BackendCreate \/ InitAlreadySent \/ \E w \in Workers : UpdateOne(w)
  <2>1. CASE QueueStep
    BY <2>1 DEF QueueStep, durable, Work, Execute, Resend, Initialize, BackendCall, SendOne,
       SendFailsLater, TakeCall, ExecuteBehindQueue, ExecuteNow, ExecuteNothing, ExecuteDone,
       NextRetry, ResendNothing, ResendPart, ResendAll, BecameStable, WithdrawalToOperator,
       InitLoad, InitQueue, InitAnnounce, InitDone
  <2>2. CASE CrashAll \/ RestartAll
    BY <2>2 DEF CrashAll, Crash, Down, RestartAll, Restart, durable
  <2> QED
    BY <2>1, <2>2
<1> QED
  BY <1>1, <1>2, <1>4, <1>5

\* What the agent and its responses are is kept while they do not change.
LEMMA AgentKept ==
    ASSUME SettlementInv, UNCHANGED <<left, responses, ghosts>>,
           checks' \subseteq checks, inbox' \subseteq inbox, Len(units) <= Len(units'),
           Len(units') \in Nat,
           \A t \in Trades : txHash'[t] = 0 => txHash[t] = 0,
           \A t \in Trades : status'[t] = "COMMITTED" => status[t] = "COMMITTED"
    PROVE  /\ AgentSound'
           /\ HandlersSound'
           /\ OvertakenSound'
           /\ CommittedSound'
<1>1. AgentSound /\ HandlersSound /\ OvertakenSound /\ CommittedSound
  BY DEF SettlementInv
<1>2. /\ Len(responses) \in Nat /\ Len(units) \in Nat
      /\ 1..Len(responses) \subseteq Trades
  <2>1. Len(responses) \in Nat /\ Len(units) \in Nat /\ Len(responses) <= Len(units)
    BY <1>1, ResponsesAre, UnitsAre DEF AgentSound
  <2>2. 1..Len(responses) \subseteq 1..Len(units)
    BY <2>1
  <2> QED
    BY <2>1, <2>2, UnitsAre
<1>3. AgentSound'
  <2>1. \A t : Expected(t)' = Expected(t)
    BY DEF Expected, Amount, RemainingAfter, Sides
  <2>2. Len(responses) <= Len(units')
    BY <1>1, <1>2 DEF AgentSound
  <2> QED
    BY <1>1, <2>2 DEF AgentSound, Expected, Amount, RemainingAfter, ghosts
<1>4. HandlersSound' /\ CommittedSound'
  BY <1>1 DEF HandlersSound, CommittedSound
<1>5. OvertakenSound'
  BY <1>1, <1>2 DEF OvertakenSound, ghosts
<1> QED
  BY <1>3, <1>4, <1>5

LEMMA QueueStepKeeps ==
    ASSUME SettlementInv, Patient, QueueStep \/ CrashAll \/ RestartAll
    PROVE  SettlementInv'
<1>1. Queue!Next /\ StatusType
  BY QueueSteps DEF SettlementInv
<1>2. /\ Queue!IInv' /\ Queue!OrderInv' /\ UnitsNumbered' /\ RecordSound'
      /\ Len(units) <= Len(units')
      /\ \A t \in Trades : txHash'[t] = 0 => txHash[t] = 0
  BY <1>1, QueueKeeps
<1>3. /\ StatusType'
      /\ \A t \in Trades : status'[t] = "COMMITTED" => status[t] = "COMMITTED"
  BY <1>1, QueueCommits
<1>4. /\ UNCHANGED <<left, responses, ghosts>>
      /\ checks' \subseteq checks /\ inbox' \subseteq inbox
  BY QueueLeaves
<1>5. Len(units') \in Nat
  <2>1. units' \in Seq(Trades)
    BY <1>2, SameOperators DEF Queue!IInv, Queue!TypeOK
  <2> QED
    BY <2>1, LenProperties
<1>6. AgentSound' /\ HandlersSound' /\ OvertakenSound' /\ CommittedSound'
  BY <1>2, <1>3, <1>4, <1>5, AgentKept
<1> QED
  BY <1>2, <1>3, <1>6 DEF SettlementInv

\* A check that fails ends the process, which loses no more than a crash.
LEMMA CheckThrowsKeeps ==
    ASSUME SettlementInv, NEW u \in checks, CheckThrows(u)
    PROVE  SettlementInv'
<1>1. Down /\ UNCHANGED crashes
  BY DEF CheckThrows
<1>2. /\ Queue!IInv' /\ Queue!OrderInv' /\ UnitsNumbered' /\ RecordSound'
      /\ UNCHANGED <<units, txHash>>
  BY <1>1, QueueDown, DownKept
<1>3. UNCHANGED status
  BY <1>1 DEF Down, durable
<1>4. /\ UNCHANGED <<left, responses, ghosts>>
      /\ checks' \subseteq checks /\ inbox' \subseteq inbox
  BY DEF CheckThrows, MemoryLost
<1>5. Len(units) \in Nat /\ Len(units) <= Len(units')
  <2>1. Len(units) \in Nat
    BY UnitsAre
  <2> QED
    BY <1>2, <2>1
<1>6. AgentSound' /\ HandlersSound' /\ OvertakenSound' /\ CommittedSound'
  BY <1>2, <1>3, <1>4, <1>5, AgentKept
<1> QED
  BY <1>2, <1>3, <1>6 DEF SettlementInv, StatusType

\* The queue does not see what the agent and the handlers do.
LEMMA QueueUnseen ==
    ASSUME SettlementInv, Patient, UNCHANGED Database,
           UNCHANGED <<txHash, units, stable, funds, events, backend, up, volatile, crashes>>
    PROVE  Queue!IInv' /\ Queue!OrderInv' /\ UnitsNumbered' /\ RecordSound'
<1>1. UNCHANGED Queue!vars
  BY DEF Queue!vars, Queue!durable, Queue!backend, Queue!volatile, backend, volatile
<1> QED
  BY <1>1, QueueKeeps

\* The agent does to undisturbed orders what the backend did to them.
LEMMA ResponseIs ==
    ASSUME NEW t \in Trades, left \in [Orders -> Nat],
           \A o \in Sides(t) : left[o] = Matched[t - 1][o]
    PROVE  /\ Response(t, FALSE) = Expected(t)
           /\ \A o \in Sides(t) : Matched[t][o] = left[o] - Amount(t)
           /\ \A o \in Orders \ Sides(t) : Matched[t][o] = Matched[t - 1][o]
<1> DEFINE before == Matched[t - 1]
<1>1. before \in [Orders -> Nat] /\ Matched[t] = Exchange(before, t)
  BY TradesAre, MatchedType, MatchedUnfolds
<1>2. /\ Taker[t] \in Orders /\ Taker[t] \in Sides(t)
      /\ Maker[t] \in Orders /\ Maker[t] \in Sides(t)
      /\ Sides(t) \subseteq Orders
  BY SidesAre DEF Sides
<1>3. PICK amount : amount = MinOf(left[Taker[t]], left[Maker[t]])
  OBVIOUS
<1>4. amount = MinOf(before[Taker[t]], before[Maker[t]])
  BY <1>2, <1>3
<1> HIDE DEF before
<1>5. /\ amount \in Nat
      /\ Matched[t] = [o \in Orders |-> IF o \in Sides(t) THEN before[o] - amount ELSE before[o]]
  BY <1>1, <1>4, ExchangeFacts
<1>6. /\ \A o \in Sides(t) : Matched[t][o] = left[o] - amount
      /\ \A o \in Orders \ Sides(t) : Matched[t][o] = before[o]
  BY <1>2, <1>5 DEF before
<1>7. Amount(t) = amount
  <2>1. before[Taker[t]] \in Nat /\ Matched[t][Taker[t]] = before[Taker[t]] - amount
    BY <1>1, <1>2, <1>5
  <2> QED
    BY <1>5, <2>1 DEF Amount, before
<1>8. Response(t, FALSE) = Expected(t)
  <2> DEFINE after == [o \in Sides(t) |-> left[o] - amount]
  <2>1. \A o \in Sides(t) : after[o] = RemainingAfter(t, o)
    BY <1>6 DEF RemainingAfter
  <2>2. Response(t, FALSE) = [bounced |-> FALSE \/ amount = 0, amount |-> amount,
                       executed |-> {o \in Sides(t) : after[o] = 0},
                       left |-> [o \in {s \in Sides(t) : after[s] # 0} |-> after[o]]]
    BY <1>3 DEF Response
  <2> HIDE DEF after
  <2>3. {o \in Sides(t) : after[o] = 0} = {o \in Sides(t) : RemainingAfter(t, o) = 0}
    BY <2>1
  <2>4. {s \in Sides(t) : after[s] # 0} = {s \in Sides(t) : RemainingAfter(t, s) # 0}
    BY <2>1
  <2>5. [o \in {s \in Sides(t) : after[s] # 0} |-> after[o]]
           = [o \in {s \in Sides(t) : RemainingAfter(t, s) # 0} |-> RemainingAfter(t, o)]
    BY <2>1, <2>4
  <2>6. (FALSE \/ amount = 0) = (amount = 0)
    OBVIOUS
  <2> QED
    BY <1>7, <2>2, <2>3, <2>5, <2>6 DEF Expected
<1> QED
  BY <1>6, <1>7, <1>8 DEF before

\* What the agent answers, whatever its orders have left, and what it leaves.
LEMMA ResponseType ==
    ASSUME NEW t \in Trades, NEW refused \in BOOLEAN, left \in [Orders -> Nat]
    PROVE  /\ Response(t, refused) \in Answers
           /\ [o \in Orders |-> IF o \in Sides(t) THEN left[o] - Response(t, refused).amount
                                ELSE left[o]] \in [Orders -> Nat]
           /\ ~Response(t, refused).bounced => refused = FALSE
<1>1. PICK amount : amount = MinOf(left[Taker[t]], left[Maker[t]])
  OBVIOUS
<1>2. /\ Taker[t] \in Orders /\ Maker[t] \in Orders
      /\ Sides(t) \subseteq Orders /\ Sides(t) = {Taker[t], Maker[t]}
  BY SidesAre DEF Sides
<1>3. /\ amount \in Nat
      /\ amount <= left[Taker[t]] /\ amount <= left[Maker[t]]
  BY <1>1, <1>2 DEF MinOf
<1>4. \A o \in Sides(t) : left[o] - amount \in Nat
  BY <1>2, <1>3
<1> DEFINE after == [o \in Sides(t) |-> left[o] - amount]
           done == {o \in Sides(t) : after[o] = 0}
           open == {s \in Sides(t) : after[s] # 0}
           rest == [o \in open |-> after[o]]
<1>5. Response(t, refused) = [bounced |-> refused \/ amount = 0, amount |-> amount,
                              executed |-> done, left |-> rest]
  BY <1>1 DEF Response
<1>6. \A o \in Sides(t) : after[o] \in Nat
  BY <1>4
<1>7. done \in SUBSET Orders /\ open \in SUBSET Orders /\ open \subseteq Sides(t)
  BY <1>2
<1>8. rest \in [open -> Nat]
  <2> HIDE DEF after
  <2> QED
    BY <1>6
<1>9. rest \in UNION {[D -> Nat] : D \in SUBSET Orders}
  <2> HIDE DEF rest, open
  <2> QED
    BY <1>7, <1>8
<1>10. (refused \/ amount = 0) \in BOOLEAN
  OBVIOUS
<1> HIDE DEF done, rest
<1>11. Response(t, refused) \in Answers
  BY <1>3, <1>5, <1>7, <1>9, <1>10 DEF Answers
<1>12. Response(t, refused).amount = amount
  BY <1>5
<1>13. Response(t, refused).bounced = (refused \/ amount = 0)
  BY <1>5
<1>14. [o \in Orders |-> IF o \in Sides(t) THEN left[o] - amount ELSE left[o]] \in [Orders -> Nat]
  BY <1>4
<1> QED
  BY <1>11, <1>12, <1>13, <1>14

LEMMA AgentExecutesKeeps ==
    ASSUME SettlementInv, Patient, AgentExecutes
    PROVE  SettlementInv'
<1> DEFINE u == Len(responses) + 1
<1>1. /\ StatusType /\ UnitsNumbered /\ AgentSound /\ HandlersSound /\ OvertakenSound
      /\ CommittedSound /\ UNCHANGED vars
      /\ Len(responses) < Len(units)
  BY DEF SettlementInv, AgentExecutes
<1>2. /\ Queue!IInv' /\ Queue!OrderInv' /\ UnitsNumbered' /\ RecordSound'
      /\ UNCHANGED <<status, txHash, units>>
  BY <1>1, QueueUnseen DEF vars, durable, Database
<1>3. /\ Len(responses) \in Nat /\ Len(units) \in Nat
      /\ u \in 1..Len(units) /\ u - 1 = Len(responses)
  BY <1>1, ResponsesAre, UnitsAre
<1>4. units[u] = u /\ u \in Trades /\ u # 0 /\ Sides(u) \subseteq Orders
  BY <1>1, <1>3, UnitsAre, SidesAre DEF UnitsNumbered
<1>5. PICK refused \in BOOLEAN : ExecuteUnit(u, refused)
  BY DEF AgentExecutes
<1>6. PICK r : r = Response(u, refused)
  OBVIOUS
<1> DEFINE shared == Sides(u) \cap disturbed # {}
<1>7. /\ responses' = Append(responses, r)
      /\ left' = IF r.bounced THEN left
                 ELSE [o \in Orders |-> IF o \in Sides(u) THEN left[o] - r.amount ELSE left[o]]
      /\ overtaken' = IF txHash[u] = u THEN overtaken ELSE overtaken \cup {u}
      /\ disturbed' = IF r.bounced \/ shared THEN disturbed \cup Sides(u) ELSE disturbed
      /\ astray' = IF ~r.bounced /\ shared THEN astray \cup {u} ELSE astray
      /\ inbox' = inbox \cup {u}
      /\ checks' = IF r.bounced THEN checks ELSE checks \cup {u}
  BY <1>4, <1>5, <1>6 DEF ExecuteUnit, OnAAResponse
<1>8. /\ left \in [Orders -> Nat]
      /\ \A o \in Orders \ disturbed : left[o] = Matched[u - 1][o]
      /\ responses \in Seq(Answers)
  BY <1>1, <1>3 DEF AgentSound
<1>9. /\ r \in Answers /\ left' \in [Orders -> Nat]
      /\ ~r.bounced => refused = FALSE
  BY <1>4, <1>6, <1>7, <1>8, ResponseType
<1>10. /\ r = Expected(u) \/ r.bounced \/ u \in astray'
       /\ \A o \in Orders \ disturbed' : left'[o] = Matched[u][o]
  <2>1. \A o \in Orders \ Sides(u) : Matched[u][o] = Matched[u - 1][o]
    <3>1. /\ Matched[u - 1] \in [Orders -> Nat]
          /\ Matched[u] = Exchange(Matched[u - 1], u)
      BY <1>4, TradesAre, MatchedType, MatchedUnfolds
    <3> HIDE DEF u
    <3>2. Matched[u] = [o \in Orders |->
             IF o \in Sides(u)
             THEN Matched[u - 1][o] - MinOf(Matched[u - 1][Taker[u]], Matched[u - 1][Maker[u]])
             ELSE Matched[u - 1][o]]
      BY <1>4, <3>1, ExchangeFacts
    <3> QED
      BY <3>2
  <2> HIDE DEF u
  <2>2. CASE r.bounced \/ shared
    <3>1. disturbed' = disturbed \cup Sides(u)
      BY <1>7, <2>2
    <3>2. \A o \in Orders \ Sides(u) : left'[o] = left[o]
      BY <1>7
    <3>3. r.bounced \/ u \in astray'
      BY <1>7, <2>2
    <3> QED
      BY <1>8, <2>1, <3>1, <3>2, <3>3
  <2>3. CASE ~r.bounced /\ ~shared
    <3>1. /\ disturbed' = disturbed /\ refused = FALSE
          /\ left' = [o \in Orders |-> IF o \in Sides(u) THEN left[o] - r.amount ELSE left[o]]
      BY <1>7, <1>9, <2>3
    <3>2. \A o \in Sides(u) : left[o] = Matched[u - 1][o]
      BY <1>4, <1>8, <2>3
    <3>3. /\ r = Expected(u)
          /\ \A o \in Sides(u) : Matched[u][o] = left[o] - Amount(u)
      BY <1>4, <1>6, <1>8, <3>1, <3>2, ResponseIs
    <3>4. r.amount = Amount(u)
      BY <3>3 DEF Expected
    <3> QED
      BY <1>4, <1>8, <2>1, <3>1, <3>3, <3>4
  <2> QED
    BY <2>2, <2>3
<1>11. overtaken \subseteq overtaken' /\ astray \subseteq astray'
  BY <1>7
<1> HIDE DEF u
<1>12. /\ responses' \in Seq(Answers)
       /\ Len(responses') = u
       /\ \A v \in 1..Len(responses) : responses'[v] = responses[v]
       /\ responses'[u] = r
  <2> HIDE DEF Answers
  <2>1. /\ responses' \in Seq(Answers)
        /\ Len(responses') = Len(responses) + 1
        /\ \A v \in 1..Len(responses) : responses'[v] = responses[v]
        /\ responses'[Len(responses) + 1] = r
    BY <1>7, <1>8, <1>9
  <2> QED
    BY <2>1 DEF u
<1>13. \A v \in 1..u : v \in 1..Len(responses) \/ v = u
  BY <1>3
<1>14. 1..Len(responses) \subseteq 1..u /\ u \in 1..u
  BY <1>3
<1>15. AgentSound'
  <2>1. ASSUME NEW v \in 1..u
        PROVE  responses'[v] = Expected(v) \/ responses'[v].bounced \/ v \in astray'
    <3>1. CASE v \in 1..Len(responses)
      <4>1. responses'[v] = responses[v]
        BY <1>12, <3>1
      <4>2. responses[v] = Expected(v) \/ responses[v].bounced \/ v \in astray
        BY <1>1, <3>1 DEF AgentSound
      <4> QED
        BY <1>11, <4>1, <4>2
    <3>2. CASE v = u
      <4>1. responses'[v] = r
        BY <1>12, <3>2
      <4>2. r = Expected(v) \/ r.bounced \/ v \in astray'
        BY <1>10, <3>2
      <4> QED
        BY <4>1, <4>2
    <3> QED
      BY <1>13, <3>1, <3>2
  <2>2. u <= Len(units')
    BY <1>2, <1>3
  <2>3. \A o \in Orders \ disturbed' : left'[o] = Matched[Len(responses')][o]
    BY <1>10, <1>12
  <2> QED
    BY <1>9, <1>12, <2>1, <2>2, <2>3 DEF AgentSound, Matched, Expected, Amount, RemainingAfter,
       Answers, Sides
<1>16. HandlersSound'
  <2>1. inbox' \subseteq 1..u
    BY <1>1, <1>7, <1>14 DEF HandlersSound
  <2>2. \A v \in checks' : v \in 1..u /\ ~responses'[v].bounced
    BY <1>1, <1>7, <1>12, <1>14 DEF HandlersSound
  <2> QED
    BY <1>12, <2>1, <2>2 DEF HandlersSound
<1>17. OvertakenSound'
  <2>1. \A v \in 1..u : txHash[v] = 0 => v \in overtaken'
    BY <1>1, <1>4, <1>7, <1>13 DEF OvertakenSound
  <2> QED
    BY <1>2, <1>12, <2>1 DEF OvertakenSound
<1>18. CommittedSound'
  BY <1>1, <1>2, <1>12, <1>14 DEF CommittedSound
<1> QED
  BY <1>1, <1>2, <1>15, <1>16, <1>17, <1>18 DEF SettlementInv, StatusType

\* The handlers take what they know from the responses.
LEMMA HandlersKeep ==
    ASSUME SettlementInv, Patient, UNCHANGED <<vars, left, responses, ghosts>>,
           checks' \subseteq {u \in 1..Len(responses) : ~responses[u].bounced},
           inbox' \subseteq 1..Len(responses)
    PROVE  SettlementInv'
<1>1. /\ StatusType /\ AgentSound /\ OvertakenSound /\ CommittedSound
      /\ UNCHANGED <<status, txHash, units, left, responses, overtaken, disturbed, astray>>
  BY DEF SettlementInv, vars, durable, ghosts
<1>2. Queue!IInv' /\ Queue!OrderInv' /\ UnitsNumbered' /\ RecordSound'
  BY QueueUnseen DEF vars, durable, Database
<1>3. AgentSound' /\ OvertakenSound' /\ CommittedSound'
  BY <1>1 DEF AgentSound, OvertakenSound, CommittedSound, Expected, Amount, RemainingAfter
<1>4. HandlersSound'
  BY <1>1 DEF HandlersSound
<1> QED
  BY <1>1, <1>2, <1>3, <1>4 DEF SettlementInv, StatusType

LEMMA CheckTradeKeeps ==
    ASSUME SettlementInv, Patient, NEW u \in checks, CheckTrade(u)
    PROVE  SettlementInv'
<1>1. /\ UNCHANGED <<vars, left, responses, ghosts>>
      /\ checks' \subseteq checks /\ inbox' = inbox
  BY DEF CheckTrade
<1>2. /\ checks \subseteq {v \in 1..Len(responses) : ~responses[v].bounced}
      /\ inbox \subseteq 1..Len(responses)
  BY DEF SettlementInv, HandlersSound
<1> QED
  BY <1>1, <1>2, HandlersKeep

LEMMA CatchUpKeeps ==
    ASSUME SettlementInv, Patient, CatchUp
    PROVE  SettlementInv'
<1>1. /\ checks \subseteq {v \in 1..Len(responses) : ~responses[v].bounced}
      /\ inbox \subseteq 1..Len(responses)
      /\ DOMAIN responses = 1..Len(responses)
  BY ResponsesAre DEF SettlementInv, HandlersSound
<1>2. CASE FindUncommitted
  BY <1>1, <1>2, HandlersKeep DEF FindUncommitted
<1>3. CASE HandleUncommitted
  <2> DEFINE rows == {txHash[t] : t \in catchup.trades} \cap DOMAIN responses
  <2>1. /\ inbox' = inbox \cup rows
        /\ checks' = checks \cup {u \in rows : ~responses[u].bounced}
        /\ UNCHANGED <<vars, left, responses, ghosts>>
    BY <1>3 DEF HandleUncommitted
  <2>2. rows \subseteq 1..Len(responses)
    BY <1>1
  <2> HIDE DEF rows
  <2> QED
    BY <1>1, <2>1, <2>2, HandlersKeep
<1> QED
  BY <1>2, <1>3 DEF CatchUp

\* The trade of the response is recorded in its unit, and it was executed.
LEMMA BackendSettlesKeeps ==
    ASSUME SettlementInv, Patient, NEW u \in inbox, BackendSettles(u)
    PROVE  SettlementInv'
<1>1. /\ StatusType /\ AgentSound /\ HandlersSound /\ OvertakenSound /\ CommittedSound
      /\ u \in 1..Len(responses)
      /\ inbox' \subseteq inbox /\ UNCHANGED <<checks, left, responses, ghosts>>
      /\ UNCHANGED <<txHash, units, stable, funds, events, backend, up, volatile, crashes>>
      /\ status' = [t \in Trades |-> IF t \in TradesIn(u) /\ ~responses[u].bounced
                                     THEN "COMMITTED" ELSE status[t]]
  BY DEF SettlementInv, HandlersSound, BackendSettles
<1>2. u \in 1..Len(units)
  <2>1. Len(responses) \in Nat /\ Len(units) \in Nat /\ Len(responses) <= Len(units)
    BY <1>1, ResponsesAre, UnitsAre DEF AgentSound
  <2> QED
    BY <1>1, <2>1
<1>3. \A t \in TradesIn(u) : t = u /\ u \in Trades /\ txHash[u] # 0
  BY <1>2, TradesInAre
<1>4. u \in Trades /\ txHash[u] # 0 => status[u] \in {"SUCCESS", "COMMITTED"}
  BY RecordIs
<1>5. UNCHANGED Database
  <2>1. \A t \in Trades : Database'[t] = Database[t]
    BY <1>1, <1>3, <1>4 DEF Database
  <2> QED
    BY <2>1 DEF Database
<1>6. Queue!IInv' /\ Queue!OrderInv' /\ UnitsNumbered' /\ RecordSound'
  BY <1>1, <1>5, QueueUnseen
<1>7. StatusType'
  BY <1>1 DEF StatusType
<1>8. CommittedSound'
  <2> SUFFICES ASSUME NEW t \in Trades, status'[t] = "COMMITTED"
               PROVE  t \in 1..Len(responses) /\ ~responses[t].bounced
    BY <1>1 DEF CommittedSound
  <2>1. status[t] = "COMMITTED" \/ (t \in TradesIn(u) /\ ~responses[u].bounced)
    BY <1>1
  <2> QED
    BY <1>1, <1>3, <2>1 DEF CommittedSound
<1>9. AgentSound' /\ HandlersSound' /\ OvertakenSound'
  BY <1>1 DEF AgentSound, HandlersSound, OvertakenSound, Expected, Amount, RemainingAfter, ghosts
<1> QED
  BY <1>6, <1>7, <1>8, <1>9 DEF SettlementInv

LEMMA SettlementInductive ==
    Patient => (SettlementSpec => []SettlementInv)
<1> SUFFICES ASSUME Patient PROVE SettlementSpec => []SettlementInv
  OBVIOUS
<1>1. SettlementInit => SettlementInv
  BY StartHolds
<1>2. SettlementInv /\ [SettlementNext]_allVars => SettlementInv'
  <2> SUFFICES ASSUME SettlementInv, [SettlementNext]_allVars
               PROVE  SettlementInv'
    OBVIOUS
  <2>1. CASE QueueStep \/ CrashAll \/ RestartAll
    BY <2>1, QueueStepKeeps
  <2>2. CASE AgentExecutes
    BY <2>2, AgentExecutesKeeps
  <2>3. CASE Check
    BY <2>3, CheckTradeKeeps, CheckThrowsKeeps DEF Check
  <2>4. CASE \E u \in inbox : BackendSettles(u)
    BY <2>4, BackendSettlesKeeps
  <2>5. CASE CatchUp
    BY <2>5, CatchUpKeeps
  <2>6. CASE UNCHANGED allVars
    BY <2>6, HandlersKeep DEF allVars, settlement, memory, SettlementInv, HandlersSound
  <2> QED
    BY <2>1, <2>2, <2>3, <2>4, <2>5, <2>6 DEF SettlementNext
<1> QED
  BY <1>1, <1>2, PTL DEF SettlementSpec

-----------------------------------------------------------------------------
(* The properties *)

\* A trade is committed only after the agent executed it, in the unit that the
\* database names and for the amount that the backend matched, whatever fails,
\* crashes or is handled twice (onAAResponse, updateTradeStatuses), unless it
\* shares an order with a trade that bounced, directly or through other trades.
THEOREM SettledAsMatched ==
    Patient => (SettlementSpec => []CommittedAsMatched)
<1>1. SettlementInv => CommittedAsMatched
  <2> SUFFICES ASSUME SettlementInv, NEW t \in Trades, status[t] = "COMMITTED"
               PROVE  /\ txHash[t] \in DOMAIN responses
                      /\ units[txHash[t]] = t
                      /\ ~responses[txHash[t]].bounced
                      /\ responses[txHash[t]].amount = Amount(t) \/ t \in astray
    BY DEF CommittedAsMatched
  <2>1. txHash[t] = t /\ t \in 1..Len(units)
    BY RecordIs
  <2>2. t \in 1..Len(responses) /\ ~responses[t].bounced
    BY DEF SettlementInv, CommittedSound
  <2>3. /\ responses[t] = Expected(t) \/ t \in astray
        /\ DOMAIN responses = 1..Len(responses) /\ units[t] = t
    BY <2>1, <2>2, ResponsesAre DEF SettlementInv, AgentSound, UnitsNumbered
  <2> QED
    BY <2>1, <2>2, <2>3 DEF Expected
<1> QED
  BY <1>1, SettlementInductive, PTL

\* The trades that the backend knows of are at least those that were sent.
LEMMA KnownTrades ==
    ASSUME SettlementInv, NEW u \in 1..Len(units)
    PROVE  /\ u \in 0..Cardinality(Trades)
           /\ Cardinality({t \in Trades : status[t] # "NONE"}) \in u..Cardinality(Trades)
<1> DEFINE known == {t \in Trades : status[t] # "NONE"}
           m == Cardinality(known)
<1>1. /\ Len(units) \in Nat
      /\ 1..Len(units) \subseteq Trades
      /\ 1..Len(units) \subseteq Queue!Created
  BY UnitsAre
<1>2. 1..u \subseteq known
  <2> SUFFICES ASSUME NEW t \in 1..u
               PROVE  t \in Trades /\ status[t] # "NONE"
    OBVIOUS
  <2>1. t \in 1..Len(units)
    BY <1>1
  <2>2. t \in Trades /\ Database[t] # "NONE"
    BY <1>1, <2>1 DEF SettlementInv, Queue!OrderInv, Queue!RecordedSound
  <2> QED
    BY <2>2 DEF Database
<1>3. IsFiniteSet(Trades)
  <2>1. PICK n \in Nat : n = Cardinality(Trades)
    BY TradesAre
  <2>2. IsFiniteSet(1..n)
    BY <2>1, FS_Interval
  <2> QED
    BY <2>1, <2>2, NumbersAssumption
<1>4. IsFiniteSet(known) /\ m \in Nat /\ m <= Cardinality(Trades)
  BY <1>3, FS_Subset, FS_CardinalityType
<1>5. u <= m
  <2>1. u \in Nat /\ Cardinality(1..u) = u
    <3>1. u \in Nat \ {0}
      BY <1>1
    <3>2. Cardinality(1..u) = IF 1 > u THEN 0 ELSE u - 1 + 1
      BY <3>1, FS_Interval
    <3> QED
      BY <3>1, <3>2
  <2>2. Cardinality(1..u) <= m
    BY <1>2, <1>4, FS_Subset
  <2> QED
    BY <2>1, <2>2
<1>6. u \in 0..Cardinality(Trades) /\ m \in u..Cardinality(Trades)
  <2>1. u \in Trades
    BY <1>1
  <2> HIDE DEF m
  <2> QED
    BY <1>4, <1>5, <2>1, TradesAre
<1> QED
  BY <1>6

\* What an order has left in the database is not more than after a trade that
\* was sent.
LEMMA RemainingFalls ==
    ASSUME SettlementInv, NEW u \in 1..Len(units), NEW o \in Orders
    PROVE  Remaining(o) \in Nat /\ Remaining(o) <= Matched[u][o]
<1>1. PICK m : m = Cardinality({t \in Trades : status[t] # "NONE"})
  OBVIOUS
<1>2. u \in 0..Cardinality(Trades) /\ m \in u..Cardinality(Trades)
  BY <1>1, KnownTrades
<1>3. m \in 0..Cardinality(Trades)
  BY <1>2, TradesAre
<1>4. Matched[m][o] \in Nat /\ Matched[m][o] <= Matched[u][o]
  BY <1>2, <1>3, MatchedType, MatchedFalls
<1> QED
  BY <1>1, <1>4 DEF Remaining

LEMMA SidesCounted ==
    ASSUME NEW t \in Trades, NEW S \in SUBSET Sides(t)
    PROVE  /\ S # {} => Cardinality(S) \in {1, 2}
           /\ S # Sides(t) => Cardinality(S) <= 1
<1>1. PICK x, y : x = Taker[t] /\ y = Maker[t]
  OBVIOUS
<1>2. x # y /\ Sides(t) = {x} \cup {y}
  BY <1>1, SidesAre DEF Sides
<1>3. S = {} \/ S = {x} \/ S = {y} \/ S = {x} \cup {y}
  BY <1>2
<1>4. Cardinality({}) = 0 /\ IsFiniteSet({x}) /\ Cardinality({x}) = 1 /\ Cardinality({y}) = 1
  BY FS_EmptySet, FS_Singleton
<1>5. Cardinality({x} \cup {y}) = 2
  <2>1. Cardinality({x} \cup {y}) = Cardinality({x}) + 1
    BY <1>2, <1>4, FS_AddElement
  <2> QED
    BY <1>4, <2>1
<1>6. CASE S = {}
  BY <1>4, <1>6
<1>7. CASE S = {x} \/ S = {y}
  <2>1. Cardinality(S) = 1
    BY <1>4, <1>7
  <2> QED
    BY <2>1
<1>8. CASE S = {x} \cup {y}
  <2>1. Cardinality(S) = 2 /\ S = Sides(t)
    BY <1>2, <1>5, <1>8
  <2> QED
    BY <2>1
<1> QED
  BY <1>3, <1>6, <1>7, <1>8

\* checkTrade agrees with the response of a trade that is recorded, and misses
\* only a trade that was overtaken, where no bounced trade disturbed the orders.
LEMMA VerdictIs ==
    ASSUME SettlementInv, NEW u \in checks, u \notin astray
    PROVE  Verdict(u) = IF txHash[u] = 0 THEN "own trade not found" ELSE "ok"
<1>1. /\ u \in 1..Len(responses) /\ ~responses[u].bounced
      /\ responses[u] = Expected(u)
      /\ Len(responses) \in Nat /\ Len(responses) <= Len(units)
  BY ResponsesAre DEF SettlementInv, HandlersSound, AgentSound
<1>2. u \in 1..Len(units) /\ u \in Trades
  <2>1. Len(units) \in Nat
    BY UnitsAre
  <2>2. u \in 1..Len(units)
    BY <1>1, <2>1
  <2> QED
    BY <2>2, TradesInAre
<1>3. TradesIn(u) = IF txHash[u] = 0 THEN {} ELSE {u}
  BY <1>2, TradesInAre
<1>4. /\ responses[u].amount = Amount(u)
      /\ responses[u].executed = {o \in Sides(u) : RemainingAfter(u, o) = 0}
      /\ DOMAIN responses[u].left = {s \in Sides(u) : RemainingAfter(u, s) # 0}
      /\ \A o \in DOMAIN responses[u].left : responses[u].left[o] = RemainingAfter(u, o)
  BY <1>1 DEF Expected
<1> DEFINE done == responses[u].executed
           rest == responses[u].left
<1>5. /\ \A o \in Orders : RemainingAfter(u, o) \in Nat
      /\ RemainingAfter(u, Taker[u]) = 0 \/ RemainingAfter(u, Maker[u]) = 0
  <2>1. /\ Matched[u] = Exchange(Matched[u - 1], u)
        /\ Matched[u - 1] \in [Orders -> Nat]
    BY <1>2, TradesAre, MatchedUnfolds, MatchedType
  <2> QED
    BY <1>2, <2>1, ExchangeFacts DEF RemainingAfter
<1>6. Cardinality(done) \in {1, 2} /\ Cardinality(DOMAIN rest) <= 1
  <2>1. done \subseteq Sides(u) /\ done # {}
    BY <1>4, <1>5 DEF Sides
  <2>2. DOMAIN rest \subseteq Sides(u) /\ DOMAIN rest # Sides(u)
    BY <1>4, <1>5 DEF Sides
  <2> HIDE DEF done, rest
  <2> QED
    BY <1>2, <2>1, <2>2, SidesCounted
<1>7. \A o \in Sides(u) : /\ Remaining(o) \in Nat
                          /\ Remaining(o) <= RemainingAfter(u, o)
                          /\ RemainingAfter(u, o) \in Nat
  <2>1. Sides(u) \subseteq Orders
    BY <1>2, SidesAre
  <2>2. \A o \in Orders : Remaining(o) \in Nat /\ Remaining(o) <= RemainingAfter(u, o)
    BY <1>2, RemainingFalls DEF RemainingAfter
  <2> QED
    BY <1>5, <2>1, <2>2
<1>8. ~\E t \in TradesIn(u) : Amount(t) # responses[u].amount
  BY <1>3, <1>4
<1>9. ~\E o \in done : Remaining(o) # 0
  <2> SUFFICES ASSUME NEW o \in done PROVE Remaining(o) = 0
    OBVIOUS
  <2>1. o \in Sides(u) /\ RemainingAfter(u, o) = 0
    BY <1>4
  <2>2. Remaining(o) \in Nat /\ Remaining(o) <= 0
    BY <1>7, <2>1
  <2> QED
    BY <2>2
<1>10. ~\E o \in DOMAIN rest : Remaining(o) > rest[o]
  <2> SUFFICES ASSUME NEW o \in DOMAIN rest PROVE ~(Remaining(o) > rest[o])
    OBVIOUS
  <2>1. o \in Sides(u) /\ rest[o] = RemainingAfter(u, o)
    BY <1>4
  <2> QED
    BY <1>7, <2>1
<1>11. ~\E o \in DOMAIN rest, t \in TradesIn(u) :
          o \notin Sides(t) \/ RemainingAfter(t, o) # rest[o]
  <2>1. \A o \in DOMAIN rest : o \in Sides(u) /\ rest[o] = RemainingAfter(u, o)
    BY <1>4
  <2> QED
    BY <1>3, <2>1
<1>12. CASE txHash[u] = 0
  <2>1. TradesIn(u) = {}
    BY <1>3, <1>12
  <2> QED
    BY <1>6, <1>8, <1>9, <1>10, <1>11, <1>12, <2>1 DEF Verdict
<1>13. CASE txHash[u] # 0
  <2>1. TradesIn(u) # {}
    BY <1>3, <1>13
  <2> QED
    BY <1>6, <1>8, <1>9, <1>10, <1>11, <1>13, <2>1 DEF Verdict
<1> QED
  BY <1>12, <1>13

\* Between the agent and the database, checkTrade finds nothing wrong, however
\* trades are delayed, split, retried and refused, but for the response to a trade
\* that the queue has not recorded yet and those to trades that share an order
\* with one that bounced, directly or through other trades.
THEOREM StopsAreExplained ==
    Patient => (SettlementSpec => []ChecksAgree)
<1>1. SettlementInv => ChecksAgree
  <2> SUFFICES ASSUME SettlementInv, NEW u \in checks
               PROVE  \/ Verdict(u) = "ok"
                      \/ Verdict(u) = "own trade not found" /\ units[u] \in overtaken
                      \/ units[u] \in astray
    BY DEF ChecksAgree
  <2>1. /\ u \in 1..Len(responses)
        /\ Len(responses) \in Nat /\ Len(responses) <= Len(units) /\ Len(units) \in Nat
    BY ResponsesAre, UnitsAre DEF SettlementInv, HandlersSound, AgentSound
  <2>2. units[u] = u
    BY <2>1 DEF SettlementInv, UnitsNumbered
  <2>3. txHash[u] = 0 => u \in overtaken
    BY <2>1 DEF SettlementInv, OvertakenSound
  <2> QED
    BY <2>2, <2>3, VerdictIs
<1> QED
  BY <1>1, SettlementInductive, PTL
=============================================================================
