------------------------- MODULE TradeQueue_proofs -------------------------
(***************************************************************************)
(* Safety of the trade queue for any batches, any number of crashes and    *)
(* any funds.  For every backend: what the database calls sent is on the   *)
(* DAG, no pending trade is forgotten, and without a crash what was sent   *)
(* is announced.  For a backend that calls a ready wallet only: the trades *)
(* are sent in the order in which they were matched, each of them once,    *)
(* and each is announced once.                                             *)
(***************************************************************************)
EXTENDS TradeQueue, SequenceTheorems, FiniteSetTheorems, NaturalsInduction,
        WellFoundedInduction, TLAPS

\* The trades that the backend has created.
Created == UNION {ToSet(Batches[i]) : i \in 1..created}

JobType == [pc : {"idle", "wait", "send", "update"}, matches : Seq(Trades),
            sent : Seq(Nat), updated : Nat]

InitType == [pc : {"load", "check", "announce", "done"}, todo : Seq(Trades)]

-----------------------------------------------------------------------------
(* Sequences of trades *)

LEMMA SeqInto ==
    ASSUME NEW A, NEW B, NEW s \in Seq(A), \A k \in 1..Len(s) : s[k] \in B
    PROVE  s \in Seq(B)
<1>1. Len(s) \in Nat /\ s \in [1..Len(s) -> A]
  BY LenProperties
<1>2. s \in [1..Len(s) -> B]
  BY <1>1
<1> QED
  BY <1>1, <1>2, SeqDef

LEMMA BatchType ==
    ASSUME NEW i \in 1..Len(Batches)
    PROVE  /\ Batches[i] \in Seq(Trades)
           /\ Batches[i] # <<>>
           /\ ToSet(Batches[i]) \subseteq Trades
<1>1. Batches[i] \in Seq(Nat \ {0})
  BY BatchesAssumption
<1>2. ToSet(Batches[i]) \subseteq Trades
  BY DEF Trades
<1>3. \A k \in 1..Len(Batches[i]) : Batches[i][k] \in Trades
  BY <1>1, <1>2 DEF ToSet
<1>4. Batches[i] \in Seq(Trades)
  BY <1>1, <1>3, SeqInto
<1> QED
  BY <1>2, <1>4, BatchesAssumption

LEMMA TradeNumbers ==
    Trades \subseteq Nat \ {0}
<1> SUFFICES ASSUME NEW i \in 1..Len(Batches), NEW t \in ToSet(Batches[i])
             PROVE  t \in Nat \ {0}
  BY DEF Trades
<1>1. Batches[i] \in Seq(Nat \ {0})
  BY BatchesAssumption
<1> QED
  BY <1>1 DEF ToSet

LEMMA ImageFinite ==
    ASSUME NEW S, IsFiniteSet(S), NEW f, DOMAIN f = S, f = [x \in S |-> f[x]]
    PROVE  IsFiniteSet({f[x] : x \in S})
<1>1. f \in Surjection(S, {f[x] : x \in S})
  BY DEF Surjection
<1> QED
  BY <1>1, FS_Surjection

LEMMA ElementsFinite ==
    ASSUME NEW S, NEW s \in Seq(S)
    PROVE  IsFiniteSet(ToSet(s))
<1>1. Len(s) \in Nat /\ DOMAIN s = 1..Len(s) /\ s \in [1..Len(s) -> S]
  BY LenProperties
<1>2. IsFiniteSet(1..Len(s))
  BY <1>1, FS_Interval
<1> QED
  BY <1>1, <1>2, ImageFinite DEF ToSet

LEMMA TradesFinite ==
    IsFiniteSet(Trades)
<1> DEFINE Elements == [i \in 1..Len(Batches) |-> ToSet(Batches[i])]
           Sets == {Elements[i] : i \in 1..Len(Batches)}
<1>1. \A i \in 1..Len(Batches) : IsFiniteSet(ToSet(Batches[i]))
  BY BatchesAssumption, ElementsFinite
<1>2. IsFiniteSet(1..Len(Batches))
  BY FS_Interval, BatchesAssumption
<1>3. IsFiniteSet(Sets)
  BY <1>2, ImageFinite
<1>4. \A S \in Sets : IsFiniteSet(S)
  BY <1>1
<1>5. Trades = UNION Sets
  BY DEF Trades
<1> HIDE DEF Sets
<1> QED
  BY <1>3, <1>4, <1>5, FS_UNION

LEMMA SortedType ==
    ASSUME NEW S \in SUBSET Trades, NEW s \in Sorted(S)
    PROVE  s \in Seq(Trades) /\ ToSet(s) = S
<1>1. Cardinality(S) \in Nat
  BY TradesFinite, FS_Subset, FS_CardinalityType
<1>2. s \in [1..Cardinality(S) -> S] /\ ToSet(s) = S
  BY DEF Sorted
<1>3. s \in Seq(S)
  BY <1>1, <1>2
<1> QED
  BY <1>2, <1>3, SeqMonotonic

LEMMA AnnounceType ==
    ASSUME TypeOK, NEW trades \in Seq(Trades), NEW st \in {"PENDING", "SUCCESS"}
    PROVE  Announce(trades, st) \in Seq(Seq([trade : Trades, status : {"PENDING", "SUCCESS"}]))
<1> DEFINE E == [trade : Trades, status : {"PENDING", "SUCCESS"}]
           e == [i \in 1..Len(trades) |-> [trade |-> trades[i], status |-> st]]
<1>1. Len(trades) \in Nat /\ \A i \in 1..Len(trades) : trades[i] \in Trades
  OBVIOUS
<1>2. e \in Seq(E)
  BY <1>1
<1>3. events \in Seq(Seq(E))
  BY DEF TypeOK
<1> HIDE DEF E, e
<1>4. Append(events, e) \in Seq(Seq(E))
  BY <1>2, <1>3
<1> QED
  BY <1>3, <1>4 DEF Announce, E, e

-----------------------------------------------------------------------------
(* The inductive invariant *)

\* What a worker has sent is the first part of its batch, in its order, and
\* what it has recorded of that is settled in the database.
JobSound(j, us, st) ==
    /\ Len(j.sent) <= Len(j.matches)
    /\ j.updated <= Len(j.sent)
    /\ \A k \in 1..Len(j.sent) :
          j.sent[k] \in 1..Len(us) /\ us[j.sent[k]] = j.matches[k]
    /\ \A k \in 1..j.updated : st[j.matches[k]] = "SUCCESS"
    /\ j.pc = "send" => Len(j.sent) < Len(j.matches)
    /\ j.pc = "idle" => j = Idle
    /\ j.pc = "wait" => j.matches # <<>> /\ j.sent = <<>> /\ j.updated = 0

JobsSound == \A w \in Workers : JobSound(job[w], units, status)

\* A retry works on the head of the queue, and nobody takes the head from it.
ResendSound ==
    /\ job["resend"].pc # "wait"
    /\ job["resend"].pc # "idle" =>
          retryLock /\ queue # <<>> /\ Head(queue) = job["resend"].matches

\* No batch in memory is empty.
BatchesSound ==
    /\ \A i \in 1..Len(queue) : queue[i] # <<>>
    /\ \A i \in 1..Len(calls) : calls[i] # <<>>
    /\ \A i \in 1..Len(toCall) : toCall[i] # <<>>

\* Nothing is sent before the queue is initialized, and a process that is down
\* has no memory.
InitSound ==
    /\ init.pc # "done" =>
          job["execute"].pc \in {"idle", "wait"} /\ ~retryLock /\ waiting = 0
    /\ init.pc = "done" => init.todo = <<>>
    /\ init.pc = "announce" => init.todo # <<>> /\ status[Head(init.todo)] = "SUCCESS"
    /\ ~up => init.pc = "load"

\* Only trades that the backend has created are in the database and in memory.
CreatedSound ==
    /\ \A t \in Trades : status[t] # "NONE" => t \in Created
    /\ queue \in Seq(Seq(Created))
    /\ calls \in Seq(Seq(Created))
    /\ toCall \in Seq(Seq(Created))
    /\ init.todo \in Seq(Created)
    /\ \A w \in Workers : job[w].matches \in Seq(Created)

\* A pending trade is in memory, or still to be looked at by initQueue.
NoneForgotten ==
    init.pc # "load" =>
        \A t \in Trades : status[t] = "PENDING" => Tracked(t) \/ t \in ToSet(init.todo)

IInv ==
    /\ TypeOK
    /\ JobsSound
    /\ ResendSound
    /\ BatchesSound
    /\ InitSound
    /\ CreatedSound
    /\ SuccessIsOnDag
    /\ NoneForgotten

-----------------------------------------------------------------------------
(* Which actions change what *)

LEMMA WhoSettles ==
    ASSUME [Next]_vars
    PROVE  \/ UNCHANGED <<status, txHash>>
           \/ BackendCreate \/ InitAlreadySent \/ \E w \in Workers : UpdateOne(w)
  BY DEF Next, vars, durable, backend, volatile, Work, Execute, Resend, Initialize,
         BackendCall, SendOne, SendFailsLater, TakeCall, ExecuteBehindQueue, ExecuteNow,
         ExecuteNothing, ExecuteDone, NextRetry, ResendNothing, ResendPart, ResendAll,
         BecameStable, WithdrawalToOperator, InitLoad, InitQueue, InitAnnounce, InitDone,
         Crash, Down, Restart

LEMMA WhoPosts ==
    ASSUME [Next]_vars
    PROVE  UNCHANGED units \/ \E w \in Workers : SendOne(w)
  BY DEF Next, vars, durable, backend, volatile, Work, Execute, Resend, Initialize,
         BackendCreate, BackendCall, SendFailsLater, UpdateOne, TakeCall,
         ExecuteBehindQueue, ExecuteNow, ExecuteNothing, ExecuteDone, NextRetry,
         ResendNothing, ResendPart, ResendAll, BecameStable, WithdrawalToOperator, InitLoad,
         InitQueue, InitAlreadySent, InitAnnounce, InitDone, Crash, Down, Restart

LEMMA WhoAnnounces ==
    ASSUME [Next]_vars
    PROVE  UNCHANGED events \/ ExecuteDone \/ ResendPart \/ ResendAll \/ InitAnnounce
  BY DEF Next, vars, durable, backend, volatile, Work, Execute, Resend, Initialize,
         BackendCreate, BackendCall, SendOne, SendFailsLater, UpdateOne, TakeCall,
         ExecuteBehindQueue, ExecuteNow, ExecuteNothing, NextRetry, ResendNothing,
         BecameStable, WithdrawalToOperator, InitLoad, InitQueue, InitAlreadySent, InitDone,
         Crash, Down, Restart

LEMMA WhoCalls ==
    ASSUME [Next]_vars
    PROVE  \/ UNCHANGED <<created, calls, toCall>>
           \/ BackendCreate \/ BackendCall \/ TakeCall \/ Crash
  BY DEF Next, vars, durable, backend, volatile, Work, Execute, Resend, Initialize,
         SendOne, SendFailsLater, UpdateOne, ExecuteBehindQueue, ExecuteNow,
         ExecuteNothing, ExecuteDone, NextRetry, ResendNothing, ResendPart, ResendAll,
         BecameStable, WithdrawalToOperator, InitLoad, InitQueue, InitAlreadySent,
         InitAnnounce, InitDone, Restart

LEMMA WhoQueues ==
    ASSUME [Next]_vars
    PROVE  \/ UNCHANGED queue
           \/ ExecuteBehindQueue \/ ExecuteNothing \/ ExecuteDone
           \/ ResendPart \/ ResendAll \/ InitQueue \/ Crash
  BY DEF Next, vars, durable, backend, volatile, Work, Execute, Resend, Initialize,
         BackendCreate, BackendCall, SendOne, SendFailsLater, UpdateOne, TakeCall,
         ExecuteNow, NextRetry, ResendNothing, BecameStable, WithdrawalToOperator, InitLoad,
         InitAlreadySent, InitAnnounce, InitDone, Restart

LEMMA WhoInitializes ==
    ASSUME [Next]_vars
    PROVE  \/ UNCHANGED init
           \/ InitLoad \/ InitQueue \/ InitAlreadySent \/ InitAnnounce \/ InitDone \/ Crash
  BY DEF Next, vars, durable, backend, volatile, Work, Execute, Resend, Initialize,
         BackendCreate, BackendCall, SendOne, SendFailsLater, UpdateOne, TakeCall,
         ExecuteBehindQueue, ExecuteNow, ExecuteNothing, ExecuteDone, NextRetry,
         ResendNothing, ResendPart, ResendAll, BecameStable, WithdrawalToOperator, Restart

\* A step that starts a retry, or leaves it waiting for the lock
StartsRetry == NextRetry \/ BecameStable \/ WithdrawalToOperator \/ InitDone

LEMMA WhoWorks ==
    ASSUME [Next]_vars
    PROVE  \/ UNCHANGED job
           \/ TakeCall \/ ExecuteBehindQueue \/ ExecuteNow \/ ExecuteNothing \/ ExecuteDone
           \/ StartsRetry \/ ResendNothing \/ ResendPart \/ ResendAll \/ Crash
           \/ \E w \in Workers : SendOne(w) \/ SendFailsLater(w) \/ UpdateOne(w)
  BY DEF Next, vars, durable, backend, volatile, Work, Execute, Resend, Initialize,
         BackendCreate, BackendCall, InitLoad, InitQueue, InitAlreadySent, InitAnnounce,
         Restart, StartsRetry

LEMMA WhoLocks ==
    ASSUME [Next]_vars
    PROVE  UNCHANGED <<retryLock, waiting>> \/ StartsRetry \/ ResendNothing \/ Crash
  BY DEF Next, vars, durable, backend, volatile, Work, Execute, Resend, Initialize,
         BackendCreate, BackendCall, SendOne, SendFailsLater, UpdateOne, TakeCall,
         ExecuteBehindQueue, ExecuteNow, ExecuteNothing, ExecuteDone, ResendPart, ResendAll,
         InitLoad, InitQueue, InitAlreadySent, InitAnnounce, Restart, StartsRetry

-----------------------------------------------------------------------------
(* Sequences and jobs after a step *)

LEMMA AppendFacts ==
    ASSUME NEW S, NEW s \in Seq(S), NEW e \in S
    PROVE  /\ Append(s, e) \in Seq(S)
           /\ Len(Append(s, e)) = Len(s) + 1
           /\ \A i \in 1..Len(s) : Append(s, e)[i] = s[i]
           /\ Append(s, e)[Len(s) + 1] = e
           /\ ToSet(Append(s, e)) = ToSet(s) \cup {e}
  BY DEF ToSet

LEMMA TailFacts ==
    ASSUME NEW S, NEW s \in Seq(S), s # <<>>
    PROVE  /\ Len(s) \in Nat \ {0}
           /\ Head(s) \in S
           /\ Head(s) = s[1]
           /\ Tail(s) \in Seq(S)
           /\ Len(Tail(s)) = Len(s) - 1
           /\ \A i \in 1..Len(Tail(s)) : Tail(s)[i] = s[i + 1]
           /\ ToSet(s) = {Head(s)} \cup ToSet(Tail(s))
<1>1. /\ Len(s) \in Nat \ {0}
      /\ Head(s) \in S
      /\ Head(s) = s[1]
      /\ Tail(s) \in Seq(S)
      /\ Len(Tail(s)) = Len(s) - 1
      /\ \A i \in 1..Len(Tail(s)) : Tail(s)[i] = s[i + 1]
  BY EmptySeq, HeadTailProperties
<1>2. ASSUME NEW i \in 1..Len(s)
      PROVE  s[i] = Head(s) \/ \E k \in 1..Len(Tail(s)) : s[i] = Tail(s)[k]
  <2>1. CASE i = 1
    BY <1>1, <2>1
  <2>2. CASE i # 1
    <3>1. i - 1 \in 1..Len(Tail(s)) /\ (i - 1) + 1 = i
      BY <1>1, <2>2
    <3> QED
      BY <1>1, <3>1
  <2> QED
    BY <2>1, <2>2
<1>3. DOMAIN s = 1..Len(s) /\ DOMAIN Tail(s) = 1..Len(Tail(s))
  BY <1>1, LenProperties
<1>4. \A k \in 1..Len(Tail(s)) : k + 1 \in 1..Len(s)
  BY <1>1
<1>5. ToSet(s) \subseteq {Head(s)} \cup ToSet(Tail(s))
  BY <1>2, <1>3 DEF ToSet
<1>6. {Head(s)} \cup ToSet(Tail(s)) \subseteq ToSet(s)
  BY <1>1, <1>3, <1>4 DEF ToSet
<1> QED
  BY <1>1, <1>5, <1>6

\* The rest of a sequence from place n + 1 on.
Rest(s, n) == SubSeq(s, n + 1, Len(s))

LEMMA RestFacts ==
    ASSUME NEW S, NEW s \in Seq(S), NEW n \in 0..Len(s)
    PROVE  /\ Rest(s, n) \in Seq(S)
           /\ Len(Rest(s, n)) = Len(s) - n
           /\ \A i \in 1..Len(s) : i <= n \/ s[i] \in ToSet(Rest(s, n))
<1> DEFINE u == Rest(s, n)
<1>1. Len(s) \in Nat /\ n \in Nat /\ n <= Len(s)
  OBVIOUS
<1>2. \A i \in (n + 1)..Len(s) : s[i] \in S
  BY <1>1, ElementOfSeq
<1>3. n + 1 \in Int /\ Len(s) \in Int
  BY <1>1
<1>4. /\ u \in Seq(S)
      /\ Len(u) = IF n + 1 <= Len(s) THEN Len(s) - (n + 1) + 1 ELSE 0
      /\ \A i \in 1..(Len(s) - (n + 1) + 1) : u[i] = s[n + 1 + i - 1]
  BY <1>2, <1>3, SubSeqProperties DEF Rest
<1> HIDE DEF u
<1>5. Len(u) = Len(s) - n
  BY <1>1, <1>4
<1>6. DOMAIN u = 1..Len(u)
  BY <1>4, LenProperties
<1>7. ASSUME NEW i \in 1..Len(s), i > n
      PROVE  s[i] \in ToSet(u)
  <2>1. i - n \in 1..(Len(s) - n) /\ n + 1 + (i - n) - 1 = i
    BY <1>1, <1>7
  <2>2. u[i - n] = s[i]
    BY <1>1, <1>4, <2>1
  <2> QED
    BY <1>5, <1>6, <2>1, <2>2 DEF ToSet
<1> QED
  BY <1>1, <1>4, <1>5, <1>7 DEF u

\* The first part of a batch and the rest of it.
LEMMA PartsFacts ==
    ASSUME NEW S, NEW j, j.matches \in Seq(S), Len(j.sent) \in Nat,
           Len(j.sent) <= Len(j.matches)
    PROVE  /\ Successful(j) \in Seq(S)
           /\ Unsent(j) \in Seq(S)
           /\ Len(Unsent(j)) = Len(j.matches) - Len(j.sent)
           /\ \A i \in 1..Len(j.matches) :
                 i <= Len(j.sent) \/ j.matches[i] \in ToSet(Unsent(j))
<1>1. Len(j.sent) \in 0..Len(j.matches)
  OBVIOUS
<1>2. \A i \in 1..Len(j.sent) : j.matches[i] \in S
  OBVIOUS
<1>3. Successful(j) \in Seq(S)
  BY <1>2, SubSeqProperties DEF Successful
<1>4. Unsent(j) = Rest(j.matches, Len(j.sent))
  BY DEF Unsent, Rest
<1> QED
  BY <1>1, <1>3, <1>4, RestFacts


\* The variable job and its types.
LEMMA JobType1 ==
    ASSUME TypeOK, NEW w \in Workers
    PROVE  /\ job \in [Workers -> JobType]
           /\ job[w] \in JobType
           /\ job[w].matches \in Seq(Trades)
           /\ job[w].sent \in Seq(Nat)
           /\ Len(job[w].sent) \in Nat
           /\ Len(job[w].matches) \in Nat
           /\ job[w].updated \in Nat
<1>1. job \in [Workers -> JobType]
  BY Zenon DEF TypeOK, JobType
<1>2. job[w] \in JobType
  BY <1>1
<1>3. /\ job[w].matches \in Seq(Trades)
      /\ job[w].sent \in Seq(Nat)
      /\ job[w].updated \in Nat
  BY <1>2 DEF JobType
<1>4. Len(job[w].sent) \in Nat /\ Len(job[w].matches) \in Nat
  BY <1>3, LenProperties
<1> QED
  BY <1>1, <1>2, <1>3, <1>4

LEMMA IdleType ==
    /\ Idle \in JobType
    /\ \A m \in Seq(Trades) : Sending(m) \in JobType
<1>1. Idle \in JobType
  BY EmptySeq DEF Idle, JobType
<1> QED
  BY <1>1 DEF Sending, JobType

-----------------------------------------------------------------------------
(* Types *)

LEMMA JobTypeStep ==
    ASSUME IInv, [Next]_vars
    PROVE  job' \in [Workers -> JobType]
<1> USE DEF IInv, Workers
<1> /\ "execute" \in Workers
    /\ "resend" \in Workers
    /\ TypeOK
  OBVIOUS
<1>1. ASSUME NEW w \in Workers, NEW j \in JobType, job' = [job EXCEPT ![w] = j]
      PROVE  job' \in [Workers -> JobType]
  BY <1>1, JobType1
<1>2. ASSUME StartsRetry
      PROVE  \/ UNCHANGED job
             \/ queue # <<>> /\ job' = [job EXCEPT !["resend"] = Sending(Head(queue))]
  BY <1>2 DEF StartsRetry, NextRetry, BecameStable, WithdrawalToOperator, InitDone, Retry,
              BeginRetry
<1>3. CASE UNCHANGED job
  BY <1>3, JobType1
<1>4. CASE TakeCall
  <2>1. Head(calls) \in Seq(Trades)
    BY <1>4, TailFacts DEF TakeCall, TypeOK
  <2> DEFINE j == [Idle EXCEPT !.pc = "wait", !.matches = Head(calls)]
  <2>2. j \in JobType
    BY <2>1, IdleType DEF JobType
  <2> QED
    BY <1>1, <1>4, <2>2 DEF TakeCall
<1>5. CASE ExecuteBehindQueue \/ ExecuteNothing \/ ExecuteDone
  BY <1>1, <1>5, IdleType DEF ExecuteBehindQueue, ExecuteNothing, ExecuteDone
<1>6. CASE ExecuteNow
  <2> DEFINE j == [job["execute"] EXCEPT !.pc = "send"]
  <2>1. j \in JobType
    BY JobType1 DEF JobType
  <2>2. job' = [job EXCEPT !["execute"] = j]
    BY <1>6 DEF ExecuteNow
  <2> QED
    BY <1>1, <2>1, <2>2
<1>7. CASE StartsRetry
  <2>1. queue # <<>> => Sending(Head(queue)) \in JobType
    BY IdleType, TailFacts DEF TypeOK
  <2> QED
    BY <1>1, <1>2, <1>3, <1>7, <2>1
<1>8. CASE ResendNothing \/ ResendPart
  BY <1>1, <1>8, IdleType DEF ResendNothing, ResendPart
<1>9. CASE ResendAll
  <2>1. queue # <<>>
    BY <1>9 DEF ResendAll, Updated, ResendSound
  <2>2. Tail(queue) \in Seq(Seq(Trades))
    BY <2>1, TailFacts DEF TypeOK
  <2>3. Tail(queue) # <<>> => Sending(Head(Tail(queue))) \in JobType
    BY <2>2, TailFacts, IdleType
  <2> QED
    BY <1>1, <1>9, <2>3, IdleType DEF ResendAll
<1>10. CASE Crash
  BY <1>10, IdleType DEF Crash, Down
<1>11. ASSUME NEW w \in Workers, SendOne(w)
       PROVE  job' \in [Workers -> JobType]
  <2> DEFINE sent == Append(job[w].sent, Len(units) + 1)
             pc == IF Len(sent) = Len(job[w].matches) THEN "update" ELSE "send"
             j == [job[w] EXCEPT !.sent = sent, !.pc = pc]
  <2>1. sent \in Seq(Nat)
    BY JobType1, AppendFacts DEF TypeOK
  <2>2. j \in JobType
    <3> HIDE DEF sent
    <3> QED
      BY <2>1, JobType1 DEF JobType
  <2>3. job' = [job EXCEPT ![w] = j]
    BY <1>11 DEF SendOne
  <2> HIDE DEF j
  <2> QED
    BY <1>1, <2>2, <2>3
<1>12. ASSUME NEW w \in Workers, SendFailsLater(w)
       PROVE  job' \in [Workers -> JobType]
  <2> DEFINE j == [job[w] EXCEPT !.pc = "update"]
  <2>1. j \in JobType
    BY JobType1 DEF JobType
  <2>2. job' = [job EXCEPT ![w] = j]
    BY <1>12 DEF SendFailsLater
  <2> QED
    BY <1>1, <2>1, <2>2
<1>13. ASSUME NEW w \in Workers, UpdateOne(w)
       PROVE  job' \in [Workers -> JobType]
  <2> DEFINE j == [job[w] EXCEPT !.updated = job[w].updated + 1]
  <2>1. j \in JobType
    <3>1. job[w] \in JobType /\ job[w].updated + 1 \in Nat
      BY JobType1
    <3> QED
      BY <3>1 DEF JobType
  <2>2. job' = [job EXCEPT ![w] = j]
    BY <1>13 DEF UpdateOne
  <2> QED
    BY <1>1, <2>1, <2>2
<1> QED
  BY WhoWorks, <1>3, <1>4, <1>5, <1>6, <1>7, <1>8, <1>9, <1>10, <1>11, <1>12, <1>13

\* The trade that UpdateOne settles and the unit that it names.
LEMMA UpdateTarget ==
    ASSUME TypeOK, JobsSound, NEW w \in Workers, UpdateOne(w)
    PROVE  LET j == job[w]
               i == j.updated + 1
           IN  /\ i \in 1..Len(j.sent)
               /\ i \in 1..Len(j.matches)
               /\ j.matches[i] \in Trades
               /\ j.sent[i] \in 1..Len(units)
               /\ units[j.sent[i]] = j.matches[i]
               /\ status' = [status EXCEPT ![j.matches[i]] = "SUCCESS"]
               /\ txHash' = [txHash EXCEPT ![j.matches[i]] = j.sent[i]]
               /\ job' = [job EXCEPT ![w].updated = i]
<1> DEFINE j == job[w]
           i == j.updated + 1
<1>1. JobSound(j, units, status)
  BY DEF JobsSound
<1>2. /\ Len(j.sent) \in Nat
      /\ Len(j.matches) \in Nat
      /\ j.updated \in Nat
      /\ j.matches \in Seq(Trades)
  BY JobType1
<1>3. j.updated < Len(j.sent) /\ Len(j.sent) <= Len(j.matches)
  BY <1>1 DEF JobSound, UpdateOne
<1>4. i \in 1..Len(j.sent) /\ i \in 1..Len(j.matches)
  BY <1>2, <1>3
<1>5. j.matches[i] \in Trades
  BY <1>2, <1>4, ElementOfSeq
<1>6. j.sent[i] \in 1..Len(units) /\ units[j.sent[i]] = j.matches[i]
  BY <1>1, <1>4 DEF JobSound
<1> QED
  BY <1>4, <1>5, <1>6 DEF UpdateOne

\* The trade that SendOne posts.
LEMMA SendTarget ==
    ASSUME TypeOK, JobsSound, NEW w \in Workers, SendOne(w)
    PROVE  LET j == job[w]
               i == Len(j.sent) + 1
           IN  /\ i \in 1..Len(j.matches)
               /\ j.matches[i] \in Trades
               /\ units' = Append(units, j.matches[i])
<1> DEFINE j == job[w]
           i == Len(j.sent) + 1
<1>1. Len(j.sent) < Len(j.matches)
  BY DEF JobsSound, JobSound, SendOne
<1>2. i \in 1..Len(j.matches)
  BY <1>1, JobType1
<1>3. j.matches[i] \in Trades
  BY <1>2, JobType1, ElementOfSeq
<1> QED
  BY <1>2, <1>3 DEF SendOne

LEMMA DatabaseTypeStep ==
    ASSUME IInv, [Next]_vars
    PROVE  /\ status' \in [Trades -> {"NONE", "PENDING", "SUCCESS"}]
           /\ txHash' \in [Trades -> Nat]
<1>1. TypeOK /\ JobsSound
  BY DEF IInv
<1>2. CASE UNCHANGED <<status, txHash>>
  BY <1>1, <1>2 DEF TypeOK
<1>3. CASE BackendCreate
  BY <1>1, <1>3 DEF TypeOK, BackendCreate
<1>4. CASE InitAlreadySent
  <2>1. PICK u \in UnitsOf(Head(init.todo)) :
           /\ status' = [status EXCEPT ![Head(init.todo)] = "SUCCESS"]
           /\ txHash' = [txHash EXCEPT ![Head(init.todo)] = u]
    BY <1>4 DEF InitAlreadySent
  <2>2. u \in Nat
    <3>1. u \in DOMAIN units /\ units \in Seq(Trades)
      BY <1>1 DEF UnitsOf, TypeOK
    <3> QED
      BY <3>1
  <2> QED
    BY <1>1, <2>1, <2>2 DEF TypeOK
<1>5. ASSUME NEW w \in Workers, UpdateOne(w)
      PROVE  /\ status' \in [Trades -> {"NONE", "PENDING", "SUCCESS"}]
             /\ txHash' \in [Trades -> Nat]
  <2> DEFINE t == job[w].matches[job[w].updated + 1]
             u == job[w].sent[job[w].updated + 1]
  <2>1. /\ status' = [status EXCEPT ![t] = "SUCCESS"]
        /\ txHash' = [txHash EXCEPT ![t] = u]
        /\ u \in Nat
    BY <1>1, <1>5, UpdateTarget
  <2> HIDE DEF t, u
  <2> QED
    BY <1>1, <2>1 DEF TypeOK
<1> QED
  BY WhoSettles, <1>2, <1>3, <1>4, <1>5

LEMMA UnitsTypeStep ==
    ASSUME IInv, [Next]_vars
    PROVE  /\ units' \in Seq(Trades)
           /\ Len(units) \in Nat
           /\ Len(units') \in Nat
           /\ \A u \in 1..Len(units) : u \in 1..Len(units') /\ units'[u] = units[u]
<1>1. TypeOK /\ JobsSound /\ units \in Seq(Trades) /\ Len(units) \in Nat
  BY DEF IInv, TypeOK
<1>2. ASSUME NEW w \in Workers, SendOne(w)
      PROVE  /\ units' \in Seq(Trades)
             /\ Len(units') = Len(units) + 1
             /\ \A u \in 1..Len(units) : units'[u] = units[u]
  BY <1>1, <1>2, SendTarget, AppendFacts
<1> QED
  BY WhoPosts, <1>1, <1>2

LEMMA EventsTypeStep ==
    ASSUME IInv, [Next]_vars
    PROVE  events' \in Seq(Seq([trade : Trades, status : {"PENDING", "SUCCESS"}]))
<1>1. TypeOK /\ JobsSound
  BY DEF IInv
<1>2. CASE UNCHANGED events
  BY <1>1, <1>2 DEF TypeOK
<1>3. \A w \in Workers : Successful(job[w]) \in Seq(Trades)
  BY <1>1, JobType1, PartsFacts DEF JobsSound, JobSound
<1>4. CASE ExecuteDone
  BY <1>1, <1>3, <1>4, AnnounceType DEF ExecuteDone, Workers
<1>5. CASE ResendPart \/ ResendAll
  BY <1>1, <1>3, <1>5, AnnounceType DEF ResendPart, ResendAll, Workers
<1>6. CASE InitAnnounce
  <2>1. init.todo \in Seq(Trades) /\ init.todo # <<>>
    BY <1>1, <1>6 DEF IInv, InitSound, InitAnnounce, TypeOK
  <2>2. <<Head(init.todo)>> \in Seq(Trades)
    BY <2>1, TailFacts
  <2> QED
    BY <1>1, <1>6, <2>2, AnnounceType DEF InitAnnounce
<1> QED
  BY WhoAnnounces, <1>2, <1>4, <1>5, <1>6

\* The batch that BackendCreate creates is not one of the earlier ones.
LEMMA NextBatch ==
    ASSUME TypeOK, BackendCreate
    PROVE  /\ created \in Nat
           /\ created' = created + 1
           /\ created + 1 \in 1..Len(Batches)
           /\ created + 1 \in 1..(created + 1)
           /\ \A i \in 1..created : i \in 1..Len(Batches) /\ i # created + 1
<1>1. Len(Batches) \in Nat
  BY BatchesAssumption
<1>2. created \in 0..Len(Batches)
  BY DEF TypeOK
<1>3. created < Len(Batches) /\ created' = created + 1
  BY DEF BackendCreate
<1> HIDE DEF TypeOK, BackendCreate
<1> QED
  BY <1>1, <1>2, <1>3

LEMMA CallsTypeStep ==
    ASSUME IInv, [Next]_vars
    PROVE  /\ created' \in 0..Len(Batches)
           /\ calls' \in Seq(Seq(Trades))
           /\ toCall' \in Seq(Seq(Trades))
<1>1. TypeOK
  BY DEF IInv
<1>2. CASE UNCHANGED <<created, calls, toCall>>
  BY <1>1, <1>2 DEF TypeOK
<1>3. CASE BackendCreate
  <2>1. created + 1 \in 1..Len(Batches)
    BY <1>1, <1>3, NextBatch
  <2>2. Batches[created + 1] \in Seq(Trades)
    BY <2>1, BatchType
  <2>3. /\ Append(calls, Batches[created + 1]) \in Seq(Seq(Trades))
        /\ Append(toCall, Batches[created + 1]) \in Seq(Seq(Trades))
    BY <1>1, <2>2, AppendFacts DEF TypeOK
  <2>4. created' \in 0..Len(Batches)
    BY <1>1, <1>3, <2>1, NextBatch
  <2>5. CASE Patient
    BY <1>1, <1>3, <2>3, <2>4, <2>5 DEF TypeOK, BackendCreate
  <2>6. CASE ~Patient
    BY <1>1, <1>3, <2>3, <2>4, <2>6 DEF TypeOK, BackendCreate
  <2> QED
    BY <2>5, <2>6
<1>4. CASE BackendCall
  <2>1. /\ Tail(toCall) \in Seq(Seq(Trades))
        /\ Append(calls, Head(toCall)) \in Seq(Seq(Trades))
    BY <1>1, <1>4, TailFacts, AppendFacts DEF TypeOK, BackendCall
  <2> QED
    BY <1>1, <1>4, <2>1 DEF TypeOK, BackendCall
<1>5. CASE TakeCall
  BY <1>1, <1>5, TailFacts DEF TypeOK, TakeCall, backend
<1>6. CASE Crash
  BY <1>1, <1>6, EmptySeq DEF TypeOK, Crash, Down, backend
<1> QED
  BY WhoCalls, <1>2, <1>3, <1>4, <1>5, <1>6

\* What the queue may become: it is unchanged or emptied, or a batch joins it,
\* or its head is shortened or leaves.
LEMMA QueueCases ==
    ASSUME IInv, [Next]_vars
    PROVE  \/ UNCHANGED queue
           \/ queue' = <<>> /\ Crash
           \/ /\ queue' = Append(queue, job["execute"].matches)
              /\ ExecuteBehindQueue \/ ExecuteNothing
           \/ /\ queue' = Append(queue, Unsent(job["execute"]))
              /\ Unsent(job["execute"]) # <<>>
              /\ ExecuteDone
           \/ queue' = [queue EXCEPT ![1] = Unsent(job["resend"])] /\ ResendPart
           \/ queue' = Tail(queue) /\ ResendAll
           \/ queue' = Append(queue, <<Head(init.todo)>>) /\ InitQueue
<1>1. CASE ExecuteDone
  BY <1>1 DEF ExecuteDone
<1>2. CASE ResendPart
  BY <1>2 DEF ResendPart
<1>3. CASE ExecuteBehindQueue \/ ExecuteNothing
  BY <1>3 DEF ExecuteBehindQueue, ExecuteNothing
<1> QED
  BY WhoQueues, <1>1, <1>2, <1>3 DEF ResendAll, InitQueue, Crash, Down

\* The queue keeps holding non-empty batches of the trades that may be in it.
LEMMA QueueTypeStep ==
    ASSUME IInv, [Next]_vars, NEW S, queue \in Seq(Seq(S)), init.todo \in Seq(S),
           \A w \in Workers : job[w].matches \in Seq(S)
    PROVE  /\ queue' \in Seq(Seq(S))
           /\ \A i \in 1..Len(queue') : queue'[i] # <<>>
<1>1. /\ TypeOK /\ JobsSound /\ ResendSound
      /\ \A i \in 1..Len(queue) : queue[i] # <<>>
      /\ "execute" \in Workers /\ "resend" \in Workers
  BY DEF IInv, BatchesSound, Workers
<1>2. \A w \in Workers : Unsent(job[w]) \in Seq(S)
  BY <1>1, JobType1, PartsFacts DEF JobsSound, JobSound
<1>3. ASSUME NEW b \in Seq(S), b # <<>>, queue' = Append(queue, b)
      PROVE  /\ queue' \in Seq(Seq(S))
             /\ \A i \in 1..Len(queue') : queue'[i] # <<>>
  BY <1>1, <1>3, AppendFacts
<1>4. CASE UNCHANGED queue
  BY <1>1, <1>4
<1>5. CASE queue' = <<>>
  BY <1>5, EmptySeq
<1>6. CASE /\ queue' = Append(queue, job["execute"].matches)
           /\ ExecuteBehindQueue \/ ExecuteNothing
  <2>1. job["execute"].matches # <<>>
    <3>1. CASE ExecuteBehindQueue
      BY <1>1, <3>1 DEF ExecuteBehindQueue, JobsSound, JobSound
    <3>2. CASE ExecuteNothing
      <4>1. Len(job["execute"].sent) < Len(job["execute"].matches)
        BY <1>1, <3>2 DEF ExecuteNothing, SendFails, JobsSound, JobSound
      <4> QED
        BY <1>1, <4>1, JobType1, EmptySeq
    <3> QED
      BY <1>6, <3>1, <3>2
  <2> QED
    BY <1>1, <1>3, <1>6, <2>1
<1>7. CASE /\ queue' = Append(queue, Unsent(job["execute"]))
           /\ Unsent(job["execute"]) # <<>>
           /\ ExecuteDone
  BY <1>1, <1>2, <1>3, <1>7
<1>8. CASE queue' = [queue EXCEPT ![1] = Unsent(job["resend"])] /\ ResendPart
  <2>1. queue # <<>> /\ Unsent(job["resend"]) # <<>>
    BY <1>1, <1>8 DEF ResendPart, Updated, ResendSound
  <2>2. 1 \in 1..Len(queue)
    BY <2>1, EmptySeq
  <2> QED
    BY <1>1, <1>2, <1>8, <2>1, <2>2, ExceptSeq
<1>9. CASE queue' = Tail(queue) /\ ResendAll
  <2>1. queue # <<>>
    BY <1>1, <1>9 DEF ResendAll, Updated, ResendSound
  <2>2. /\ queue' \in Seq(Seq(S))
        /\ Len(queue) \in Nat
        /\ Len(queue') = Len(queue) - 1
        /\ \A i \in 1..Len(queue') : queue'[i] = queue[i + 1]
    BY <1>9, <2>1, TailFacts
  <2>3. \A i \in 1..Len(queue') : i + 1 \in 1..Len(queue)
    BY <2>2
  <2> QED
    BY <1>1, <2>2, <2>3
<1>10. CASE queue' = Append(queue, <<Head(init.todo)>>) /\ InitQueue
  <2>1. <<Head(init.todo)>> \in Seq(S) /\ <<Head(init.todo)>> # <<>>
    BY <1>10, TailFacts DEF InitQueue
  <2> QED
    BY <1>3, <1>10, <2>1
<1> QED
  BY QueueCases, <1>4, <1>5, <1>6, <1>7, <1>8, <1>9, <1>10

LEMMA InitTypeStep ==
    ASSUME IInv, [Next]_vars
    PROVE  init' \in InitType
<1>1. /\ TypeOK /\ InitSound
      /\ init \in InitType
      /\ init.todo \in Seq(Trades)
  BY DEF IInv, TypeOK, InitType
<1>2. CASE UNCHANGED init
  BY <1>1, <1>2
<1>3. CASE InitLoad
  <2> DEFINE S == {t \in Trades : status[t] = "PENDING"}
  <2>1. PICK todo \in Sorted(S) : init' = [pc |-> "check", todo |-> todo]
    BY <1>3 DEF InitLoad
  <2>2. todo \in Seq(Trades)
    BY SortedType
  <2> QED
    BY <2>1, <2>2 DEF InitType
<1>4. CASE InitQueue
  <2>1. Tail(init.todo) \in Seq(Trades)
    BY <1>1, <1>4, TailFacts DEF InitQueue
  <2> QED
    BY <1>1, <1>4, <2>1 DEF InitQueue, InitType
<1>5. CASE InitAlreadySent \/ InitDone
  BY <1>1, <1>5 DEF InitAlreadySent, InitDone, InitType
<1>6. CASE InitAnnounce
  <2>1. Tail(init.todo) \in Seq(Trades)
    BY <1>1, <1>6, TailFacts DEF InitAnnounce, InitSound
  <2> QED
    BY <1>6, <2>1 DEF InitAnnounce, InitType
<1>7. CASE Crash
  BY <1>7, EmptySeq DEF Crash, Down, InitType
<1> QED
  BY WhoInitializes, <1>2, <1>3, <1>4, <1>5, <1>6, <1>7

LEMMA CounterTypeStep ==
    ASSUME IInv, [Next]_vars
    PROVE  /\ stable' \in 0..Len(units')
           /\ funds' \in 0..MaxFunds
           /\ up' \in BOOLEAN
           /\ retryLock' \in BOOLEAN
           /\ waiting' \in 0..MaxWaiting
           /\ crashes' \in 0..MaxCrashes
<1>1. /\ stable \in 0..Len(units)
      /\ funds \in 0..MaxFunds
      /\ up \in BOOLEAN
      /\ retryLock \in BOOLEAN
      /\ waiting \in 0..MaxWaiting
      /\ crashes \in 0..MaxCrashes
  BY DEF IInv, TypeOK
<1>2. /\ Len(units) \in Nat
      /\ Len(units') \in Nat
      /\ Len(units) <= Len(units')
      /\ {MaxFunds, MaxWaiting, MaxCrashes} \subseteq Nat
  <2>1. /\ Len(units) \in Nat
        /\ Len(units') \in Nat
        /\ \A u \in 1..Len(units) : u \in 1..Len(units')
    BY UnitsTypeStep
  <2>2. Len(units) = 0 \/ Len(units) \in 1..Len(units)
    BY <2>1
  <2> QED
    BY <2>1, <2>2, BatchesAssumption
<1>3. stable' \in 0..Len(units')
  <2>1. UNCHANGED stable \/ (BecameStable /\ UNCHANGED units)
    BY DEF Next, vars, durable, backend, volatile, Work, Execute, Resend, Initialize,
           BackendCreate, BackendCall, SendOne, SendFailsLater, UpdateOne, TakeCall,
           ExecuteBehindQueue, ExecuteNow, ExecuteNothing, ExecuteDone, NextRetry,
           ResendNothing, ResendPart, ResendAll, WithdrawalToOperator, InitLoad, InitQueue,
           InitAlreadySent, InitAnnounce, InitDone, Crash, Down, Restart, BecameStable
  <2> QED
    BY <1>1, <1>2, <2>1 DEF BecameStable
<1>4. funds' \in 0..MaxFunds
  <2>1. \/ UNCHANGED funds
        \/ funds < MaxFunds /\ funds' = funds + 1
        \/ funds > 0 /\ funds' = funds - 1
    BY DEF Next, vars, durable, backend, volatile, Work, Execute, Resend, Initialize,
           BackendCreate, BackendCall, SendOne, SendFailsLater, UpdateOne, TakeCall,
           ExecuteBehindQueue, ExecuteNow, ExecuteNothing, ExecuteDone, NextRetry,
           ResendNothing, ResendPart, ResendAll, WithdrawalToOperator, InitLoad, InitQueue,
           InitAlreadySent, InitAnnounce, InitDone, Crash, Down, Restart, BecameStable
  <2> QED
    BY <1>1, <1>2, <2>1
<1>5. /\ up' \in BOOLEAN
      /\ crashes' \in 0..MaxCrashes
  <2>1. UNCHANGED <<up, crashes>> \/ Crash \/ Restart
    BY DEF Next, vars, durable, backend, volatile, Work, Execute, Resend, Initialize,
           BackendCreate, BackendCall, SendOne, SendFailsLater, UpdateOne, TakeCall,
           ExecuteBehindQueue, ExecuteNow, ExecuteNothing, ExecuteDone, NextRetry,
           ResendNothing, ResendPart, ResendAll, WithdrawalToOperator, InitLoad, InitQueue,
           InitAlreadySent, InitAnnounce, InitDone, BecameStable
  <2>2. up' \in BOOLEAN
    BY <1>1, <2>1 DEF Crash, Down, Restart
  <2>3. UNCHANGED crashes \/ (crashes < MaxCrashes /\ crashes' = crashes + 1)
    BY <2>1 DEF Crash, Down, Restart
  <2>4. crashes' \in 0..MaxCrashes
    BY <1>1, <1>2, <2>3
  <2> QED
    BY <2>2, <2>4
<1>6. retryLock' \in BOOLEAN
  BY <1>1, WhoLocks DEF StartsRetry, NextRetry, BecameStable, WithdrawalToOperator, InitDone,
     Retry, BeginRetry, ResendNothing, Crash, Down
<1>7. waiting' \in 0..MaxWaiting
  <2>1. \/ UNCHANGED waiting
        \/ waiting < MaxWaiting /\ waiting' = waiting + 1
        \/ waiting > 0 /\ waiting' = waiting - 1
        \/ waiting' = 0
    BY DEF Next, vars, durable, backend, volatile, Work, Execute, Resend, Initialize,
           BackendCreate, BackendCall, SendOne, SendFailsLater, UpdateOne, TakeCall,
           ExecuteBehindQueue, ExecuteNow, ExecuteNothing, ExecuteDone, NextRetry,
           ResendNothing, ResendPart, ResendAll, WithdrawalToOperator, InitLoad, InitQueue,
           InitAlreadySent, InitAnnounce, InitDone, Crash, Down, Restart, BecameStable, Retry
  <2> QED
    BY <1>1, <1>2, <2>1
<1> QED
  BY <1>3, <1>4, <1>5, <1>6, <1>7

LEMMA TypeStep ==
    ASSUME IInv, [Next]_vars
    PROVE  TypeOK'
<1>1. queue' \in Seq(Seq(Trades))
  <2>1. /\ queue \in Seq(Seq(Trades))
        /\ init.todo \in Seq(Trades)
        /\ \A w \in Workers : job[w].matches \in Seq(Trades)
    BY DEF IInv, TypeOK
  <2> QED
    BY <2>1, QueueTypeStep
<1> QED
  BY <1>1, DatabaseTypeStep, UnitsTypeStep, EventsTypeStep, CallsTypeStep, InitTypeStep,
     JobTypeStep, CounterTypeStep DEF TypeOK, InitType, JobType

-----------------------------------------------------------------------------
(* The other parts of the inductive invariant *)

\* Settled trades stay settled: the backend only creates new ones.
LEMMA SettledStays ==
    ASSUME IInv, [Next]_vars, NEW t \in Trades, status[t] = "SUCCESS"
    PROVE  status'[t] = "SUCCESS"
<1>1. TypeOK /\ JobsSound
  BY DEF IInv
<1>2. CASE UNCHANGED <<status, txHash>>
  BY <1>2
<1>3. CASE BackendCreate
  <2>1. PICK i \in 1..created : t \in ToSet(Batches[i])
    BY <1>1 DEF IInv, CreatedSound, Created
  <2>2. i \in 1..Len(Batches) /\ created + 1 \in 1..Len(Batches) /\ i # created + 1
    BY <1>1, <1>3, NextBatch
  <2>3. t \notin ToSet(Batches[created + 1])
    <3>1. t \in Nat /\ i < created + 1
      BY <1>1, <2>2, TradeNumbers DEF TypeOK
    <3>2. Older(ToSet(Batches[i]), ToSet(Batches[created + 1]))
      BY <2>2, <3>1, BatchesAssumption
    <3> QED
      BY <2>1, <3>1, <3>2 DEF Older
  <2> QED
    BY <1>3, <2>3 DEF BackendCreate
<1>4. CASE InitAlreadySent
  BY <1>1, <1>4 DEF InitAlreadySent, TypeOK
<1>5. ASSUME NEW w \in Workers, UpdateOne(w)
      PROVE  status'[t] = "SUCCESS"
  BY <1>1, <1>5, UpdateTarget DEF TypeOK
<1> QED
  BY WhoSettles, <1>2, <1>3, <1>4, <1>5

\* A job that is left alone stays sound.
LEMMA JobKept ==
    ASSUME IInv, [Next]_vars, NEW j \in JobType, JobSound(j, units, status)
    PROVE  JobSound(j, units', status')
<1>1. /\ Len(j.sent) <= Len(j.matches)
      /\ j.updated <= Len(j.sent)
      /\ j.pc = "send" => Len(j.sent) < Len(j.matches)
      /\ j.pc = "idle" => j = Idle
      /\ j.pc = "wait" => j.matches # <<>> /\ j.sent = <<>> /\ j.updated = 0
  BY DEF JobSound
<1>2. ASSUME NEW k \in 1..Len(j.sent)
      PROVE  j.sent[k] \in 1..Len(units') /\ units'[j.sent[k]] = j.matches[k]
  <2>1. j.sent[k] \in 1..Len(units) /\ units[j.sent[k]] = j.matches[k]
    BY DEF JobSound
  <2> QED
    BY <2>1, UnitsTypeStep
<1>3. ASSUME NEW k \in 1..j.updated
      PROVE  status'[j.matches[k]] = "SUCCESS"
  <2>1. /\ j.matches \in Seq(Trades)
        /\ Len(j.sent) \in Nat
        /\ j.updated \in Nat
    BY DEF JobType
  <2>2. k \in 1..Len(j.matches)
    BY <1>1, <2>1
  <2>3. j.matches[k] \in Trades /\ status[j.matches[k]] = "SUCCESS"
    BY <2>1, <2>2, ElementOfSeq DEF JobSound
  <2> QED
    BY <2>3, SettledStays
<1> QED
  BY <1>1, <1>2, <1>3 DEF JobSound, Idle

\* A worker that starts on a batch has sent and recorded nothing of it.
LEMMA JobStarted ==
    ASSUME NEW m \in Seq(Trades), m # <<>>, NEW us, NEW st
    PROVE  /\ JobSound(Sending(m), us, st)
           /\ JobSound([Idle EXCEPT !.pc = "wait", !.matches = m], us, st)
<1>1. /\ Len(<<>>) = 0
      /\ Len(m) \in Nat \ {0}
      /\ 1..0 = {}
  BY EmptySeq
<1> QED
  BY <1>1 DEF JobSound, Sending, Idle

LEMMA JobStopped ==
    ASSUME NEW us, NEW st
    PROVE  JobSound(Idle, us, st)
<1>1. Len(<<>>) = 0 /\ 1..0 = {}
  BY EmptySeq
<1> QED
  BY <1>1 DEF JobSound, Idle

LEMMA JobsStep ==
    ASSUME IInv, [Next]_vars
    PROVE  JobsSound'
<1>1. /\ TypeOK /\ JobsSound /\ ResendSound /\ BatchesSound
      /\ "execute" \in Workers /\ "resend" \in Workers
      /\ \A w \in Workers : job[w] \in JobType /\ JobSound(job[w], units, status)
      /\ job \in [Workers -> JobType]
  BY JobType1 DEF IInv, Workers, JobsSound
<1>2. \A w \in Workers : job'[w] = job[w] => JobSound(job'[w], units', status')
  BY <1>1, JobKept
<1>3. \A w \in Workers : job'[w] = Idle => JobSound(job'[w], units', status')
  <2>1. JobSound(Idle, units', status')
    BY JobStopped
  <2> QED
    BY <2>1
<1>4. ASSUME NEW w \in Workers, NEW j, job' = [job EXCEPT ![w] = j], JobSound(j, units', status')
      PROVE  JobsSound'
  BY <1>1, <1>2, <1>4 DEF JobsSound
<1>5. CASE UNCHANGED job
  BY <1>2, <1>5 DEF JobsSound
<1>6. CASE Crash
  BY <1>3, <1>6 DEF JobsSound, Crash, Down
<1>7. CASE ExecuteBehindQueue \/ ExecuteNothing \/ ExecuteDone \/ ResendNothing \/ ResendPart
  <2>1. JobSound(Idle, units', status')
    BY JobStopped
  <2> QED
    BY <1>1, <1>4, <1>7, <2>1 DEF ExecuteBehindQueue, ExecuteNothing, ExecuteDone,
       ResendNothing, ResendPart
<1>8. CASE TakeCall
  <2>1. Head(calls) \in Seq(Trades) /\ Head(calls) # <<>>
    <3>1. /\ calls \in Seq(Seq(Trades))
          /\ calls # <<>>
          /\ \A i \in 1..Len(calls) : calls[i] # <<>>
      BY <1>1, <1>8 DEF TakeCall, TypeOK, BatchesSound
    <3>2. Head(calls) = calls[1] /\ 1 \in 1..Len(calls) /\ Head(calls) \in Seq(Trades)
      BY <3>1, TailFacts
    <3> QED
      BY <3>1, <3>2
  <2> QED
    BY <1>1, <1>4, <1>8, <2>1, JobStarted DEF TakeCall
<1>9. CASE ExecuteNow
  <2> DEFINE j == [job["execute"] EXCEPT !.pc = "send"]
  <2>1. /\ j \in JobType
        /\ j.sent = <<>>
        /\ j.updated = 0
        /\ j.matches # <<>>
        /\ j.pc = "send"
        /\ j.matches \in Seq(Trades)
    BY <1>1, <1>9 DEF ExecuteNow, JobSound, JobType
  <2>2. Len(j.matches) \in Nat \ {0} /\ Len(<<>>) = 0 /\ 1..0 = {}
    BY <2>1, EmptySeq
  <2>3. job' = [job EXCEPT !["execute"] = j]
    BY <1>9 DEF ExecuteNow
  <2> HIDE DEF j
  <2>4. JobSound(j, units', status')
    BY <2>1, <2>2 DEF JobSound
  <2> QED
    BY <1>1, <1>4, <2>3, <2>4
<1>10. CASE StartsRetry
  <2>1. \/ UNCHANGED job
        \/ queue # <<>> /\ job' = [job EXCEPT !["resend"] = Sending(Head(queue))]
    BY <1>10 DEF StartsRetry, NextRetry, BecameStable, WithdrawalToOperator, InitDone, Retry,
                 BeginRetry
  <2>2. queue # <<>> => Head(queue) \in Seq(Trades) /\ Head(queue) # <<>>
    BY <1>1, TailFacts DEF TypeOK, BatchesSound
  <2> QED
    BY <1>1, <1>4, <1>5, <2>1, <2>2, JobStarted
<1>11. CASE ResendAll
  <2>1. queue # <<>>
    BY <1>1, <1>11 DEF ResendAll, Updated, ResendSound
  <2>2. ASSUME Tail(queue) # <<>>
        PROVE  Head(Tail(queue)) \in Seq(Trades) /\ Head(Tail(queue)) # <<>>
    <3>1. /\ queue \in Seq(Seq(Trades))
          /\ Len(queue) \in Nat
          /\ Tail(queue) \in Seq(Seq(Trades))
          /\ Len(Tail(queue)) = Len(queue) - 1
          /\ \A i \in 1..Len(Tail(queue)) : Tail(queue)[i] = queue[i + 1]
      BY <1>1, <2>1, TailFacts DEF TypeOK
    <3>2. /\ Len(Tail(queue)) \in Nat \ {0}
          /\ Head(Tail(queue)) \in Seq(Trades)
          /\ Head(Tail(queue)) = Tail(queue)[1]
      BY <2>2, <3>1, TailFacts
    <3>3. Head(Tail(queue)) = queue[2] /\ 2 \in 1..Len(queue)
      BY <3>1, <3>2
    <3> QED
      BY <1>1, <3>2, <3>3 DEF BatchesSound
  <2>3. JobSound(Idle, units', status')
    BY JobStopped
  <2> QED
    BY <1>1, <1>4, <1>11, <2>2, <2>3, JobStarted DEF ResendAll
<1>12. ASSUME NEW w \in Workers, SendOne(w)
       PROVE  JobsSound'
  <2> DEFINE old == job[w]
             sent == Append(old.sent, Len(units) + 1)
             pc == IF Len(sent) = Len(old.matches) THEN "update" ELSE "send"
             j == [old EXCEPT !.sent = sent, !.pc = pc]
  <2>1. job' = [job EXCEPT ![w] = j]
    BY <1>12 DEF SendOne
  <2>2. /\ old.sent \in Seq(Nat)
        /\ old.matches \in Seq(Trades)
        /\ Len(old.sent) \in Nat
        /\ Len(old.matches) \in Nat
        /\ Len(units) \in Nat
        /\ old.updated \in Nat
        /\ old \in JobType
    BY <1>1, JobType1, UnitsTypeStep
  <2>3. /\ Len(sent) = Len(old.sent) + 1
        /\ \A k \in 1..Len(old.sent) : sent[k] = old.sent[k]
        /\ sent[Len(old.sent) + 1] = Len(units) + 1
    BY <2>2, AppendFacts
  <2>4. Len(old.sent) + 1 <= Len(old.matches)
    BY <1>1, <1>12, SendTarget
  <2>5. /\ Len(units') = Len(units) + 1
        /\ units'[Len(units) + 1] = old.matches[Len(old.sent) + 1]
    <3>1. /\ old.matches[Len(old.sent) + 1] \in Trades
          /\ units' = Append(units, old.matches[Len(old.sent) + 1])
      BY <1>1, <1>12, SendTarget
    <3>2. units \in Seq(Trades)
      BY <1>1 DEF TypeOK
    <3> QED
      BY <3>1, <3>2, AppendFacts
  <2>6. JobSound(old, units', status')
    BY <1>1, JobKept
  <2>7. /\ j.sent = sent
        /\ j.matches = old.matches
        /\ j.updated = old.updated
        /\ j.pc = pc
    BY <2>2 DEF JobType
  <2> HIDE DEF j, sent, old
  <2>8. \A k \in 1..Len(sent) : k \in 1..Len(old.sent) \/ k = Len(old.sent) + 1
    BY <2>2, <2>3
  <2>9. /\ old.updated <= Len(old.sent)
        /\ \A k \in 1..Len(old.sent) :
              old.sent[k] \in 1..Len(units') /\ units'[old.sent[k]] = old.matches[k]
        /\ \A k \in 1..old.updated : status'[old.matches[k]] = "SUCCESS"
    BY <2>6 DEF JobSound
  <2>10. \A k \in 1..Len(sent) :
            sent[k] \in 1..Len(units') /\ units'[sent[k]] = old.matches[k]
    BY <2>2, <2>3, <2>5, <2>8, <2>9
  <2>11. Len(sent) <= Len(old.matches) /\ old.updated <= Len(sent)
    BY <2>2, <2>3, <2>4, <2>9
  <2>12. pc \in {"send", "update"} /\ (pc = "send" => Len(sent) < Len(old.matches))
    BY <2>2, <2>3, <2>4
  <2> HIDE DEF pc
  <2>13. JobSound(j, units', status')
    BY <2>7, <2>9, <2>10, <2>11, <2>12 DEF JobSound
  <2> QED
    BY <1>4, <2>1, <2>13
<1>13. ASSUME NEW w \in Workers, SendFailsLater(w)
       PROVE  JobsSound'
  <2> DEFINE j == [job[w] EXCEPT !.pc = "update"]
  <2>1. job' = [job EXCEPT ![w] = j]
    BY <1>13 DEF SendFailsLater
  <2>2. JobSound(job[w], units', status') /\ job[w] \in JobType
    BY <1>1, JobKept
  <2>3. /\ j.sent = job[w].sent
        /\ j.matches = job[w].matches
        /\ j.updated = job[w].updated
        /\ j.pc = "update"
    BY <2>2 DEF JobType
  <2> HIDE DEF j
  <2>4. JobSound(j, units', status')
    BY <2>2, <2>3 DEF JobSound
  <2> QED
    BY <1>4, <2>1, <2>4
<1>14. ASSUME NEW w \in Workers, UpdateOne(w)
       PROVE  JobsSound'
  <2> DEFINE old == job[w]
             i == old.updated + 1
             j == [old EXCEPT !.updated = i]
  <2>1. /\ job' = [job EXCEPT ![w] = j]
        /\ i \in 1..Len(old.sent)
        /\ old.matches[i] \in Trades
        /\ status' = [status EXCEPT ![old.matches[i]] = "SUCCESS"]
        /\ old.pc = "update"
    BY <1>1, <1>14, UpdateTarget DEF UpdateOne
  <2>2. JobSound(old, units', status') /\ old \in JobType /\ old.updated \in Nat /\ Len(old.sent) \in Nat
    BY <1>1, JobKept, JobType1
  <2>3. /\ j.sent = old.sent
        /\ j.matches = old.matches
        /\ j.updated = i
        /\ j.pc = "update"
    BY <2>1, <2>2 DEF JobType
  <2>4. status'[old.matches[i]] = "SUCCESS"
    BY <1>1, <2>1 DEF TypeOK
  <2>5. \A k \in 1..i : k \in 1..old.updated \/ k = i
    BY <2>2
  <2>6. \A k \in 1..i : status'[old.matches[k]] = "SUCCESS"
    BY <2>2, <2>4, <2>5 DEF JobSound
  <2>7. i <= Len(old.sent)
    BY <2>1, <2>2
  <2> HIDE DEF j, i
  <2>8. JobSound(j, units', status')
    BY <2>2, <2>3, <2>6, <2>7 DEF JobSound
  <2> QED
    BY <1>4, <2>1, <2>8
<1> QED
  BY WhoWorks, <1>5, <1>6, <1>7, <1>8, <1>9, <1>10, <1>11, <1>12, <1>13, <1>14

LEMMA ResendStep ==
    ASSUME IInv, [Next]_vars
    PROVE  ResendSound'
<1>1. /\ TypeOK /\ JobsSound /\ ResendSound /\ BatchesSound /\ InitSound
      /\ "execute" \in Workers /\ "resend" \in Workers
      /\ "execute" # "resend"
      /\ job \in [Workers -> JobType]
      /\ queue \in Seq(Seq(Trades))
  BY JobType1 DEF IInv, Workers, TypeOK
<1>2. Idle.pc = "idle" /\ \A m : Sending(m).pc = "send" /\ Sending(m).matches = m
  BY DEF Idle, Sending
<1>3. ASSUME job'["resend"].pc = "idle"
      PROVE  ResendSound'
  BY <1>3 DEF ResendSound
<1>4. CASE StartsRetry
  <2>1. UNCHANGED queue
    BY <1>4 DEF StartsRetry, NextRetry, BecameStable, WithdrawalToOperator, InitDone
  <2>2. \/ UNCHANGED <<job, retryLock>>
        \/ queue = <<>> /\ UNCHANGED job /\ ~retryLock
        \/ /\ queue # <<>>
           /\ retryLock'
           /\ job' = [job EXCEPT !["resend"] = Sending(Head(queue))]
    BY <1>4, <1>1 DEF StartsRetry, NextRetry, BecameStable, WithdrawalToOperator, InitDone,
       Retry, BeginRetry, InitSound
  <2>3. CASE UNCHANGED <<job, retryLock>>
    BY <1>1, <2>1, <2>3 DEF ResendSound
  <2>4. CASE queue = <<>> /\ UNCHANGED job /\ ~retryLock
    BY <1>1, <1>3, <2>4 DEF ResendSound
  <2>5. CASE /\ queue # <<>>
             /\ retryLock'
             /\ job' = [job EXCEPT !["resend"] = Sending(Head(queue))]
    BY <1>1, <1>2, <2>1, <2>5 DEF ResendSound
  <2> QED
    BY <2>2, <2>3, <2>4, <2>5
<1>5. CASE ResendNothing \/ ResendPart \/ Crash
  BY <1>1, <1>2, <1>3, <1>5 DEF ResendNothing, ResendPart, Crash, Down
<1>6. CASE ResendAll
  <2>1. queue # <<>> /\ retryLock /\ UNCHANGED retryLock /\ queue' = Tail(queue)
    BY <1>1, <1>6 DEF ResendAll, Updated, ResendSound
  <2>2. CASE Tail(queue) = <<>>
    BY <1>1, <1>2, <1>3, <1>6, <2>2 DEF ResendAll
  <2>3. CASE Tail(queue) # <<>>
    <3>1. job' = [job EXCEPT !["resend"] = Sending(Head(Tail(queue)))]
      BY <1>6, <2>3 DEF ResendAll
    <3>2. job'["resend"] = Sending(Head(Tail(queue)))
      BY <1>1, <3>1
    <3> QED
      BY <1>2, <2>1, <2>3, <3>2 DEF ResendSound
  <2> QED
    BY <2>2, <2>3
<1>7. ASSUME \/ UNCHANGED job
             \/ TakeCall \/ ExecuteBehindQueue \/ ExecuteNow \/ ExecuteNothing \/ ExecuteDone
             \/ \E w \in Workers : SendOne(w) \/ SendFailsLater(w) \/ UpdateOne(w),
             ~StartsRetry, ~ResendNothing, ~ResendPart, ~ResendAll, ~Crash
      PROVE  ResendSound'
  <2> DEFINE Same == /\ job'["resend"].matches = job["resend"].matches
                     /\ job'["resend"].pc = "wait" => job["resend"].pc = "wait"
                     /\ job'["resend"].pc # "idle" => job["resend"].pc # "idle"
  <2>1. Same
    <3>1. CASE UNCHANGED job
      BY <3>1
    <3>2. CASE TakeCall \/ ExecuteBehindQueue \/ ExecuteNow \/ ExecuteNothing \/ ExecuteDone
      <4>1. job'["resend"] = job["resend"]
        BY <1>1, <3>2 DEF TakeCall, ExecuteBehindQueue, ExecuteNow, ExecuteNothing, ExecuteDone
      <4> QED
        BY <4>1
    <3>3. ASSUME NEW w \in Workers, SendOne(w) \/ SendFailsLater(w) \/ UpdateOne(w)
          PROVE  Same
      <4>1. CASE w = "resend"
        <5>1. job["resend"] \in JobType /\ job["resend"].pc \in {"send", "update"}
          BY <1>1, <3>3, <4>1 DEF SendOne, SendFailsLater, SendFails, UpdateOne
        <5>2. /\ job'["resend"].matches = job["resend"].matches
              /\ job'["resend"].pc \in {"send", "update"}
          BY <1>1, <3>3, <4>1, <5>1 DEF SendOne, SendFailsLater, UpdateOne, JobType
        <5> QED
          BY <5>1, <5>2
      <4>2. CASE w # "resend"
        <5>1. job'["resend"] = job["resend"]
          BY <1>1, <3>3, <4>2 DEF SendOne, SendFailsLater, UpdateOne
        <5> QED
          BY <5>1
      <4> QED
        BY <4>1, <4>2
    <3> QED
      BY <1>7, <3>1, <3>2, <3>3
  <2>2. UNCHANGED retryLock
    BY WhoLocks, <1>7
  <2>3. queue # <<>> => queue' # <<>> /\ Head(queue') = Head(queue)
    <3>1. ASSUME NEW b \in Seq(Trades), queue # <<>>, queue' = Append(queue, b)
          PROVE  queue' # <<>> /\ Head(queue') = Head(queue)
      <4>1. 1 \in 1..Len(queue) /\ Head(queue) = queue[1]
        BY <1>1, <3>1, TailFacts
      <4>2. /\ queue' \in Seq(Seq(Trades))
            /\ Len(queue') = Len(queue) + 1
            /\ queue'[1] = queue[1]
        BY <1>1, <3>1, <4>1, AppendFacts
      <4>3. queue' # <<>>
        BY <1>1, <4>1, <4>2, EmptySeq
      <4> QED
        BY <4>1, <4>2, <4>3, TailFacts
    <3>2. /\ job["execute"].matches \in Seq(Trades)
          /\ Unsent(job["execute"]) \in Seq(Trades)
      BY <1>1, JobType1, PartsFacts DEF JobsSound, JobSound
    <3>3. InitQueue => <<Head(init.todo)>> \in Seq(Trades)
      BY <1>1, TailFacts DEF InitQueue, TypeOK
    <3> QED
      BY QueueCases, <1>7, <3>1, <3>2, <3>3
  <2> QED
    BY <1>1, <2>1, <2>2, <2>3 DEF ResendSound
<1> QED
  BY WhoWorks, <1>4, <1>5, <1>6, <1>7

LEMMA BatchesStep ==
    ASSUME IInv, [Next]_vars
    PROVE  BatchesSound'
<1>1. /\ TypeOK /\ BatchesSound
      /\ calls \in Seq(Seq(Trades))
      /\ toCall \in Seq(Seq(Trades))
  BY DEF IInv, TypeOK
<1>2. \A i \in 1..Len(queue') : queue'[i] # <<>>
  <2>1. /\ queue \in Seq(Seq(Trades))
        /\ init.todo \in Seq(Trades)
        /\ \A w \in Workers : job[w].matches \in Seq(Trades)
    BY DEF IInv, TypeOK
  <2> QED
    BY <2>1, QueueTypeStep
<1> DEFINE NonEmpty(s) == \A i \in 1..Len(s) : s[i] # <<>>
<1>3. ASSUME NEW s \in Seq(Seq(Trades)), NonEmpty(s), NEW b \in Seq(Trades), b # <<>>
      PROVE  NonEmpty(Append(s, b))
  BY <1>3, AppendFacts
<1>4. ASSUME NEW s \in Seq(Seq(Trades)), NonEmpty(s), s # <<>>
      PROVE  NonEmpty(Tail(s)) /\ Head(s) # <<>> /\ Head(s) \in Seq(Trades)
  <2>1. /\ Len(s) \in Nat \ {0}
        /\ Head(s) = s[1]
        /\ Head(s) \in Seq(Trades)
        /\ Len(Tail(s)) = Len(s) - 1
        /\ \A i \in 1..Len(Tail(s)) : Tail(s)[i] = s[i + 1]
    BY <1>4, TailFacts
  <2>2. 1 \in 1..Len(s) /\ \A i \in 1..Len(Tail(s)) : i + 1 \in 1..Len(s)
    BY <2>1
  <2> QED
    BY <1>4, <2>1, <2>2
<1>5. NonEmpty(calls) /\ NonEmpty(toCall)
  BY <1>1 DEF BatchesSound
<1> HIDE DEF NonEmpty
<1>6. NonEmpty(calls') /\ NonEmpty(toCall')
  <2>1. CASE UNCHANGED <<created, calls, toCall>>
    BY <1>5, <2>1
  <2>2. CASE BackendCreate
    <3>1. created + 1 \in 1..Len(Batches)
      BY <1>1, <2>2, NextBatch
    <3>2. Batches[created + 1] \in Seq(Trades) /\ Batches[created + 1] # <<>>
      BY <3>1, BatchType
    <3> QED
      BY <1>1, <1>3, <1>5, <2>2, <3>2 DEF BackendCreate
  <2>3. CASE BackendCall
    BY <1>1, <1>3, <1>4, <1>5, <2>3 DEF BackendCall
  <2>4. CASE TakeCall
    BY <1>1, <1>4, <1>5, <2>4 DEF TakeCall, backend
  <2>5. CASE Crash
    <3>1. NonEmpty(<<>>)
      BY DEF NonEmpty
    <3> QED
      BY <1>5, <2>5, <3>1 DEF Crash, Down, backend
  <2> QED
    BY WhoCalls, <2>1, <2>2, <2>3, <2>4, <2>5
<1> QED
  BY <1>2, <1>6 DEF BatchesSound, NonEmpty

LEMMA InitStep ==
    ASSUME IInv, [Next]_vars
    PROVE  InitSound'
<1>1. /\ TypeOK /\ InitSound /\ ResendSound /\ JobsSound
      /\ init \in InitType
      /\ "execute" \in Workers
      /\ job \in [Workers -> JobType]
  BY JobType1 DEF IInv, TypeOK, InitType, Workers
<1>2. init'.pc # "done" =>
         job'["execute"].pc \in {"idle", "wait"} /\ ~retryLock' /\ waiting' = 0
  <2>1. CASE Crash
    BY <1>1, <2>1 DEF Crash, Down, Idle
  <2>2. CASE ~Crash /\ init'.pc # "done"
    <3>1. init.pc # "done"
      BY <1>1, <2>2, WhoInitializes DEF InitLoad, InitQueue, InitAlreadySent, InitAnnounce,
         InitDone, InitType
    <3>2. /\ job["execute"].pc \in {"idle", "wait"}
          /\ job["resend"].pc = "idle"
          /\ ~retryLock
          /\ waiting = 0
      BY <1>1, <3>1 DEF InitSound, ResendSound
    <3>3. ~NextRetry
      BY <3>2 DEF NextRetry
    <3>4. ~BecameStable /\ ~WithdrawalToOperator
      BY <3>1 DEF BecameStable, WithdrawalToOperator, Initialized
    <3>5. ~InitDone
      BY <1>1, <2>2 DEF InitDone, InitType
    <3>6. ~StartsRetry
      BY <3>3, <3>4, <3>5 DEF StartsRetry
    <3>7. /\ ~ResendNothing /\ ~ResendPart /\ ~ResendAll
          /\ \A w \in Workers : ~SendOne(w) /\ ~SendFailsLater(w) /\ ~UpdateOne(w)
      BY <3>2 DEF ResendNothing, ResendPart, ResendAll, Updated, SendFails, SendOne,
         SendFailsLater, UpdateOne, Workers
    <3>8. UNCHANGED <<retryLock, waiting>>
      BY WhoLocks, <2>2, <3>6, <3>7
    <3>9. ~ExecuteBehindQueue /\ ~ExecuteNow /\ ~ExecuteNothing /\ ~ExecuteDone
      BY <3>1, <3>2 DEF ExecuteBehindQueue, ExecuteNow, ExecuteNothing, ExecuteDone,
         Initialized, SendFails, Updated
    <3>10. job'["execute"].pc \in {"idle", "wait"}
      <4>1. CASE UNCHANGED job
        BY <3>2, <4>1
      <4>2. CASE TakeCall
        BY <1>1, <4>2 DEF TakeCall, Idle
      <4> QED
        BY WhoWorks, <2>2, <3>6, <3>7, <3>9, <4>1, <4>2
    <3> QED
      BY <3>2, <3>8, <3>10
  <2> QED
    BY <2>1, <2>2
<1>3. /\ init'.pc = "done" => init'.todo = <<>>
      /\ init'.pc = "announce" => init'.todo # <<>> /\ status'[Head(init'.todo)] = "SUCCESS"
  <2>1. CASE UNCHANGED init
    <3>1. ASSUME init.pc = "announce"
          PROVE  status'[Head(init.todo)] = "SUCCESS"
      <4>1. Head(init.todo) \in Trades /\ status[Head(init.todo)] = "SUCCESS"
        BY <1>1, <3>1, TailFacts DEF InitSound, InitType
      <4> QED
        BY <4>1, SettledStays
    <3> QED
      BY <1>1, <2>1, <3>1 DEF InitSound
  <2>2. CASE InitLoad \/ InitAnnounce \/ Crash
    <3>1. init'.pc \in {"load", "check"}
      <4>1. CASE InitLoad
        BY <4>1 DEF InitLoad
      <4>2. CASE InitAnnounce
        BY <4>2 DEF InitAnnounce
      <4>3. CASE Crash
        BY <4>3 DEF Crash, Down
      <4> QED
        BY <2>2, <4>1, <4>2, <4>3
    <3> QED
      BY <3>1
  <2>3. CASE InitQueue \/ InitDone
    BY <1>1, <2>3 DEF InitQueue, InitDone, InitType
  <2>4. CASE InitAlreadySent
    <3>1. /\ init.todo # <<>>
          /\ Head(init.todo) \in Trades
          /\ status' = [status EXCEPT ![Head(init.todo)] = "SUCCESS"]
          /\ init' = [init EXCEPT !.pc = "announce"]
      BY <1>1, <2>4, TailFacts DEF InitAlreadySent, InitType
    <3>2. status'[Head(init.todo)] = "SUCCESS"
      BY <1>1, <3>1 DEF TypeOK
    <3> QED
      BY <1>1, <3>1, <3>2 DEF InitType
  <2> QED
    BY WhoInitializes, <2>1, <2>2, <2>3, <2>4
<1>4. ~up' => init'.pc = "load"
  <2>1. CASE Crash
    BY <2>1 DEF Crash, Down
  <2>2. CASE Restart
    BY <2>2 DEF Restart
  <2>3. CASE ~Crash /\ ~Restart
    <3>1. UNCHANGED up
      BY <2>3 DEF Next, vars, durable, backend, volatile, Work, Execute, Resend, Initialize,
         BackendCreate, BackendCall, SendOne, SendFailsLater, UpdateOne, TakeCall,
         ExecuteBehindQueue, ExecuteNow, ExecuteNothing, ExecuteDone, NextRetry,
         ResendNothing, ResendPart, ResendAll, WithdrawalToOperator, InitLoad, InitQueue,
         InitAlreadySent, InitAnnounce, InitDone, BecameStable
    <3>2. ~up => UNCHANGED init
      BY <2>3, WhoInitializes DEF InitLoad, InitQueue, InitAlreadySent, InitAnnounce, InitDone
    <3> QED
      BY <1>1, <3>1, <3>2 DEF InitSound
  <2> QED
    BY <2>1, <2>2, <2>3
<1> QED
  BY <1>2, <1>3, <1>4 DEF InitSound

\* The backend only adds to what it has created.
LEMMA CreatedGrows ==
    ASSUME IInv, [Next]_vars
    PROVE  Created \subseteq Created'
<1>1. created \in Nat /\ (created' = created \/ created' = created + 1)
  <2>1. created \in Nat
    BY DEF IInv, TypeOK
  <2>2. created' = created \/ created' = created + 1
    BY WhoCalls DEF BackendCreate, BackendCall, TakeCall, Crash, Down, backend
  <2> QED
    BY <2>1, <2>2
<1>2. \A i \in 1..created : i \in 1..created'
  BY <1>1
<1> QED
  BY <1>2 DEF Created

LEMMA CreatedStep ==
    ASSUME IInv, [Next]_vars
    PROVE  CreatedSound'
<1> DEFINE C == Created'
<1>1. Created \subseteq C
  BY CreatedGrows
<1> HIDE DEF C
<1>2. /\ TypeOK /\ JobsSound /\ ResendSound /\ CreatedSound
      /\ \A t \in Trades : status[t] # "NONE" => t \in C
      /\ \A s \in Seq(Created) : s \in Seq(C)
      /\ "execute" \in Workers /\ "resend" \in Workers
      /\ job \in [Workers -> JobType]
  BY <1>1, SeqMonotonic, JobType1 DEF IInv, CreatedSound, Workers
<1>3. \A s \in Seq(Seq(Created)) : s \in Seq(Seq(C))
  <2>1. Seq(Created) \subseteq Seq(C)
    BY <1>2
  <2> QED
    BY <2>1, SeqMonotonic
<1>4. /\ queue \in Seq(Seq(C))
      /\ calls \in Seq(Seq(C))
      /\ toCall \in Seq(Seq(C))
      /\ init.todo \in Seq(C)
      /\ \A w \in Workers : job[w].matches \in Seq(C)
  BY <1>2, <1>3 DEF CreatedSound
<1>5. queue' \in Seq(Seq(C))
  BY <1>4, QueueTypeStep
<1>6. ASSUME BackendCreate
      PROVE  /\ Batches[created + 1] \in Seq(C)
             /\ ToSet(Batches[created + 1]) \subseteq C
  <2>1. /\ created' = created + 1
        /\ created + 1 \in 1..Len(Batches)
        /\ created + 1 \in 1..(created + 1)
    BY <1>2, <1>6, NextBatch
  <2>2. ToSet(Batches[created + 1]) \subseteq C
    BY <2>1 DEF C, Created
  <2>3. Batches[created + 1] \in Seq(Trades)
    BY <2>1, BatchType
  <2>4. \A k \in 1..Len(Batches[created + 1]) :
           Batches[created + 1][k] \in ToSet(Batches[created + 1])
    BY <2>3 DEF ToSet
  <2> QED
    BY <2>2, <2>3, <2>4, SeqInto
<1>7. \A t \in Trades : status'[t] # "NONE" => t \in C
  <2>1. CASE UNCHANGED <<status, txHash>>
    BY <1>2, <2>1
  <2>2. CASE BackendCreate
    BY <1>2, <1>6, <2>2 DEF BackendCreate
  <2>3. CASE InitAlreadySent
    <3>1. Head(init.todo) \in C
      BY <1>4, <2>3, TailFacts DEF InitAlreadySent
    <3> QED
      BY <1>2, <2>3, <3>1 DEF InitAlreadySent, TypeOK
  <2>4. ASSUME NEW w \in Workers, UpdateOne(w)
        PROVE  \A t \in Trades : status'[t] # "NONE" => t \in C
    <3> DEFINE u == job[w].matches[job[w].updated + 1]
    <3>1. status' = [status EXCEPT ![u] = "SUCCESS"] /\ job[w].updated + 1 \in 1..Len(job[w].matches)
      BY <1>2, <2>4, UpdateTarget
    <3>2. u \in C
      BY <1>4, <3>1, ElementOfSeq
    <3> HIDE DEF u
    <3> QED
      BY <1>2, <3>1, <3>2 DEF TypeOK
  <2> QED
    BY WhoSettles, <2>1, <2>2, <2>3, <2>4
<1>8. calls' \in Seq(Seq(C)) /\ toCall' \in Seq(Seq(C))
  <2>1. CASE UNCHANGED <<created, calls, toCall>>
    BY <1>4, <2>1
  <2>2. CASE BackendCreate
    <3>1. /\ Append(calls, Batches[created + 1]) \in Seq(Seq(C))
          /\ Append(toCall, Batches[created + 1]) \in Seq(Seq(C))
      BY <1>4, <1>6, <2>2, AppendFacts
    <3> QED
      BY <1>4, <2>2, <3>1 DEF BackendCreate
  <2>3. CASE BackendCall
    BY <1>4, <2>3, AppendFacts, TailFacts DEF BackendCall
  <2>4. CASE TakeCall
    BY <1>4, <2>4, TailFacts DEF TakeCall, backend
  <2>5. CASE Crash
    BY <1>4, <2>5, EmptySeq DEF Crash, Down, backend
  <2> QED
    BY WhoCalls, <2>1, <2>2, <2>3, <2>4, <2>5
<1>9. init'.todo \in Seq(C)
  <2>1. CASE UNCHANGED init
    BY <1>4, <2>1
  <2>2. CASE InitLoad
    <3> DEFINE S == {t \in Trades : status[t] = "PENDING"}
    <3>1. PICK todo \in Sorted(S) : init' = [pc |-> "check", todo |-> todo]
      BY <2>2 DEF InitLoad
    <3>2. todo \in Seq(Trades) /\ ToSet(todo) = S
      BY SortedType
    <3>3. \A k \in 1..Len(todo) : todo[k] \in S
      BY <3>2 DEF ToSet
    <3>4. S \subseteq C
      BY <1>2
    <3> HIDE DEF S
    <3>5. todo \in Seq(C)
      BY <3>2, <3>3, <3>4, SeqInto
    <3> QED
      BY <3>1, <3>5
  <2>3. CASE InitQueue \/ InitAlreadySent \/ InitDone
    <3>1. init \in InitType
      BY <1>2 DEF TypeOK, InitType
    <3>2. init.todo # <<>> => Tail(init.todo) \in Seq(C)
      BY <1>4, TailFacts
    <3>3. init'.todo = init.todo \/ (init.todo # <<>> /\ init'.todo = Tail(init.todo))
      BY <2>3, <3>1 DEF InitQueue, InitAlreadySent, InitDone, InitType
    <3> QED
      BY <1>4, <3>2, <3>3
  <2>4. CASE InitAnnounce
    <3>1. init.todo # <<>>
      BY <2>4 DEF InitAnnounce, IInv, InitSound
    <3> QED
      BY <1>4, <2>4, <3>1, TailFacts DEF InitAnnounce
  <2>5. CASE Crash
    BY <2>5, EmptySeq DEF Crash, Down
  <2> QED
    BY WhoInitializes, <2>1, <2>2, <2>3, <2>4, <2>5
<1>10. \A w \in Workers : job'[w].matches \in Seq(C)
  <2>1. <<>> \in Seq(C) /\ Idle.matches = <<>> /\ \A m : Sending(m).matches = m
    BY EmptySeq DEF Idle, Sending
  <2>2. ASSUME NEW w \in Workers, NEW j, job' = [job EXCEPT ![w] = j], j.matches \in Seq(C)
        PROVE  \A v \in Workers : job'[v].matches \in Seq(C)
    <3>1. \A v \in Workers : job'[v] = IF v = w THEN j ELSE job[v]
      BY <1>2, <2>2
    <3> QED
      BY <1>4, <2>2, <3>1
  <2> Idle.matches \in Seq(C) /\ \A m \in Seq(C) : Sending(m).matches \in Seq(C)
    BY <2>1
  <2>3. CASE UNCHANGED job
    BY <1>4, <2>3
  <2>4. CASE TakeCall
    <3> DEFINE j == [Idle EXCEPT !.pc = "wait", !.matches = Head(calls)]
    <3>1. Head(calls) \in Seq(C) /\ job' = [job EXCEPT !["execute"] = j]
      BY <1>4, <2>4, TailFacts DEF TakeCall
    <3>2. j.matches = Head(calls)
      BY DEF Idle
    <3> HIDE DEF j
    <3> QED
      BY <1>2, <2>2, <3>1, <3>2
  <2>5. CASE ExecuteBehindQueue \/ ExecuteNothing \/ ExecuteDone \/ ResendNothing \/ ResendPart
    <3>1. \/ job' = [job EXCEPT !["execute"] = Idle]
          \/ job' = [job EXCEPT !["resend"] = Idle]
      BY <2>5 DEF ExecuteBehindQueue, ExecuteNothing, ExecuteDone, ResendNothing, ResendPart
    <3>2. CASE job' = [job EXCEPT !["execute"] = Idle]
      BY <1>2, <2>2, <3>2
    <3>3. CASE job' = [job EXCEPT !["resend"] = Idle]
      BY <1>2, <2>2, <3>3
    <3> QED
      BY <3>1, <3>2, <3>3
  <2>6. CASE StartsRetry
    <3>1. \/ UNCHANGED job
          \/ queue # <<>> /\ job' = [job EXCEPT !["resend"] = Sending(Head(queue))]
      BY <2>6 DEF StartsRetry, NextRetry, BecameStable, WithdrawalToOperator, InitDone, Retry,
                  BeginRetry
    <3>2. queue # <<>> => Head(queue) \in Seq(C)
      BY <1>4, TailFacts
    <3> QED
      BY <1>2, <2>1, <2>2, <2>3, <3>1, <3>2
  <2>7. CASE ResendAll
    <3>1. queue # <<>>
      BY <1>2, <2>7 DEF ResendAll, Updated, ResendSound
    <3>2. Tail(queue) # <<>> => Head(Tail(queue)) \in Seq(C)
      BY <1>4, <3>1, TailFacts
    <3> QED
      <4>1. \/ job' = [job EXCEPT !["resend"] = Idle]
            \/ /\ Tail(queue) # <<>>
               /\ job' = [job EXCEPT !["resend"] = Sending(Head(Tail(queue)))]
        BY <2>7 DEF ResendAll
      <4>2. CASE job' = [job EXCEPT !["resend"] = Idle]
        BY <1>2, <2>2, <4>2
      <4>3. CASE /\ Tail(queue) # <<>>
                 /\ job' = [job EXCEPT !["resend"] = Sending(Head(Tail(queue)))]
        BY <1>2, <2>2, <3>2, <4>3
      <4> QED
        BY <4>1, <4>2, <4>3
  <2>8. CASE Crash
    BY <2>1, <2>8 DEF Crash, Down
  <2>9. CASE ExecuteNow \/ \E w \in Workers : SendOne(w) \/ SendFailsLater(w) \/ UpdateOne(w)
    <3>1. \A v \in Workers : job'[v].matches = job[v].matches
      <4>1. CASE ExecuteNow
        BY <1>2, <4>1 DEF ExecuteNow, JobType
      <4>2. ASSUME NEW w \in Workers, SendOne(w)
            PROVE  \A v \in Workers : job'[v].matches = job[v].matches
        BY <1>2, <4>2 DEF SendOne, JobType
      <4>3. ASSUME NEW w \in Workers, SendFailsLater(w)
            PROVE  \A v \in Workers : job'[v].matches = job[v].matches
        BY <1>2, <4>3 DEF SendFailsLater, JobType
      <4>4. ASSUME NEW w \in Workers, UpdateOne(w)
            PROVE  \A v \in Workers : job'[v].matches = job[v].matches
        BY <1>2, <4>4 DEF UpdateOne, JobType
      <4> QED
        BY <2>9, <4>1, <4>2, <4>3, <4>4
    <3> QED
      BY <1>4, <3>1
  <2> QED
    BY WhoWorks, <2>3, <2>4, <2>5, <2>6, <2>7, <2>8, <2>9
<1> QED
  BY <1>5, <1>7, <1>8, <1>9, <1>10 DEF CreatedSound, C

LEMMA OnDagStep ==
    ASSUME IInv, [Next]_vars
    PROVE  SuccessIsOnDag'
<1>1. /\ TypeOK /\ JobsSound /\ SuccessIsOnDag
      /\ units \in Seq(Trades) /\ units' \in Seq(Trades)
      /\ DOMAIN units = 1..Len(units) /\ DOMAIN units' = 1..Len(units')
      /\ \A u \in 1..Len(units) : u \in 1..Len(units') /\ units'[u] = units[u]
  BY UnitsTypeStep, LenProperties DEF IInv, TypeOK
<1>2. ASSUME NEW t \in Trades, NEW u \in 1..Len(units), units[u] = t,
             status' = [status EXCEPT ![t] = "SUCCESS"], txHash' = [txHash EXCEPT ![t] = u]
      PROVE  SuccessIsOnDag'
  BY <1>1, <1>2 DEF SuccessIsOnDag, TypeOK
<1>3. CASE UNCHANGED <<status, txHash>>
  BY <1>1, <1>3 DEF SuccessIsOnDag
<1>4. CASE BackendCreate
  BY <1>1, <1>4 DEF SuccessIsOnDag, BackendCreate, TypeOK
<1>5. CASE InitAlreadySent
  <2>1. init.todo \in Seq(Trades) /\ init.todo # <<>>
    BY <1>1, <1>5 DEF TypeOK, InitAlreadySent
  <2>2. Head(init.todo) \in Trades
    BY <2>1, TailFacts
  <2> QED
    BY <1>1, <1>2, <1>5, <2>2 DEF InitAlreadySent, UnitsOf
<1>6. ASSUME NEW w \in Workers, UpdateOne(w)
      PROVE  SuccessIsOnDag'
  BY <1>1, <1>2, <1>6, UpdateTarget
<1> QED
  BY WhoSettles, <1>3, <1>4, <1>5, <1>6

\* t is in one of the batches of s.
Among(t, s) == \E i \in 1..Len(s) : t \in ToSet(s[i])

\* t is in memory.
Held(t) ==
    \/ Among(t, queue) \/ Among(t, calls) \/ Among(t, toCall)
    \/ t \in ToSet(job["execute"].matches)
    \/ t \in ToSet(job["resend"].matches)
    \/ t \in ToSet(init.todo)

LEMMA AmongAppend ==
    ASSUME NEW S, NEW s \in Seq(S), NEW b \in S, NEW t
    PROVE  Among(t, Append(s, b)) <=> Among(t, s) \/ t \in ToSet(b)
<1>1. /\ Len(s) \in Nat
      /\ Len(Append(s, b)) = Len(s) + 1
      /\ \A i \in 1..Len(s) : Append(s, b)[i] = s[i]
      /\ Append(s, b)[Len(s) + 1] = b
  BY AppendFacts, LenProperties
<1>2. \A i \in 1..(Len(s) + 1) : i \in 1..Len(s) \/ i = Len(s) + 1
  BY <1>1
<1>3. \A i \in 1..Len(s) : i \in 1..(Len(s) + 1)
  BY <1>1
<1>4. Len(s) + 1 \in 1..(Len(s) + 1)
  BY <1>1
<1> HIDE DEF Among
<1>5. Among(t, s) => Among(t, Append(s, b))
  BY <1>1, <1>3 DEF Among
<1>6. t \in ToSet(b) => Among(t, Append(s, b))
  BY <1>1, <1>4 DEF Among
<1>7. Among(t, Append(s, b)) => Among(t, s) \/ t \in ToSet(b)
  BY <1>1, <1>2 DEF Among
<1> QED
  BY <1>5, <1>6, <1>7

LEMMA AmongTail ==
    ASSUME NEW S, NEW s \in Seq(S), s # <<>>, NEW t
    PROVE  Among(t, s) <=> t \in ToSet(Head(s)) \/ Among(t, Tail(s))
<1>1. /\ Len(s) \in Nat \ {0}
      /\ Head(s) = s[1]
      /\ Len(Tail(s)) = Len(s) - 1
      /\ \A i \in 1..Len(Tail(s)) : Tail(s)[i] = s[i + 1]
  BY TailFacts
<1>2. ASSUME NEW i \in 1..Len(s), t \in ToSet(s[i])
      PROVE  t \in ToSet(Head(s)) \/ Among(t, Tail(s))
  <2>1. CASE i = 1
    BY <1>1, <1>2, <2>1
  <2>2. CASE i # 1
    <3>1. i - 1 \in 1..Len(Tail(s)) /\ (i - 1) + 1 = i
      BY <1>1, <2>2
    <3> QED
      BY <1>1, <1>2, <3>1 DEF Among
  <2> QED
    BY <2>1, <2>2
<1>3. 1 \in 1..Len(s) /\ \A i \in 1..Len(Tail(s)) : i + 1 \in 1..Len(s)
  BY <1>1
<1>4. Among(t, Tail(s)) => Among(t, s)
  BY <1>1, <1>3 DEF Among
<1>5. t \in ToSet(Head(s)) => Among(t, s)
  BY <1>1, <1>3 DEF Among
<1>6. Among(t, s) => t \in ToSet(Head(s)) \/ Among(t, Tail(s))
  BY <1>2 DEF Among
<1> QED
  BY <1>4, <1>5, <1>6

\* A batch that a worker has updated: each trade of it is settled or unsent.
LEMMA DoneOrUnsent ==
    ASSUME TypeOK, JobsSound, NEW w \in Workers, Updated(w),
           NEW t \in ToSet(job[w].matches)
    PROVE  status[t] = "SUCCESS" \/ t \in ToSet(Unsent(job[w]))
<1> DEFINE j == job[w]
<1>1. /\ j.matches \in Seq(Trades)
      /\ Len(j.sent) \in Nat
      /\ Len(j.sent) <= Len(j.matches)
      /\ j.updated = Len(j.sent)
      /\ \A k \in 1..j.updated : status[j.matches[k]] = "SUCCESS"
  BY JobType1 DEF JobsSound, JobSound, Updated
<1>2. PICK i \in 1..Len(j.matches) : t = j.matches[i]
  BY <1>1, LenProperties DEF ToSet
<1>3. \A k \in 1..Len(j.matches) :
         k <= Len(j.sent) \/ j.matches[k] \in ToSet(Unsent(j))
  BY <1>1, PartsFacts
<1>4. i <= Len(j.sent) => i \in 1..j.updated
  BY <1>1
<1> QED
  BY <1>1, <1>2, <1>3, <1>4

\* A pending trade that leaves the memory of the process has been settled, and
\* one that is new is in a call.
LEMMA ForgottenStep ==
    ASSUME IInv, [Next]_vars
    PROVE  NoneForgotten'
<1>1. /\ TypeOK /\ JobsSound /\ ResendSound /\ InitSound /\ NoneForgotten
      /\ status \in [Trades -> {"NONE", "PENDING", "SUCCESS"}]
      /\ queue \in Seq(Seq(Trades))
      /\ calls \in Seq(Seq(Trades))
      /\ toCall \in Seq(Seq(Trades))
      /\ init.todo \in Seq(Trades)
      /\ init \in InitType
      /\ job \in [Workers -> JobType]
      /\ \A w \in Workers : job[w].matches \in Seq(Trades)
      /\ "execute" \in Workers /\ "resend" \in Workers
  BY JobType1 DEF IInv, TypeOK, InitType, Workers
<1>2. /\ DOMAIN queue = 1..Len(queue)
      /\ DOMAIN calls = 1..Len(calls)
      /\ DOMAIN toCall = 1..Len(toCall)
  BY <1>1, LenProperties
<1>3. /\ DOMAIN queue' = 1..Len(queue')
      /\ DOMAIN calls' = 1..Len(calls')
      /\ DOMAIN toCall' = 1..Len(toCall')
  <2>1. TypeOK'
    BY TypeStep
  <2> QED
    BY <2>1, LenProperties DEF TypeOK
<1>4. init.pc # "load" => \A t \in Trades : status[t] = "PENDING" => Held(t)
  BY <1>1, <1>2 DEF NoneForgotten, Tracked, Workers, Held, Among
<1>5. SUFFICES ASSUME init'.pc # "load", NEW t \in Trades, status'[t] = "PENDING"
               PROVE  Held(t)'
  BY <1>3 DEF NoneForgotten, Tracked, Workers, Held, Among
<1>6. CASE InitLoad
  <2>1. init'.todo \in Sorted({x \in Trades : status[x] = "PENDING"}) /\ UNCHANGED status
    BY <1>6 DEF InitLoad, durable
  <2>2. ToSet(init'.todo) = {x \in Trades : status[x] = "PENDING"}
    BY <2>1, SortedType
  <2> QED
    BY <1>5, <2>1, <2>2 DEF Held
<1>7. CASE ~InitLoad
  <2>1. init.pc # "load"
    <3>1. CASE UNCHANGED init
      BY <1>5, <3>1
    <3>2. CASE InitQueue \/ InitAlreadySent \/ InitAnnounce \/ InitDone
      BY <3>2 DEF InitQueue, InitAlreadySent, InitAnnounce, InitDone
    <3>3. CASE Crash
      BY <1>5, <3>3 DEF Crash, Down
    <3> QED
      BY WhoInitializes, <1>7, <3>1, <3>2, <3>3
  <2>2. status[t] = "PENDING" => Held(t)
    BY <1>4, <2>1
  <2>3. status[t] = "PENDING" \/ BackendCreate
    <3>1. CASE UNCHANGED <<status, txHash>>
      BY <1>5, <3>1
    <3>2. CASE InitAlreadySent
      BY <1>1, <1>5, <3>2 DEF InitAlreadySent
    <3>3. ASSUME NEW w \in Workers, UpdateOne(w)
          PROVE  status[t] = "PENDING"
      <4> DEFINE u == job[w].matches[job[w].updated + 1]
      <4>1. status' = [status EXCEPT ![u] = "SUCCESS"]
        BY <1>1, <3>3, UpdateTarget
      <4> HIDE DEF u
      <4> QED
        BY <1>1, <1>5, <4>1
    <3> QED
      BY WhoSettles, <3>1, <3>2, <3>3
  <2>4. CASE BackendCreate
    <3>1. /\ Batches[created + 1] \in Seq(Trades)
          /\ status[t] = "PENDING" \/ t \in ToSet(Batches[created + 1])
      <4>1. created + 1 \in 1..Len(Batches)
        BY <1>1, <2>4, NextBatch
      <4>2. Batches[created + 1] \in Seq(Trades)
        BY <4>1, BatchType
      <4> QED
        BY <1>5, <2>4, <4>2 DEF BackendCreate
    <3>2. /\ UNCHANGED <<queue, init, job>>
          /\ \/ calls' = Append(calls, Batches[created + 1]) /\ UNCHANGED toCall
             \/ toCall' = Append(toCall, Batches[created + 1]) /\ UNCHANGED calls
      BY <2>4 DEF BackendCreate
    <3>3. CASE calls' = Append(calls, Batches[created + 1]) /\ UNCHANGED toCall
      <4>1. Among(t, calls') <=> Among(t, calls) \/ t \in ToSet(Batches[created + 1])
        BY <1>1, <3>1, <3>3, AmongAppend
      <4> QED
        BY <2>2, <3>1, <3>2, <3>3, <4>1 DEF Held
    <3>4. CASE toCall' = Append(toCall, Batches[created + 1]) /\ UNCHANGED calls
      <4>1. Among(t, toCall') <=> Among(t, toCall) \/ t \in ToSet(Batches[created + 1])
        BY <1>1, <3>1, <3>4, AmongAppend
      <4> QED
        BY <2>2, <3>1, <3>2, <3>4, <4>1 DEF Held
    <3> QED
      BY <3>2, <3>3, <3>4
  <2>5. CASE ~BackendCreate
    <3>1. Held(t) /\ status[t] = "PENDING"
      BY <2>2, <2>3, <2>5
    <3>2. CASE BackendCall
      <4>1. /\ toCall # <<>>
            /\ toCall' = Tail(toCall)
            /\ UNCHANGED <<queue, init, job>>
            /\ calls' = IF up THEN Append(calls, Head(toCall)) ELSE calls
        BY <3>2 DEF BackendCall
      <4>2. calls' = Append(calls, Head(toCall))
        BY <1>1, <2>1, <4>1 DEF InitSound
      <4>3. /\ Among(t, toCall) <=> t \in ToSet(Head(toCall)) \/ Among(t, toCall')
            /\ Among(t, calls') <=> Among(t, calls) \/ t \in ToSet(Head(toCall))
        BY <1>1, <4>1, <4>2, AmongTail, AmongAppend, TailFacts
      <4> QED
        BY <3>1, <4>1, <4>3 DEF Held
    <3>3. CASE TakeCall
      <4>1. /\ calls # <<>>
            /\ calls' = Tail(calls)
            /\ UNCHANGED <<queue, init, toCall>>
            /\ job["execute"].pc = "idle"
            /\ job' = [job EXCEPT !["execute"] =
                         [Idle EXCEPT !.pc = "wait", !.matches = Head(calls)]]
        BY <3>3 DEF TakeCall, backend
      <4>2. job["execute"] = Idle /\ ToSet(Idle.matches) = {}
        BY <1>1, <4>1 DEF JobsSound, JobSound, Idle, ToSet
      <4>3. /\ job'["execute"].matches = Head(calls)
            /\ job'["resend"] = job["resend"]
        BY <1>1, <4>1 DEF Idle
      <4>4. Among(t, calls) <=> t \in ToSet(Head(calls)) \/ Among(t, calls')
        BY <1>1, <4>1, AmongTail
      <4> QED
        BY <3>1, <4>1, <4>2, <4>3, <4>4 DEF Held
    <3>4. CASE ExecuteBehindQueue \/ ExecuteNothing
      <4>1. /\ UNCHANGED <<init, calls, toCall>>
            /\ queue' = Append(queue, job["execute"].matches)
            /\ job' = [job EXCEPT !["execute"] = Idle]
        BY <3>4 DEF ExecuteBehindQueue, ExecuteNothing, backend
      <4>2. Among(t, queue') <=> Among(t, queue) \/ t \in ToSet(job["execute"].matches)
        BY <1>1, <4>1, AmongAppend
      <4>3. job'["resend"] = job["resend"]
        BY <1>1, <4>1
      <4> QED
        BY <3>1, <4>1, <4>2, <4>3 DEF Held
    <3>5. CASE ExecuteDone
      <4> DEFINE j == job["execute"]
      <4>1. /\ UNCHANGED <<init, calls, toCall>>
            /\ Updated("execute")
            /\ queue' = IF Unsent(j) = <<>> THEN queue ELSE Append(queue, Unsent(j))
            /\ job' = [job EXCEPT !["execute"] = Idle]
        BY <3>5 DEF ExecuteDone, backend
      <4>2. Unsent(j) \in Seq(Trades)
        BY <1>1, JobType1, PartsFacts DEF JobsSound, JobSound
      <4>3. t \in ToSet(j.matches) => t \in ToSet(Unsent(j))
        BY <1>1, <3>1, <4>1, DoneOrUnsent
      <4>4. Among(t, queue') <=> Among(t, queue) \/ t \in ToSet(Unsent(j))
        <5>1. CASE Unsent(j) = <<>>
          BY <4>1, <5>1 DEF ToSet
        <5>2. CASE Unsent(j) # <<>>
          BY <1>1, <4>1, <4>2, <5>2, AmongAppend
        <5> QED
          BY <5>1, <5>2
      <4>5. job'["resend"] = job["resend"]
        BY <1>1, <4>1
      <4> QED
        BY <3>1, <4>1, <4>3, <4>4, <4>5 DEF Held
    <3>6. CASE StartsRetry
      <4>1. /\ UNCHANGED <<queue, calls, toCall>>
            /\ init'.todo = init.todo
            /\ \/ UNCHANGED job
               \/ ~retryLock /\ job' = [job EXCEPT !["resend"] = Sending(Head(queue))]
        <5>1. CASE NextRetry
          BY <5>1 DEF NextRetry, BeginRetry, backend
        <5>2. CASE BecameStable
          BY <5>2 DEF BecameStable, Retry, BeginRetry, backend
        <5>3. CASE WithdrawalToOperator
          BY <5>3 DEF WithdrawalToOperator, Retry, BeginRetry, backend
        <5>4. CASE InitDone
          <6>1. ~retryLock
            BY <1>1, <5>4 DEF InitDone, InitSound
          <6> QED
            BY <1>1, <5>4, <6>1 DEF InitDone, BeginRetry, InitType, backend
        <5> QED
          BY <3>6, <5>1, <5>2, <5>3, <5>4 DEF StartsRetry
      <4>2. CASE UNCHANGED job
        BY <3>1, <4>1, <4>2 DEF Held
      <4>3. CASE ~retryLock /\ job' = [job EXCEPT !["resend"] = Sending(Head(queue))]
        <5>1. job["resend"] = Idle /\ ToSet(Idle.matches) = {}
          BY <1>1, <4>3 DEF JobsSound, JobSound, ResendSound, Idle, ToSet
        <5>2. job'["execute"] = job["execute"]
          BY <1>1, <4>3
        <5> QED
          BY <3>1, <4>1, <5>1, <5>2 DEF Held
      <4> QED
        BY <4>1, <4>2, <4>3
    <3>7. CASE ResendNothing
      <4>1. /\ UNCHANGED <<queue, init, calls, toCall>>
            /\ job' = [job EXCEPT !["resend"] = Idle]
            /\ queue # <<>>
            /\ job["resend"].matches = Head(queue)
        BY <1>1, <3>7 DEF ResendNothing, SendFails, ResendSound, backend
      <4>2. job'["execute"] = job["execute"]
        BY <1>1, <4>1
      <4>3. Among(t, queue) <=> t \in ToSet(Head(queue)) \/ Among(t, Tail(queue))
        BY <1>1, <4>1, AmongTail
      <4> QED
        BY <3>1, <4>1, <4>2, <4>3 DEF Held
    <3>8. CASE ResendPart \/ ResendAll
      <4> DEFINE j == job["resend"]
      <4>1. /\ UNCHANGED <<init, calls, toCall>>
            /\ Updated("resend")
            /\ queue # <<>>
            /\ j.matches = Head(queue)
        BY <1>1, <3>8 DEF ResendPart, ResendAll, Updated, ResendSound, backend
      <4>2. t \in ToSet(j.matches) => t \in ToSet(Unsent(j))
        BY <1>1, <3>1, <4>1, DoneOrUnsent
      <4>3. Among(t, queue) <=> t \in ToSet(Head(queue)) \/ Among(t, Tail(queue))
        BY <1>1, <4>1, AmongTail
      <4>4. CASE ResendPart
        <5>1. /\ queue' = [queue EXCEPT ![1] = Unsent(j)]
              /\ job' = [job EXCEPT !["resend"] = Idle]
          BY <4>4 DEF ResendPart
        <5>2. job'["execute"] = job["execute"]
          BY <1>1, <5>1
        <5>3. Unsent(j) \in Seq(Trades)
          BY <1>1, JobType1, PartsFacts DEF JobsSound, JobSound
        <5>4. /\ 1 \in 1..Len(queue)
              /\ Len(queue) \in Nat \ {0}
              /\ Len(Tail(queue)) = Len(queue) - 1
              /\ \A i \in 1..Len(Tail(queue)) : Tail(queue)[i] = queue[i + 1]
          BY <1>1, <4>1, TailFacts
        <5>5. /\ Len(queue') = Len(queue)
              /\ \A i \in 1..Len(queue) :
                    queue'[i] = IF i = 1 THEN Unsent(j) ELSE queue[i]
          BY <1>1, <5>1, <5>3, <5>4, ExceptSeq
        <5>6. ASSUME NEW i \in 1..Len(Tail(queue)), t \in ToSet(Tail(queue)[i])
              PROVE  Among(t, queue')
          <6>1. i + 1 \in 1..Len(queue) /\ i + 1 # 1
            BY <5>4
          <6>2. queue'[i + 1] = Tail(queue)[i] /\ i + 1 \in 1..Len(queue')
            BY <5>4, <5>5, <6>1
          <6> QED
            BY <5>6, <6>2 DEF Among
        <5>7. Among(t, Tail(queue)) => Among(t, queue')
          BY <5>6 DEF Among
        <5>8. t \in ToSet(Unsent(j)) => Among(t, queue')
          BY <5>4, <5>5 DEF Among
        <5> QED
          BY <3>1, <4>1, <4>2, <4>3, <5>2, <5>7, <5>8 DEF Held
      <4>5. CASE ResendAll
        <5>1. queue' = Tail(queue) /\ Unsent(j) = <<>>
          BY <4>5 DEF ResendAll
        <5>2. job'["execute"] = job["execute"]
          BY <1>1, <4>5 DEF ResendAll
        <5>3. t \notin ToSet(Unsent(j))
          BY <5>1 DEF ToSet
        <5> QED
          BY <3>1, <4>1, <4>2, <4>3, <5>1, <5>2, <5>3 DEF Held
      <4> QED
        BY <3>8, <4>4, <4>5
    <3>9. CASE InitQueue
      <4>1. /\ UNCHANGED <<calls, toCall, job>>
            /\ init.todo # <<>>
            /\ init'.todo = Tail(init.todo)
            /\ queue' = Append(queue, <<Head(init.todo)>>)
        BY <1>1, <3>9 DEF InitQueue, InitType, backend
      <4>2. <<Head(init.todo)>> \in Seq(Trades) /\ ToSet(<<Head(init.todo)>>) = {Head(init.todo)}
        BY <1>1, <4>1, TailFacts DEF ToSet
      <4>3. /\ Among(t, queue') <=> Among(t, queue) \/ t = Head(init.todo)
            /\ ToSet(init.todo) = {Head(init.todo)} \cup ToSet(Tail(init.todo))
        BY <1>1, <4>1, <4>2, AmongAppend, TailFacts
      <4> QED
        BY <3>1, <4>1, <4>3 DEF Held
    <3>10. CASE InitAnnounce
      <4>1. /\ UNCHANGED <<queue, calls, toCall, job>>
            /\ init.todo # <<>>
            /\ status[Head(init.todo)] = "SUCCESS"
            /\ init'.todo = Tail(init.todo)
        BY <1>1, <3>10 DEF InitAnnounce, InitSound, backend
      <4>2. ToSet(init.todo) = {Head(init.todo)} \cup ToSet(Tail(init.todo))
        BY <1>1, <4>1, TailFacts
      <4>3. t # Head(init.todo)
        BY <3>1, <4>1
      <4> QED
        BY <3>1, <4>1, <4>2, <4>3 DEF Held
    <3>11. CASE InitAlreadySent
      <4>1. UNCHANGED <<queue, calls, toCall, job>> /\ init'.todo = init.todo
        BY <1>1, <3>11 DEF InitAlreadySent, InitType, backend
      <4> QED
        BY <3>1, <4>1 DEF Held
    <3>12. ASSUME ExecuteNow \/ Restart \/ UNCHANGED vars
           PROVE  Held(t)'
      <4>1. /\ UNCHANGED <<queue, calls, toCall, init>>
            /\ job'["execute"].matches = job["execute"].matches
            /\ job'["resend"].matches = job["resend"].matches
        BY <1>1, <3>12 DEF ExecuteNow, Restart, vars, volatile, backend, JobType
      <4> QED
        BY <3>1, <4>1 DEF Held
    <3>13. ASSUME NEW w \in Workers, SendOne(w) \/ SendFailsLater(w) \/ UpdateOne(w)
           PROVE  Held(t)'
      <4>1. UNCHANGED <<queue, calls, toCall, init>>
        BY <3>13 DEF SendOne, SendFailsLater, UpdateOne, backend
      <4>2. ASSUME NEW v \in Workers
            PROVE  job'[v].matches = job[v].matches
        <5>1. CASE SendOne(w)
          BY <1>1, <5>1 DEF SendOne, JobType
        <5>2. CASE SendFailsLater(w)
          BY <1>1, <5>2 DEF SendFailsLater, JobType
        <5>3. CASE UpdateOne(w)
          BY <1>1, <5>3 DEF UpdateOne, JobType
        <5> QED
          BY <3>13, <5>1, <5>2, <5>3
      <4> QED
        BY <1>1, <3>1, <4>1, <4>2 DEF Held
    <3>14. ~Crash
      BY <1>5 DEF Crash, Down
    <3> QED
      BY <1>7, <2>5, <3>2, <3>3, <3>4, <3>5, <3>6, <3>7, <3>8, <3>9, <3>10, <3>11, <3>12,
         <3>13, <3>14 DEF Next, Work, Execute, Resend, Initialize, StartsRetry
  <2> QED
    BY <2>4, <2>5
<1> QED
  BY <1>6, <1>7

-----------------------------------------------------------------------------
(* The invariant is inductive *)

LEMMA InitHolds ==
    ASSUME Init
    PROVE  IInv
<1>1. /\ Idle \in JobType
      /\ Len(Batches) \in Nat
      /\ {MaxFunds, MaxWaiting, MaxCrashes} \subseteq Nat
      /\ \A S : <<>> \in Seq(S)
      /\ Len(<<>>) = 0
      /\ 1..0 = {}
  BY IdleType, BatchesAssumption, EmptySeq
<1>2. TypeOK
  <2>1. job \in [Workers -> JobType]
    BY <1>1 DEF Init
  <2>2. /\ created \in 0..Len(Batches)
        /\ stable \in 0..Len(units)
        /\ funds \in 0..MaxFunds
        /\ waiting \in 0..MaxWaiting
        /\ crashes \in 0..MaxCrashes
    BY <1>1 DEF Init
  <2>3. /\ status \in [Trades -> {"NONE", "PENDING", "SUCCESS"}]
        /\ txHash \in [Trades -> Nat]
    BY DEF Init
  <2>4. init \in InitType
    BY <1>1 DEF Init, InitType
  <2>5. up \in BOOLEAN /\ retryLock \in BOOLEAN
    BY DEF Init
  <2>6. units = <<>> /\ events = <<>> /\ toCall = <<>> /\ queue = <<>> /\ calls = <<>>
    BY DEF Init
  <2> QED
    BY <1>1, <2>1, <2>2, <2>3, <2>4, <2>5, <2>6 DEF TypeOK, JobType, InitType
<1>3. JobsSound /\ ResendSound
  BY JobStopped DEF Init, JobsSound, ResendSound, Idle, Workers
<1>4. BatchesSound /\ InitSound
  BY <1>1 DEF Init, BatchesSound, InitSound, Idle, Workers
<1>5. CreatedSound
  BY <1>1 DEF Init, CreatedSound, Idle
<1>6. SuccessIsOnDag /\ NoneForgotten
  BY DEF Init, SuccessIsOnDag, NoneForgotten
<1> QED
  BY <1>2, <1>3, <1>4, <1>5, <1>6 DEF IInv

LEMMA Inductive ==
    Spec => []IInv
<1>1. Init => IInv
  BY InitHolds
<1>2. IInv /\ [Next]_vars => IInv'
  BY TypeStep, JobsStep, ResendStep, BatchesStep, InitStep, CreatedStep, OnDagStep,
     ForgottenStep DEF IInv
<1> QED
  BY <1>1, <1>2, PTL DEF Spec

-----------------------------------------------------------------------------
(* Trades in line *)

\* All the trades of a sequence of batches
InBatches(q) == {t \in Trades : Among(t, q)}

\* A line of batches, each in order, the earlier batches first
InLine(q) ==
    /\ \A i \in 1..Len(q) : Ascending(q[i])
    /\ \A i, j \in 1..Len(q) : i < j => Older(ToSet(q[i]), ToSet(q[j]))

\* What was sent of a batch
SentOf(j) == {j.matches[k] : k \in 1..Len(j.sent)}

LEMMA OlderParts ==
    ASSUME NEW A, NEW B, NEW S
    PROVE  /\ Older(A \cup B, S) <=> Older(A, S) /\ Older(B, S)
           /\ Older(S, A \cup B) <=> Older(S, A) /\ Older(S, B)
           /\ Older({}, S)
           /\ Older(S, {})
           /\ A \subseteq B => (Older(B, S) => Older(A, S)) /\ (Older(S, B) => Older(S, A))
  BY DEF Older

LEMMA EmptyLine ==
    /\ ToSet(<<>>) = {}
    /\ Ascending(<<>>)
    /\ InBatches(<<>>) = {}
    /\ InLine(<<>>)
<1>1. Len(<<>>) = 0 /\ 1..0 = {} /\ DOMAIN <<>> = {}
  BY EmptySeq
<1> QED
  BY <1>1 DEF ToSet, Ascending, InBatches, Among, InLine

LEMMA LineAppend ==
    ASSUME NEW q \in Seq(Seq(Trades)), NEW b \in Seq(Trades)
    PROVE  /\ InBatches(Append(q, b)) = InBatches(q) \cup ToSet(b)
           /\ InLine(q) /\ Ascending(b) /\ Older(InBatches(q), ToSet(b))
                 => InLine(Append(q, b))
<1>1. /\ Len(q) \in Nat
      /\ Len(Append(q, b)) = Len(q) + 1
      /\ \A i \in 1..Len(q) : Append(q, b)[i] = q[i]
      /\ Append(q, b)[Len(q) + 1] = b
  BY AppendFacts, LenProperties
<1>2. ToSet(b) \subseteq Trades
  BY DEF ToSet
<1>3. InBatches(Append(q, b)) = InBatches(q) \cup ToSet(b)
  BY <1>2, AmongAppend DEF InBatches
<1>4. ASSUME InLine(q), Ascending(b), Older(InBatches(q), ToSet(b))
      PROVE  InLine(Append(q, b))
  <2> DEFINE r == Append(q, b)
  <2>1. \A i \in 1..Len(q) : ToSet(q[i]) \subseteq InBatches(q)
    <3> SUFFICES ASSUME NEW i \in 1..Len(q), NEW t \in ToSet(q[i])
                 PROVE  t \in InBatches(q)
      OBVIOUS
    <3>1. q[i] \in Seq(Trades)
      BY ElementOfSeq
    <3>2. t \in Trades
      BY <3>1 DEF ToSet
    <3> QED
      BY <3>2 DEF InBatches, Among
  <2>2. \A i \in 1..Len(q) : Older(ToSet(q[i]), ToSet(b))
    BY <1>4, <2>1 DEF Older
  <2>3. \A i \in 1..Len(r) : i \in 1..Len(q) \/ (i = Len(q) + 1 /\ r[i] = b)
    BY <1>1
  <2>4. \A i \in 1..Len(q) : r[i] = q[i]
    BY <1>1
  <2>5. Len(r) = Len(q) + 1
    BY <1>1
  <2> HIDE DEF r
  <2>6. \A i \in 1..Len(r) : Ascending(r[i])
    BY <1>4, <2>3, <2>4 DEF InLine
  <2>7. ASSUME NEW i \in 1..Len(r), NEW j \in 1..Len(r), i < j
        PROVE  Older(ToSet(r[i]), ToSet(r[j]))
    <3>1. i \in 1..Len(q)
      BY <1>1, <2>5, <2>7
    <3>2. CASE j \in 1..Len(q)
      BY <1>4, <2>4, <2>7, <3>1, <3>2 DEF InLine
    <3>3. CASE j = Len(q) + 1 /\ r[j] = b
      BY <2>2, <2>4, <3>1, <3>3
    <3> QED
      BY <2>3, <3>2, <3>3
  <2>8. InLine(r)
    BY <2>6, <2>7 DEF InLine
  <2> QED
    BY <2>8 DEF r
<1> QED
  BY <1>3, <1>4

LEMMA LineTail ==
    ASSUME NEW q \in Seq(Seq(Trades)), q # <<>>
    PROVE  /\ InBatches(q) = ToSet(Head(q)) \cup InBatches(Tail(q))
           /\ InLine(q) => /\ Ascending(Head(q))
                           /\ InLine(Tail(q))
                           /\ Older(ToSet(Head(q)), InBatches(Tail(q)))
<1>1. /\ Len(q) \in Nat \ {0}
      /\ Head(q) \in Seq(Trades)
      /\ Head(q) = q[1]
      /\ Len(Tail(q)) = Len(q) - 1
      /\ \A i \in 1..Len(Tail(q)) : Tail(q)[i] = q[i + 1]
  BY TailFacts
<1>2. ToSet(Head(q)) \subseteq Trades
  BY <1>1 DEF ToSet
<1>3. InBatches(q) = ToSet(Head(q)) \cup InBatches(Tail(q))
  BY <1>2, AmongTail DEF InBatches
<1>4. /\ 1 \in 1..Len(q)
      /\ \A i \in 1..Len(Tail(q)) : i + 1 \in 1..Len(q) /\ 1 < i + 1
      /\ \A i, j \in 1..Len(Tail(q)) : i < j => i + 1 < j + 1
  BY <1>1
<1>5. ASSUME InLine(q)
      PROVE  /\ Ascending(Head(q))
             /\ InLine(Tail(q))
             /\ Older(ToSet(Head(q)), InBatches(Tail(q)))
  <2>1. Ascending(Head(q))
    BY <1>1, <1>4, <1>5 DEF InLine
  <2>2. InLine(Tail(q))
    BY <1>1, <1>4, <1>5 DEF InLine
  <2>3. \A i \in 1..Len(Tail(q)) : Older(ToSet(Head(q)), ToSet(Tail(q)[i]))
    BY <1>1, <1>4, <1>5 DEF InLine
  <2>4. Older(ToSet(Head(q)), InBatches(Tail(q)))
    BY <2>3 DEF Older, InBatches, Among
  <2> QED
    BY <2>1, <2>2, <2>4
<1> QED
  BY <1>3, <1>5

LEMMA LineReplaced ==
    ASSUME NEW q \in Seq(Seq(Trades)), q # <<>>, NEW b \in Seq(Trades)
    PROVE  /\ InBatches([q EXCEPT ![1] = b]) = ToSet(b) \cup InBatches(Tail(q))
           /\ InLine(q) /\ Ascending(b) /\ Older(ToSet(b), InBatches(Tail(q)))
                 => InLine([q EXCEPT ![1] = b])
<1>1. /\ Len(q) \in Nat \ {0}
      /\ Len(Tail(q)) = Len(q) - 1
      /\ \A i \in 1..Len(Tail(q)) : Tail(q)[i] = q[i + 1]
      /\ Tail(q) \in Seq(Seq(Trades))
  BY TailFacts
<1> DEFINE r == [q EXCEPT ![1] = b]
<1>2. /\ r \in Seq(Seq(Trades))
      /\ Len(r) = Len(q)
      /\ \A i \in 1..Len(q) : r[i] = IF i = 1 THEN b ELSE q[i]
  BY <1>1, ExceptSeq
<1> HIDE DEF r
<1>3. r # <<>>
  BY <1>1, <1>2, EmptySeq
<1>4. /\ Head(r) = b
      /\ Tail(r) \in Seq(Seq(Trades))
      /\ Len(Tail(r)) = Len(Tail(q))
  <2>1. /\ Head(r) = r[1]
        /\ Tail(r) \in Seq(Seq(Trades))
        /\ Len(Tail(r)) = Len(r) - 1
    BY <1>2, <1>3, TailFacts
  <2>2. 1 \in 1..Len(q)
    BY <1>1
  <2> QED
    BY <1>1, <1>2, <2>1, <2>2
<1>5. \A i \in 1..Len(Tail(q)) : Tail(r)[i] = Tail(q)[i]
  <2> TAKE i \in 1..Len(Tail(q))
  <2>1. Tail(r)[i] = r[i + 1]
    BY <1>2, <1>3, <1>4, TailFacts
  <2>2. i + 1 \in 1..Len(q) /\ i + 1 # 1
    BY <1>1
  <2> QED
    BY <1>1, <1>2, <2>1, <2>2
<1>6. Tail(r) = Tail(q)
  BY <1>1, <1>4, <1>5, SeqEqual
<1>7. InBatches(r) = ToSet(b) \cup InBatches(Tail(q))
  BY <1>2, <1>3, <1>4, <1>6, LineTail
<1>8. ASSUME InLine(q), Ascending(b), Older(ToSet(b), InBatches(Tail(q)))
      PROVE  InLine(r)
  <2>1. \A i \in 1..Len(r) : i = 1 \/ (i - 1 \in 1..Len(Tail(q)) /\ r[i] = Tail(q)[i - 1])
    <3> TAKE i \in 1..Len(r)
    <3>1. CASE i # 1
      <4>1. i - 1 \in 1..Len(Tail(q)) /\ (i - 1) + 1 = i
        BY <1>1, <1>2, <3>1
      <4> QED
        BY <1>1, <1>2, <3>1, <4>1
    <3> QED
      BY <3>1
  <2>2. r[1] = b
    BY <1>1, <1>2
  <2>3. InLine(Tail(q))
    BY <1>8, LineTail
  <2>4. \A i \in 1..Len(Tail(q)) : Older(ToSet(b), ToSet(Tail(q)[i]))
    <3> SUFFICES ASSUME NEW i \in 1..Len(Tail(q)), NEW t \in ToSet(Tail(q)[i])
                 PROVE  t \in InBatches(Tail(q))
      BY <1>8 DEF Older
    <3>1. Tail(q)[i] \in Seq(Trades)
      BY <1>1, ElementOfSeq
    <3>2. t \in Trades
      BY <3>1 DEF ToSet
    <3> QED
      BY <3>2 DEF InBatches, Among
  <2>5. \A i \in 1..Len(r) : Ascending(r[i])
    BY <1>8, <2>1, <2>2, <2>3 DEF InLine
  <2>6. ASSUME NEW i \in 1..Len(r), NEW k \in 1..Len(r), i < k
        PROVE  Older(ToSet(r[i]), ToSet(r[k]))
    <3>1. k # 1
      BY <1>2, <2>6
    <3>2. k - 1 \in 1..Len(Tail(q)) /\ r[k] = Tail(q)[k - 1]
      BY <2>1, <3>1
    <3>3. CASE i = 1
      BY <2>2, <2>4, <3>2, <3>3
    <3>4. CASE i # 1
      <4>1. i - 1 \in 1..Len(Tail(q)) /\ r[i] = Tail(q)[i - 1] /\ i - 1 < k - 1
        BY <1>2, <2>1, <2>6, <3>4
      <4> QED
        BY <2>3, <3>2, <4>1 DEF InLine
    <3> QED
      BY <3>3, <3>4
  <2> QED
    BY <2>5, <2>6 DEF InLine
<1> QED
  BY <1>7, <1>8 DEF r

LEMMA AscendingTail ==
    ASSUME NEW s \in Seq(Trades), s # <<>>, Ascending(s)
    PROVE  Ascending(Tail(s)) /\ Older({Head(s)}, ToSet(Tail(s)))
<1>1. /\ Len(s) \in Nat \ {0}
      /\ Head(s) = s[1]
      /\ Tail(s) \in Seq(Trades)
      /\ Len(Tail(s)) = Len(s) - 1
      /\ \A i \in 1..Len(Tail(s)) : Tail(s)[i] = s[i + 1]
  BY TailFacts
<1>2. /\ 1 \in 1..Len(s)
      /\ \A i \in 1..Len(Tail(s)) : i + 1 \in 1..Len(s) /\ 1 < i + 1
      /\ \A i, j \in 1..Len(Tail(s)) : i < j => i + 1 < j + 1
  BY <1>1
<1>3. Ascending(Tail(s))
  BY <1>1, <1>2 DEF Ascending
<1>4. \A i \in 1..Len(Tail(s)) : Head(s) < Tail(s)[i]
  BY <1>1, <1>2 DEF Ascending
<1>5. DOMAIN Tail(s) = 1..Len(Tail(s))
  BY <1>1, LenProperties
<1> QED
  BY <1>3, <1>4, <1>5 DEF Older, ToSet

LEMMA AscendingAppend ==
    ASSUME NEW s \in Seq(Trades), NEW t \in Trades, Ascending(s), Older(ToSet(s), {t})
    PROVE  Ascending(Append(s, t))
<1>1. /\ Len(s) \in Nat
      /\ Len(Append(s, t)) = Len(s) + 1
      /\ \A i \in 1..Len(s) : Append(s, t)[i] = s[i]
      /\ Append(s, t)[Len(s) + 1] = t
      /\ \A i \in 1..Len(s) : s[i] \in ToSet(s)
  BY AppendFacts, LenProperties DEF ToSet
<1>2. ASSUME NEW i \in 1..(Len(s) + 1), NEW k \in 1..(Len(s) + 1), i < k
      PROVE  Append(s, t)[i] < Append(s, t)[k]
  <2>1. i \in 1..Len(s) /\ (k \in 1..Len(s) \/ k = Len(s) + 1)
    BY <1>1, <1>2
  <2>2. \A m \in 1..Len(s) : s[m] < t
    BY <1>1 DEF Older
  <2> QED
    BY <1>1, <1>2, <2>1, <2>2 DEF Ascending
<1> QED
  BY <1>1, <1>2 DEF Ascending

\* A batch in order: what was sent of it comes before the rest of it.
LEMMA AscendingParts ==
    ASSUME NEW j, j.matches \in Seq(Trades), Len(j.sent) \in Nat,
           Len(j.sent) <= Len(j.matches), Ascending(j.matches)
    PROVE  /\ ToSet(j.matches) = SentOf(j) \cup ToSet(Unsent(j))
           /\ Ascending(Unsent(j))
           /\ Older(SentOf(j), ToSet(Unsent(j)))
           /\ Ascending(Successful(j))
           /\ Len(Successful(j)) = Len(j.sent)
           /\ ToSet(Successful(j)) = SentOf(j)
           /\ SentOf(j) \cap ToSet(Unsent(j)) = {}
<1>1. PICK s \in Seq(Trades), n \in Nat : s = j.matches /\ n = Len(j.sent)
  OBVIOUS
<1>2. PICK u, v : u = Unsent(j) /\ v = Successful(j)
  OBVIOUS
<1>3. /\ Len(s) \in Nat /\ n <= Len(s)
      /\ DOMAIN s = 1..Len(s)
      /\ \A i \in 1..Len(s) : s[i] \in Trades
      /\ \A i, k \in 1..Len(s) : i < k => s[i] < s[k]
  BY <1>1, LenProperties DEF Ascending
<1>4. \A i \in 1..Len(s) : s[i] \in Nat
  BY <1>3, TradeNumbers
<1>5. /\ u \in Seq(Trades)
      /\ Len(u) = IF n + 1 <= Len(s) THEN Len(s) - (n + 1) + 1 ELSE 0
      /\ \A i \in 1..(Len(s) - (n + 1) + 1) : u[i] = s[n + 1 + i - 1]
  <2>1. u = SubSeq(s, n + 1, Len(s))
    BY <1>1, <1>2 DEF Unsent
  <2>2. \A i \in (n + 1)..Len(s) : s[i] \in Trades
    BY <1>3
  <2>3. n + 1 \in Int /\ Len(s) \in Int
    BY <1>3
  <2> QED
    BY <2>1, <2>2, <2>3, SubSeqProperties
<1>6. /\ v \in Seq(Trades)
      /\ Len(v) = n
      /\ \A i \in 1..n : v[i] = s[i]
  <2>1. v = SubSeq(s, 1, n)
    BY <1>1, <1>2 DEF Successful
  <2>2. \A i \in 1..n : s[i] \in Trades
    BY <1>3
  <2>3. /\ v \in Seq(Trades)
        /\ Len(v) = IF 1 <= n THEN n - 1 + 1 ELSE 0
        /\ \A i \in 1..(n - 1 + 1) : v[i] = s[1 + i - 1]
    BY <2>1, <2>2, SubSeqProperties
  <2>4. n - 1 + 1 = n /\ \A i \in 1..n : 1 + i - 1 = i
    OBVIOUS
  <2> QED
    BY <2>3, <2>4
<1>7. DOMAIN u = 1..Len(u) /\ DOMAIN v = 1..n
  BY <1>5, <1>6, LenProperties
<1>8. Len(u) = Len(s) - n /\ \A i \in 1..Len(u) : n + i \in 1..Len(s) /\ u[i] = s[n + i]
  <2>1. PICK m \in Nat : m = Len(s)
    BY <1>3
  <2>2. Len(u) = Len(s) - n
    <3>1. Len(u) = IF n + 1 <= m THEN m - (n + 1) + 1 ELSE 0
      BY <1>5, <2>1
    <3>2. n <= m
      BY <1>3, <2>1
    <3> QED
      BY <2>1, <3>1, <3>2
  <2>3. \A i \in 1..(m - n) : n + i \in 1..m /\ n + 1 + i - 1 = n + i /\ i \in 1..(m - (n + 1) + 1)
    BY <1>3, <2>1
  <2> QED
    BY <1>5, <2>1, <2>2, <2>3
<1>9. SentOf(j) = {s[k] : k \in 1..n}
  BY <1>1 DEF SentOf
<1>10. ToSet(s) = {s[k] : k \in 1..n} \cup ToSet(u)
  <2>1. \A k \in 1..Len(s) : k \in 1..n \/ (k - n \in 1..Len(u) /\ n + (k - n) = k)
    BY <1>3, <1>8
  <2>2. \A k \in 1..n : k \in 1..Len(s)
    BY <1>3
  <2>3. \A k \in 1..Len(s) : k \in 1..n \/ s[k] \in ToSet(u)
    BY <1>7, <1>8, <2>1 DEF ToSet
  <2>4. \A t \in ToSet(u) : t \in ToSet(s)
    BY <1>3, <1>7, <1>8 DEF ToSet
  <2>5. ToSet(s) = {s[k] : k \in 1..Len(s)}
    BY <1>3 DEF ToSet
  <2> QED
    BY <2>2, <2>3, <2>4, <2>5
<1>11. Ascending(u)
  <2>1. \A i, k \in 1..Len(u) : i < k => n + i < n + k
    BY <1>3, <1>8
  <2>2. \A i, k \in 1..Len(u) : i < k => u[i] < u[k]
    BY <1>3, <1>8, <2>1
  <2> QED
    BY <2>2 DEF Ascending
<1>12. Older({s[k] : k \in 1..n}, ToSet(u))
  <2>1. \A k \in 1..n, i \in 1..Len(u) : k \in 1..Len(s) /\ k < n + i
    BY <1>3, <1>8
  <2>2. \A k \in 1..n, i \in 1..Len(u) : s[k] < u[i]
    BY <1>3, <1>8, <2>1
  <2> QED
    BY <1>7, <2>2 DEF Older, ToSet
<1>13. Ascending(v)
  <2>1. \A k \in 1..n : k \in 1..Len(s)
    BY <1>3
  <2> QED
    BY <1>3, <1>6, <2>1 DEF Ascending
<1>14. ToSet(v) = {s[k] : k \in 1..n}
  BY <1>6, <1>7 DEF ToSet
<1>15. {s[k] : k \in 1..n} \cap ToSet(u) = {}
  <2> SUFFICES ASSUME NEW k \in 1..n, s[k] \in ToSet(u)
               PROVE  FALSE
    OBVIOUS
  <2>1. k \in 1..Len(s)
    BY <1>3
  <2>2. s[k] < s[k] /\ s[k] \in Nat
    BY <1>4, <1>12, <2>1 DEF Older
  <2> QED
    BY <2>2
<1> QED
  BY <1>1, <1>2, <1>6, <1>9, <1>10, <1>11, <1>12, <1>13, <1>14, <1>15

-----------------------------------------------------------------------------
(* The order in which trades are sent, when the backend is patient *)

\* While the queue is loaded it is not used, and nothing is called.  executeTrade
\* sends only when the queue is empty.
LoadSound ==
    /\ toCall = <<>>
    /\ init.pc = "load" => queue = <<>>
    /\ init.pc # "done" => calls = <<>> /\ job["execute"] = Idle
    /\ job["execute"].pc \in {"send", "update"} => queue = <<>>

\* First the queue, then the batch of executeTrade, then the calls that wait.
Line(q, batch, waitingCalls, todo) ==
    /\ InLine(q)
    /\ Ascending(batch)
    /\ InLine(waitingCalls)
    /\ Ascending(todo)
    /\ Older(InBatches(q), ToSet(batch))
    /\ Older(InBatches(q), InBatches(waitingCalls))
    /\ Older(InBatches(q), ToSet(todo))
    /\ Older(ToSet(batch), InBatches(waitingCalls))

LineSound == Line(queue, job["execute"].matches, calls, init.todo)

\* The units carry the oldest trades in their order.
UnitsSound ==
    /\ ToSet(units) \subseteq Created
    /\ Ascending(units)
    /\ Older(ToSet(units), Created \ ToSet(units))

\* What is in line is not on the DAG, but for what a worker has just sent.
UnsentSound ==
    \A t \in ToSet(units) :
        /\ t \in InBatches(queue) => t \in SentOf(job["resend"])
        /\ t \in ToSet(job["execute"].matches) => t \in SentOf(job["execute"])
        /\ t \notin InBatches(calls)

\* The database knows every trade that was created.
RecordedSound == \A t \in Created : status[t] # "NONE"

OrderInv ==
    /\ LoadSound
    /\ LineSound
    /\ UnitsSound
    /\ UnsentSound
    /\ RecordedSound

\* The types of what is in line
LEMMA LineTypes ==
    ASSUME TypeOK
    PROVE  /\ queue \in Seq(Seq(Trades))
           /\ calls \in Seq(Seq(Trades))
           /\ toCall \in Seq(Seq(Trades))
           /\ units \in Seq(Trades)
           /\ init \in InitType
           /\ init.todo \in Seq(Trades)
           /\ job \in [Workers -> JobType]
           /\ "execute" \in Workers /\ "resend" \in Workers
           /\ job["execute"].matches \in Seq(Trades)
           /\ job["resend"].matches \in Seq(Trades)
           /\ created \in Nat
<1>1. "execute" \in Workers /\ "resend" \in Workers
  BY DEF Workers
<1>2. created \in Nat
  BY DEF TypeOK
<1>3. init \in InitType
  BY DEF TypeOK, InitType
<1>4. init.todo \in Seq(Trades)
  BY <1>3 DEF InitType
<1>5. /\ queue \in Seq(Seq(Trades))
      /\ calls \in Seq(Seq(Trades))
      /\ toCall \in Seq(Seq(Trades))
      /\ units \in Seq(Trades)
  BY DEF TypeOK
<1> QED
  BY <1>1, <1>2, <1>3, <1>4, <1>5, JobType1

\* Until the queue is loaded, only initQueue takes steps.
LEMMA WhileLoading ==
    ASSUME IInv, LoadSound, Patient, [Next]_vars, init.pc # "done"
    PROVE  Initialize \/ Crash \/ Restart \/ UNCHANGED vars
<1>1. /\ ~Initialized
      /\ toCall = <<>> /\ calls = <<>>
      /\ job["execute"].pc = "idle"
      /\ ~retryLock /\ waiting = 0
  BY DEF Initialized, LoadSound, IInv, InitSound, Idle
<1>2. job["resend"].pc = "idle"
  BY <1>1 DEF IInv, ResendSound
<1>3. ~BackendCreate /\ ~BackendCall /\ ~BecameStable /\ ~WithdrawalToOperator
  BY <1>1 DEF BackendCreate, BackendCall, BecameStable, WithdrawalToOperator
<1>4. \A w \in Workers : ~Work(w)
  BY <1>1, <1>2 DEF Workers, Work, SendOne, SendFailsLater, SendFails, UpdateOne
<1>5. ~Execute
  BY <1>1 DEF Execute, TakeCall, ExecuteBehindQueue, ExecuteNow, ExecuteNothing, ExecuteDone,
              SendFails, Updated
<1>6. ~Resend
  BY <1>1, <1>2 DEF Resend, NextRetry, ResendNothing, ResendPart, ResendAll, SendFails, Updated
<1> QED
  BY <1>3, <1>4, <1>5, <1>6 DEF Next

\* Once it is loaded, initQueue takes no more steps.
LEMMA WhenLoaded ==
    ASSUME [Next]_vars, init.pc = "done", ~Crash
    PROVE  UNCHANGED init
<1>1. ~InitLoad /\ ~InitQueue /\ ~InitAlreadySent /\ ~InitAnnounce /\ ~InitDone
  BY DEF InitLoad, InitQueue, InitAlreadySent, InitAnnounce, InitDone
<1> QED
  BY <1>1, WhoInitializes

LEMMA LoadStep ==
    ASSUME IInv, LoadSound, Patient, [Next]_vars
    PROVE  LoadSound'
<1>1. /\ TypeOK /\ ResendSound /\ InitSound
      /\ job \in [Workers -> JobType] /\ "execute" \in Workers /\ "resend" \in Workers
      /\ init \in InitType
      /\ toCall = <<>>
  BY LineTypes DEF IInv, LoadSound
<1>2. toCall' = <<>>
  <2>1. UNCHANGED toCall \/ BackendCall
    BY WhoCalls DEF BackendCreate, TakeCall, Crash, Down, backend
  <2> QED
    BY <1>1, <2>1 DEF BackendCall
<1>3. CASE Crash
  <2>1. queue' = <<>> /\ calls' = <<>> /\ job'["execute"] = Idle
    BY <1>1, <1>3 DEF Crash, Down
  <2>2. job'["execute"].pc = "idle"
    BY <2>1 DEF Idle
  <2> QED
    BY <1>2, <2>1, <2>2 DEF LoadSound
<1>4. CASE init.pc # "done" /\ ~Crash
  <2>1. UNCHANGED calls /\ job'["execute"] = Idle /\ calls = <<>>
    <3>1. calls = <<>> /\ job["execute"] = Idle
      BY <1>4 DEF LoadSound
    <3>2. UNCHANGED calls /\ job'["execute"] = job["execute"]
      <4>1. CASE Initialize
        <5>1. /\ UNCHANGED calls
              /\ UNCHANGED job \/ job' = [job EXCEPT !["resend"] = Sending(Head(queue))]
          BY <4>1 DEF Initialize, InitLoad, InitQueue, InitAlreadySent, InitAnnounce, InitDone,
                      BeginRetry
        <5>2. job' = [job EXCEPT !["resend"] = Sending(Head(queue))]
                 => job'["execute"] = job["execute"]
          BY <1>1
        <5> QED
          BY <5>1, <5>2
      <4>2. CASE Restart \/ UNCHANGED vars
        <5>1. UNCHANGED <<calls, job>>
          BY <4>2 DEF Restart, vars, volatile
        <5> QED
          BY <5>1
      <4> QED
        BY <1>4, <4>1, <4>2, WhileLoading
    <3> QED
      BY <3>1, <3>2
  <2>2. init'.pc = "load" => queue' = <<>>
    <3>1. CASE Initialize
      <4>1. CASE InitLoad
        BY <4>1 DEF InitLoad
      <4>2. CASE InitAnnounce
        BY <4>2 DEF InitAnnounce
      <4>3. CASE InitQueue \/ InitAlreadySent \/ InitDone
        BY <1>1, <4>3 DEF InitQueue, InitAlreadySent, InitDone, InitType
      <4> QED
        BY <3>1, <4>1, <4>2, <4>3 DEF Initialize
    <3>2. CASE Restart \/ UNCHANGED vars
      BY <3>2 DEF Restart, vars, volatile, LoadSound
    <3> QED
      BY <1>4, <3>1, <3>2, WhileLoading
  <2>3. job'["execute"].pc = "idle"
    BY <2>1 DEF Idle
  <2> QED
    BY <1>2, <2>1, <2>2, <2>3 DEF LoadSound
<1>5. CASE init.pc = "done" /\ ~Crash
  <2>1. init'.pc = "done"
    BY <1>5, WhenLoaded
  <2>2. job'["execute"].pc \in {"send", "update"} => queue' = <<>>
    <3>1. CASE ExecuteBehindQueue \/ ExecuteNothing \/ ExecuteDone
      <4>1. job'["execute"] = Idle
        BY <1>1, <3>1 DEF ExecuteBehindQueue, ExecuteNothing, ExecuteDone
      <4> QED
        BY <4>1 DEF Idle
    <3>2. CASE ResendPart \/ ResendAll
      <4>1. queue # <<>>
        BY <1>1, <3>2 DEF ResendPart, ResendAll, Updated, ResendSound
      <4>2. job["execute"].pc \notin {"send", "update"}
        BY <4>1 DEF LoadSound
      <4>3. job'["execute"] = job["execute"]
        BY <1>1, <3>2 DEF ResendPart, ResendAll
      <4> QED
        BY <4>2, <4>3
    <3>3. CASE UNCHANGED queue /\ ~ExecuteNow
      <4>1. job'["execute"].pc \in {"send", "update"} => job["execute"].pc \in {"send", "update"}
        <5>1. CASE UNCHANGED job
          BY <5>1
        <5>2. CASE TakeCall
          BY <1>1, <5>2 DEF TakeCall, Idle
        <5>3. CASE ExecuteBehindQueue \/ ExecuteNothing \/ ExecuteDone
          <6>1. job'["execute"] = Idle
            BY <1>1, <5>3 DEF ExecuteBehindQueue, ExecuteNothing, ExecuteDone
          <6> QED
            BY <6>1 DEF Idle
        <5>4. CASE StartsRetry \/ ResendNothing \/ ResendPart \/ ResendAll
          <6>1. job'["execute"] = job["execute"]
            BY <1>1, <5>4 DEF StartsRetry, NextRetry, BecameStable, WithdrawalToOperator,
               InitDone, Retry, BeginRetry, ResendNothing, ResendPart, ResendAll
          <6> QED
            BY <6>1
        <5>5. ASSUME NEW w \in Workers, SendOne(w) \/ SendFailsLater(w) \/ UpdateOne(w)
              PROVE  job'["execute"].pc \in {"send", "update"}
                        => job["execute"].pc \in {"send", "update"}
          <6>1. CASE w = "execute"
            BY <5>5, <6>1 DEF SendOne, SendFailsLater, SendFails, UpdateOne
          <6>2. CASE w # "execute"
            <7>1. job'["execute"] = job["execute"]
              BY <1>1, <5>5, <6>2 DEF SendOne, SendFailsLater, UpdateOne
            <7> QED
              BY <7>1
          <6> QED
            BY <6>1, <6>2
        <5> QED
          BY WhoWorks, <1>5, <3>3, <5>1, <5>2, <5>3, <5>4, <5>5
      <4> QED
        BY <3>3, <4>1 DEF LoadSound
    <3>4. CASE ExecuteNow
      BY <3>4 DEF ExecuteNow
    <3>5. ~InitQueue
      BY <1>5 DEF InitQueue
    <3> QED
      BY WhoQueues, <1>5, <3>1, <3>2, <3>3, <3>4, <3>5
  <2> QED
    BY <1>2, <2>1, <2>2 DEF LoadSound
<1> QED
  BY <1>3, <1>4, <1>5

\* A new batch is called.
LEMMA LineCalled ==
    ASSUME NEW q, NEW m, NEW c \in Seq(Seq(Trades)), NEW b \in Seq(Trades),
           Line(q, m, c, <<>>), Ascending(b),
           Older(InBatches(q), ToSet(b)), Older(ToSet(m), ToSet(b)), Older(InBatches(c), ToSet(b))
    PROVE  Line(q, m, Append(c, b), <<>>)
<1>1. InBatches(Append(c, b)) = InBatches(c) \cup ToSet(b) /\ InLine(Append(c, b))
  BY LineAppend DEF Line
<1>2. \A S : Older(S, InBatches(c)) /\ Older(S, ToSet(b)) => Older(S, InBatches(Append(c, b)))
  BY <1>1 DEF Older
<1> QED
  BY <1>1, <1>2 DEF Line

\* executeTrade takes the next call.
LEMMA LineTaken ==
    ASSUME NEW q, NEW c \in Seq(Seq(Trades)), c # <<>>, NEW d, Line(q, <<>>, c, d)
    PROVE  Line(q, Head(c), Tail(c), d)
<1>1. /\ InBatches(c) = ToSet(Head(c)) \cup InBatches(Tail(c))
      /\ Ascending(Head(c))
      /\ InLine(Tail(c))
      /\ Older(ToSet(Head(c)), InBatches(Tail(c)))
  BY LineTail DEF Line
<1>2. \A S : Older(S, InBatches(c)) => Older(S, ToSet(Head(c))) /\ Older(S, InBatches(Tail(c)))
  BY <1>1 DEF Older
<1> QED
  BY <1>1, <1>2 DEF Line

\* The batch of executeTrade, or the rest of it, joins the queue.
LEMMA LineQueued ==
    ASSUME NEW q \in Seq(Seq(Trades)), NEW m, NEW c, Line(q, m, c, <<>>),
           NEW u \in Seq(Trades), Ascending(u), ToSet(u) \subseteq ToSet(m)
    PROVE  Line(Append(q, u), <<>>, c, <<>>) /\ Line(q, <<>>, c, <<>>)
<1>1. Older(InBatches(q), ToSet(u)) /\ Older(ToSet(u), InBatches(c))
  BY DEF Line, Older
<1>2. InBatches(Append(q, u)) = InBatches(q) \cup ToSet(u) /\ InLine(Append(q, u))
  BY <1>1, LineAppend DEF Line
<1>3. Older(InBatches(Append(q, u)), InBatches(c))
  BY <1>1, <1>2 DEF Line, Older
<1>4. \A S : Older(S, ToSet(<<>>)) /\ Older(ToSet(<<>>), S)
  BY EmptyLine DEF Older
<1> QED
  BY <1>2, <1>3, <1>4, EmptyLine DEF Line

\* The head of the queue was sent, or a part of it.
LEMMA LineSent ==
    ASSUME NEW q \in Seq(Seq(Trades)), q # <<>>, NEW m, NEW c, NEW d, Line(q, m, c, d)
    PROVE  /\ Line(Tail(q), m, c, d)
           /\ \A u \in Seq(Trades) :
                 Ascending(u) /\ ToSet(u) \subseteq ToSet(Head(q))
                    => Line([q EXCEPT ![1] = u], m, c, d)
<1>1. /\ InBatches(q) = ToSet(Head(q)) \cup InBatches(Tail(q))
      /\ InLine(Tail(q))
      /\ Older(ToSet(Head(q)), InBatches(Tail(q)))
  BY LineTail DEF Line
<1>2. \A S, T : T \subseteq InBatches(q) /\ Older(InBatches(q), S) => Older(T, S)
  BY DEF Older
<1>3. Line(Tail(q), m, c, d)
  <2>1. InBatches(Tail(q)) \subseteq InBatches(q)
    BY <1>1
  <2> QED
    BY <1>1, <1>2, <2>1 DEF Line
<1>4. ASSUME NEW u \in Seq(Trades), Ascending(u), ToSet(u) \subseteq ToSet(Head(q))
      PROVE  Line([q EXCEPT ![1] = u], m, c, d)
  <2>1. PICK r : r = [q EXCEPT ![1] = u]
    OBVIOUS
  <2>2. Older(ToSet(u), InBatches(Tail(q)))
    BY <1>1, <1>4 DEF Older
  <2>3. InBatches(r) = ToSet(u) \cup InBatches(Tail(q)) /\ InLine(r)
    BY <1>4, <2>1, <2>2, LineReplaced DEF Line
  <2>4. InBatches(r) \subseteq InBatches(q)
    BY <1>1, <1>4, <2>3
  <2>5. Line(r, m, c, d)
    BY <1>2, <2>3, <2>4 DEF Line
  <2> QED
    BY <2>1, <2>5
<1> QED
  BY <1>3, <1>4

\* initQueue puts a trade into the queue, or has found it on the DAG.
LEMMA LineLoaded ==
    ASSUME NEW q \in Seq(Seq(Trades)), NEW d \in Seq(Trades), d # <<>>,
           Line(q, <<>>, <<>>, d)
    PROVE  /\ Line(Append(q, <<Head(d)>>), <<>>, <<>>, Tail(d))
           /\ Line(q, <<>>, <<>>, Tail(d))
<1>1. /\ Head(d) \in Trades
      /\ ToSet(d) = {Head(d)} \cup ToSet(Tail(d))
      /\ Ascending(Tail(d))
      /\ Older({Head(d)}, ToSet(Tail(d)))
  BY TailFacts, AscendingTail DEF Line
<1>2. <<Head(d)>> \in Seq(Trades) /\ ToSet(<<Head(d)>>) = {Head(d)} /\ Ascending(<<Head(d)>>)
  BY <1>1 DEF ToSet, Ascending
<1>3. Older(InBatches(q), {Head(d)}) /\ Older(InBatches(q), ToSet(Tail(d)))
  BY <1>1 DEF Line, Older
<1>4. /\ InBatches(Append(q, <<Head(d)>>)) = InBatches(q) \cup {Head(d)}
      /\ InLine(Append(q, <<Head(d)>>))
  BY <1>2, <1>3, LineAppend DEF Line
<1>5. Older(InBatches(Append(q, <<Head(d)>>)), ToSet(Tail(d)))
  BY <1>1, <1>3, <1>4 DEF Older
<1>6. \A S : /\ Older(S, ToSet(<<>>)) /\ Older(ToSet(<<>>), S)
             /\ Older(S, InBatches(<<>>))
  BY EmptyLine DEF Older
<1> QED
  BY <1>1, <1>3, <1>4, <1>5, <1>6, EmptyLine DEF Line

LEMMA LineLoading ==
    ASSUME NEW d, Ascending(d)
    PROVE  Line(<<>>, <<>>, <<>>, d)
<1>1. \A S : Older({}, S)
  BY DEF Older
<1> QED
  BY <1>1, EmptyLine DEF Line

-----------------------------------------------------------------------------

\* The steps that move trades along the line
Moves ==
    \/ BackendCreate \/ TakeCall \/ ExecuteBehindQueue \/ ExecuteNothing \/ ExecuteDone
    \/ ResendPart \/ ResendAll \/ InitLoad \/ InitQueue \/ InitAnnounce \/ Crash

LEMMA LineStays ==
    ASSUME IInv, LoadSound, [Next]_vars, ~Moves
    PROVE  /\ UNCHANGED <<queue, calls>>
           /\ init'.todo = init.todo
           /\ job'["execute"].matches = job["execute"].matches
<1>1. /\ job \in [Workers -> JobType] /\ "execute" \in Workers /\ "resend" \in Workers
      /\ init \in InitType
      /\ ~BackendCall
  BY LineTypes DEF IInv, LoadSound, BackendCall
<1>2. UNCHANGED queue
  BY WhoQueues DEF Moves
<1>3. UNCHANGED calls
  BY <1>1, WhoCalls DEF Moves
<1>4. init'.todo = init.todo
  BY <1>1, WhoInitializes DEF Moves, InitAlreadySent, InitDone, InitType
<1>5. job'["execute"].matches = job["execute"].matches
  <2>1. CASE UNCHANGED job
    BY <2>1
  <2>2. CASE StartsRetry \/ ResendNothing
    <3>1. job'["execute"] = job["execute"]
      BY <1>1, <2>2 DEF StartsRetry, NextRetry, BecameStable, WithdrawalToOperator, InitDone,
         Retry, BeginRetry, ResendNothing
    <3> QED
      BY <3>1
  <2>3. CASE ExecuteNow
    BY <1>1, <2>3 DEF ExecuteNow, JobType
  <2>4. ASSUME NEW w \in Workers, SendOne(w)
        PROVE  job'["execute"].matches = job["execute"].matches
    BY <1>1, <2>4 DEF SendOne, JobType
  <2>5. ASSUME NEW w \in Workers, SendFailsLater(w)
        PROVE  job'["execute"].matches = job["execute"].matches
    BY <1>1, <2>5 DEF SendFailsLater, JobType
  <2>6. ASSUME NEW w \in Workers, UpdateOne(w)
        PROVE  job'["execute"].matches = job["execute"].matches
    BY <1>1, <2>6 DEF UpdateOne, JobType
  <2> QED
    BY WhoWorks, <2>1, <2>2, <2>3, <2>4, <2>5, <2>6 DEF Moves
<1> QED
  BY <1>2, <1>3, <1>4, <1>5

\* What is in line was created.
LEMMA LineCreated ==
    ASSUME IInv
    PROVE  /\ InBatches(queue) \subseteq Created
           /\ InBatches(calls) \subseteq Created
           /\ ToSet(job["execute"].matches) \subseteq Created
           /\ ToSet(job["resend"].matches) \subseteq Created
           /\ ToSet(init.todo) \subseteq Created
<1>1. /\ queue \in Seq(Seq(Created))
      /\ calls \in Seq(Seq(Created))
      /\ job["execute"].matches \in Seq(Created)
      /\ job["resend"].matches \in Seq(Created)
      /\ init.todo \in Seq(Created)
  BY DEF IInv, CreatedSound, Workers
<1>2. \A s \in Seq(Created) : ToSet(s) \subseteq Created
  BY DEF ToSet
<1>3. ASSUME NEW q \in Seq(Seq(Created)), NEW i \in 1..Len(q)
      PROVE  q[i] \in Seq(Created)
  BY <1>3, ElementOfSeq
<1>4. ASSUME NEW q \in Seq(Seq(Created))
      PROVE  InBatches(q) \subseteq Created
  BY <1>2, <1>3 DEF InBatches, Among
<1> QED
  BY <1>1, <1>2, <1>4

\* The batch that the backend creates next is younger than all the others.
LEMMA NewerBatch ==
    ASSUME IInv, BackendCreate, NEW b, b = Batches[created + 1]
    PROVE  /\ b \in Seq(Trades)
           /\ Ascending(b)
           /\ Older(Created, ToSet(b))
           /\ Created' = Created \cup ToSet(b)
           /\ Created \subseteq Trades
<1>1. /\ created \in Nat
      /\ created' = created + 1
      /\ created + 1 \in 1..Len(Batches)
      /\ \A i \in 1..created : i \in 1..Len(Batches) /\ i # created + 1
  BY NextBatch DEF IInv
<1>2. b \in Seq(Trades) /\ Ascending(b)
  BY <1>1, BatchType, BatchesAssumption
<1>3. \A i \in 1..created : Older(ToSet(Batches[i]), ToSet(b))
  <2> TAKE i \in 1..created
  <2>1. i \in 1..Len(Batches) /\ i < created + 1
    BY <1>1
  <2> QED
    BY <1>1, <2>1, BatchesAssumption
<1>4. Older(Created, ToSet(b))
  BY <1>3 DEF Older, Created
<1>5. \A i : i \in 1..(created + 1) <=> i \in 1..created \/ i = created + 1
  BY <1>1
<1>6. Created' = Created \cup ToSet(b)
  BY <1>1, <1>5 DEF Created
<1>7. Created \subseteq Trades
  BY <1>1 DEF Created, Trades
<1> QED
  BY <1>2, <1>4, <1>6, <1>7

LEMMA SortedAscending ==
    ASSUME NEW S \in SUBSET Trades, NEW s \in Sorted(S)
    PROVE  s \in Seq(Trades) /\ ToSet(s) = S /\ Ascending(s)
<1>1. s \in Seq(Trades) /\ ToSet(s) = S
  BY SortedType
<1>2. DOMAIN s = 1..Len(s)
  BY <1>1, LenProperties
<1>3. \A i, j \in DOMAIN s : i < j => s[i] < s[j]
  BY DEF Sorted
<1> QED
  BY <1>1, <1>2, <1>3 DEF Ascending

\* The batch of a worker is in order, and so are the parts of it.
LEMMA WorkerParts ==
    ASSUME IInv, LineSound, NEW w \in Workers
    PROVE  /\ Ascending(job[w].matches)
           /\ Unsent(job[w]) \in Seq(Trades)
           /\ ToSet(job[w].matches) = SentOf(job[w]) \cup ToSet(Unsent(job[w]))
           /\ Ascending(Unsent(job[w]))
           /\ Older(SentOf(job[w]), ToSet(Unsent(job[w])))
           /\ Successful(job[w]) \in Seq(Trades)
           /\ Ascending(Successful(job[w]))
           /\ ToSet(Successful(job[w])) = SentOf(job[w])
           /\ SentOf(job[w]) \cap ToSet(Unsent(job[w])) = {}
<1>1. /\ TypeOK /\ JobsSound /\ ResendSound
      /\ queue \in Seq(Seq(Trades))
      /\ job[w].matches \in Seq(Trades)
      /\ Len(job[w].sent) \in Nat
      /\ Len(job[w].sent) <= Len(job[w].matches)
  BY LineTypes, JobType1 DEF IInv, JobsSound, JobSound
<1>2. Ascending(job[w].matches)
  <2>1. CASE w = "execute"
    BY <2>1 DEF LineSound, Line
  <2>2. CASE w = "resend" /\ job["resend"].pc = "idle"
    <3>1. job["resend"] = Idle
      BY <1>1, <2>2 DEF JobsSound, JobSound, Idle
    <3>2. job[w].matches = <<>>
      BY <2>2, <3>1 DEF Idle
    <3> QED
      BY <3>2, EmptyLine
  <2>3. CASE w = "resend" /\ job["resend"].pc # "idle"
    <3>1. queue # <<>> /\ Head(queue) = job[w].matches
      BY <1>1, <2>3 DEF ResendSound
    <3>2. Ascending(Head(queue))
      BY <1>1, <3>1, LineTail DEF LineSound, Line
    <3> QED
      BY <3>1, <3>2
  <2> QED
    BY <2>1, <2>2, <2>3 DEF Workers
<1>3. Unsent(job[w]) \in Seq(Trades) /\ Successful(job[w]) \in Seq(Trades)
  BY <1>1, PartsFacts
<1>4. PICK j : j = job[w]
  OBVIOUS
<1>5. /\ j.matches \in Seq(Trades)
      /\ Len(j.sent) \in Nat
      /\ Len(j.sent) <= Len(j.matches)
      /\ Ascending(j.matches)
  BY <1>1, <1>2, <1>4
<1>6. /\ ToSet(j.matches) = SentOf(j) \cup ToSet(Unsent(j))
      /\ Ascending(Unsent(j))
      /\ Older(SentOf(j), ToSet(Unsent(j)))
      /\ Ascending(Successful(j))
      /\ ToSet(Successful(j)) = SentOf(j)
      /\ SentOf(j) \cap ToSet(Unsent(j)) = {}
  BY <1>5, AscendingParts
<1> QED
  BY <1>2, <1>3, <1>4, <1>6

LEMMA LineStep ==
    ASSUME IInv, LoadSound, LineSound, Patient, [Next]_vars
    PROVE  LineSound'
<1> DEFINE m == job["execute"].matches
<1>1. /\ TypeOK /\ JobsSound /\ ResendSound /\ InitSound
      /\ queue \in Seq(Seq(Trades))
      /\ calls \in Seq(Seq(Trades))
      /\ init \in InitType
      /\ init.todo \in Seq(Trades)
      /\ job \in [Workers -> JobType] /\ "execute" \in Workers /\ "resend" \in Workers
      /\ m \in Seq(Trades)
  BY LineTypes DEF IInv
<1>2. Line(queue, m, calls, init.todo)
  BY DEF LineSound
<1>3. Initialized => init.todo = <<>>
  BY <1>1 DEF Initialized, InitSound
<1>4. Idle.matches = <<>>
  BY DEF Idle
<1>5. init.pc # "done" => m = <<>> /\ calls = <<>>
  BY <1>4 DEF LoadSound
<1> HIDE DEF m
<1>6. CASE ~Moves
  <2>1. /\ UNCHANGED <<queue, calls>>
        /\ init'.todo = init.todo
        /\ job'["execute"].matches = m
    BY <1>6, LineStays DEF m
  <2> QED
    BY <1>2, <2>1 DEF LineSound
<1>7. CASE BackendCreate
  <2>1. PICK b : b = Batches[created + 1]
    OBVIOUS
  <2>2. /\ Initialized
        /\ calls' = Append(calls, b)
        /\ UNCHANGED <<queue, init, job>>
    BY <1>7, <2>1 DEF BackendCreate
  <2>3. /\ b \in Seq(Trades)
        /\ Ascending(b)
        /\ Older(InBatches(queue), ToSet(b))
        /\ Older(ToSet(m), ToSet(b))
        /\ Older(InBatches(calls), ToSet(b))
    BY <1>7, <2>1, NewerBatch, LineCreated DEF Older, m
  <2>4. Line(queue, m, Append(calls, b), <<>>)
    BY <1>1, <1>2, <1>3, <2>2, <2>3, LineCalled
  <2> QED
    BY <1>3, <2>2, <2>4 DEF LineSound, m
<1>8. CASE TakeCall
  <2>1. /\ calls # <<>>
        /\ calls' = Tail(calls)
        /\ UNCHANGED <<queue, init>>
        /\ job["execute"].pc = "idle"
        /\ job' = [job EXCEPT !["execute"] = [Idle EXCEPT !.pc = "wait", !.matches = Head(calls)]]
    BY <1>8 DEF TakeCall
  <2>2. m = <<>>
    BY <1>1, <1>4, <2>1 DEF JobsSound, JobSound, m
  <2>3. job'["execute"].matches = Head(calls)
    BY <1>1, <2>1 DEF Idle
  <2>4. Line(queue, Head(calls), Tail(calls), init.todo)
    BY <1>1, <1>2, <2>1, <2>2, LineTaken
  <2> QED
    BY <2>1, <2>3, <2>4 DEF LineSound
<1>9. CASE ExecuteBehindQueue \/ ExecuteNothing \/ ExecuteDone
  <2>1. /\ UNCHANGED <<init, calls>>
        /\ job' = [job EXCEPT !["execute"] = Idle]
        /\ job["execute"].pc # "idle"
    BY <1>9 DEF ExecuteBehindQueue, ExecuteNothing, ExecuteDone, SendFails, Updated
  <2>2. PICK u : /\ u = m \/ u = Unsent(job["execute"])
                 /\ queue' = Append(queue, u) \/ queue' = queue
    BY <1>9 DEF ExecuteBehindQueue, ExecuteNothing, ExecuteDone, m
  <2>3. u \in Seq(Trades) /\ Ascending(u) /\ ToSet(u) \subseteq ToSet(m)
    BY <1>1, <2>2, WorkerParts DEF m
  <2>4. init.todo = <<>>
    <3>1. init.pc = "done"
      BY <2>1 DEF LoadSound, Idle
    <3> QED
      BY <1>1, <3>1 DEF InitSound
  <2>5. Line(Append(queue, u), <<>>, calls, <<>>) /\ Line(queue, <<>>, calls, <<>>)
    BY <1>1, <1>2, <2>3, <2>4, LineQueued
  <2>6. job'["execute"].matches = <<>>
    BY <1>1, <1>4, <2>1
  <2> QED
    BY <2>1, <2>2, <2>4, <2>5, <2>6 DEF LineSound
<1>10. CASE ResendPart \/ ResendAll
  <2>1. /\ UNCHANGED <<init, calls>>
        /\ job'["execute"] = job["execute"]
        /\ queue # <<>>
        /\ Head(queue) = job["resend"].matches
    BY <1>1, <1>10 DEF ResendPart, ResendAll, Updated, ResendSound
  <2>2. PICK u : u = Unsent(job["resend"])
    OBVIOUS
  <2>3. u \in Seq(Trades) /\ Ascending(u) /\ ToSet(u) \subseteq ToSet(Head(queue))
    BY <1>1, <2>1, <2>2, WorkerParts
  <2>4. queue' = [queue EXCEPT ![1] = u] \/ queue' = Tail(queue)
    BY <1>10, <2>2 DEF ResendPart, ResendAll
  <2>5. Line([queue EXCEPT ![1] = u], m, calls, init.todo) /\ Line(Tail(queue), m, calls, init.todo)
    BY <1>1, <1>2, <2>1, <2>3, LineSent
  <2> QED
    BY <2>1, <2>4, <2>5 DEF LineSound, m
<1>11. CASE InitLoad
  <2> DEFINE S == {t \in Trades : status[t] = "PENDING"}
  <2>1. PICK todo \in Sorted(S) : init' = [pc |-> "check", todo |-> todo]
    BY <1>11 DEF InitLoad
  <2>2. /\ queue = <<>> /\ calls = <<>> /\ m = <<>>
        /\ UNCHANGED <<queue, calls, job>>
    BY <1>5, <1>11 DEF InitLoad, LoadSound
  <2>3. Ascending(todo)
    BY SortedAscending
  <2>4. init'.todo = todo
    BY <2>1
  <2> QED
    BY <2>2, <2>3, <2>4, LineLoading DEF LineSound, m
<1>12. CASE InitQueue \/ InitAnnounce
  <2>1. /\ init.todo # <<>>
        /\ init'.todo = Tail(init.todo)
        /\ UNCHANGED <<calls, job>>
        /\ m = <<>> /\ calls = <<>>
    <3>1. CASE InitQueue
      BY <1>1, <1>5, <3>1 DEF InitQueue, InitType
    <3>2. CASE InitAnnounce
      BY <1>1, <1>5, <3>2 DEF InitAnnounce, InitSound
    <3> QED
      BY <1>12, <3>1, <3>2
  <2>2. queue' = Append(queue, <<Head(init.todo)>>) \/ UNCHANGED queue
    BY <1>12 DEF InitQueue, InitAnnounce
  <2>3. /\ Line(Append(queue, <<Head(init.todo)>>), <<>>, <<>>, Tail(init.todo))
        /\ Line(queue, <<>>, <<>>, Tail(init.todo))
    BY <1>1, <1>2, <2>1, LineLoaded
  <2> QED
    BY <2>1, <2>2, <2>3 DEF LineSound, m
<1>13. CASE Crash
  <2>1. /\ queue' = <<>> /\ calls' = <<>> /\ init'.todo = <<>>
        /\ job'["execute"].matches = <<>>
    BY <1>1, <1>4, <1>13 DEF Crash, Down
  <2> QED
    BY <2>1, EmptyLine, LineLoading DEF LineSound
<1> QED
  BY <1>6, <1>7, <1>8, <1>9, <1>10, <1>11, <1>12, <1>13 DEF Moves

\* What a worker has sent is on the DAG; an idle worker has sent nothing.
LEMMA SentOnDag ==
    ASSUME IInv, NEW w \in Workers
    PROVE  /\ SentOf(job[w]) \subseteq ToSet(units)
           /\ job[w].pc \in {"idle", "wait"} => SentOf(job[w]) = {}
           /\ job[w].sent = <<>> => SentOf(job[w]) = {}
           /\ job[w].pc = "idle" => job[w].matches = <<>> /\ ToSet(job[w].matches) = {}
<1>1. JobSound(job[w], units, status) /\ units \in Seq(Trades)
  BY DEF IInv, JobsSound, TypeOK
<1>2. \A k \in 1..Len(job[w].sent) : job[w].matches[k] \in ToSet(units)
  <2>1. DOMAIN units = 1..Len(units)
    BY <1>1, LenProperties
  <2> QED
    BY <1>1, <2>1 DEF JobSound, ToSet
<1>3. SentOf(job[w]) \subseteq ToSet(units)
  BY <1>2 DEF SentOf
<1>4. job[w].sent = <<>> => SentOf(job[w]) = {}
  <2>1. Len(<<>>) = 0 /\ 1..0 = {}
    BY EmptySeq
  <2> QED
    BY <2>1 DEF SentOf
<1>5. job[w].pc = "idle" => job[w].matches = <<>> /\ job[w].sent = <<>>
  BY <1>1 DEF JobSound, Idle
<1>6. job[w].pc = "wait" => job[w].sent = <<>>
  BY <1>1 DEF JobSound
<1> QED
  BY <1>3, <1>4, <1>5, <1>6, EmptyLine

\* A created trade that is not on the DAG is in line.
LEMMA UnsentInLine ==
    ASSUME IInv, OrderInv, init.pc = "done", NEW x \in Created, x \notin ToSet(units)
    PROVE  \/ x \in InBatches(queue)
           \/ x \in InBatches(calls)
           \/ x \in ToSet(job["execute"].matches)
<1>1. /\ TypeOK /\ ResendSound /\ SuccessIsOnDag /\ NoneForgotten
      /\ queue \in Seq(Seq(Trades))
      /\ calls \in Seq(Seq(Trades))
      /\ units \in Seq(Trades)
      /\ "resend" \in Workers
      /\ toCall = <<>>
      /\ init.todo = <<>>
  BY LineTypes DEF IInv, OrderInv, LoadSound, InitSound
<1>2. x \in Trades
  <2>1. created \in 0..Len(Batches) /\ Len(Batches) \in Nat
    BY <1>1, BatchesAssumption DEF TypeOK
  <2>2. \A i \in 1..created : i \in 1..Len(Batches)
    BY <2>1
  <2> QED
    BY <2>2 DEF Created, Trades
<1>3. status[x] = "PENDING"
  <2>1. status[x] \in {"NONE", "PENDING", "SUCCESS"}
    BY <1>1, <1>2 DEF TypeOK
  <2>2. status[x] # "NONE"
    BY DEF OrderInv, RecordedSound
  <2>3. status[x] # "SUCCESS"
    BY <1>1, <1>2 DEF SuccessIsOnDag, ToSet
  <2> QED
    BY <2>1, <2>2, <2>3
<1>4. Tracked(x)
  <2>1. Tracked(x) \/ x \in ToSet(init.todo)
    BY <1>1, <1>2, <1>3 DEF NoneForgotten
  <2> QED
    BY <1>1, <2>1, EmptyLine
<1>5. /\ DOMAIN queue = 1..Len(queue)
      /\ DOMAIN calls = 1..Len(calls)
      /\ DOMAIN toCall = {}
  BY <1>1, LenProperties
<1>6. \/ x \in InBatches(queue)
      \/ x \in InBatches(calls)
      \/ x \in ToSet(job["execute"].matches)
      \/ x \in ToSet(job["resend"].matches)
  BY <1>2, <1>4, <1>5 DEF Tracked, InBatches, Among, Workers
<1>7. ASSUME x \in ToSet(job["resend"].matches)
      PROVE  x \in InBatches(queue)
  <2>1. job["resend"].pc # "idle"
    BY <1>1, <1>7, SentOnDag
  <2>2. queue # <<>> /\ Head(queue) = job["resend"].matches
    BY <1>1, <2>1 DEF ResendSound
  <2> QED
    BY <1>1, <1>7, <2>2, LineTail
<1> QED
  BY <1>6, <1>7

\* The next trade of a batch is the first one of those that were not sent.
LEMMA NextUnsent ==
    ASSUME IInv, LineSound, NEW w \in Workers, Len(job[w].sent) < Len(job[w].matches),
           NEW t, t = job[w].matches[Len(job[w].sent) + 1]
    PROVE  /\ t \in ToSet(Unsent(job[w]))
           /\ t \in Trades
           /\ \A x \in ToSet(Unsent(job[w])) : x = t \/ t < x
<1>1. PICK j : j = job[w]
  OBVIOUS
<1>2. PICK s \in Seq(Trades), n \in Nat : s = j.matches /\ n = Len(j.sent)
  BY <1>1, JobType1 DEF IInv
<1>3. /\ Len(s) \in Nat /\ n < Len(s)
      /\ DOMAIN s = 1..Len(s)
      /\ \A i, k \in 1..Len(s) : i < k => s[i] < s[k]
      /\ t = s[n + 1]
  BY <1>1, <1>2, WorkerParts, LenProperties DEF Ascending
<1>4. n + 1 \in 1..Len(s)
  BY <1>3
<1>5. /\ ToSet(s) = SentOf(j) \cup ToSet(Unsent(j))
      /\ SentOf(j) \cap ToSet(Unsent(j)) = {}
  BY <1>1, <1>2, WorkerParts
<1>6. SentOf(j) = {s[k] : k \in 1..n}
  BY <1>2 DEF SentOf
<1>7. t \in ToSet(Unsent(j))
  <2>1. t \in ToSet(s)
    BY <1>3, <1>4 DEF ToSet
  <2>2. \A k \in 1..n : s[k] < t /\ s[k] \in Nat
    <3> TAKE k \in 1..n
    <3>1. k \in 1..Len(s) /\ k < n + 1
      BY <1>3
    <3>2. s[k] \in Trades
      BY <3>1
    <3> QED
      BY <1>3, <1>4, <3>1, <3>2, TradeNumbers
  <2>3. t \notin SentOf(j)
    BY <1>6, <2>2
  <2> QED
    BY <1>5, <2>1, <2>3
<1>8. ASSUME NEW x \in ToSet(Unsent(j))
      PROVE  x = t \/ t < x
  <2>1. x \in ToSet(s) /\ x \notin SentOf(j)
    BY <1>5
  <2>2. PICK k \in 1..Len(s) : x = s[k]
    BY <1>3, <2>1 DEF ToSet
  <2>3. k \notin 1..n
    BY <1>6, <2>1, <2>2
  <2>4. k = n + 1 \/ n + 1 < k
    BY <1>3, <2>3
  <2> QED
    BY <1>3, <1>4, <2>2, <2>4
<1>9. t \in Trades
  BY <1>3, <1>4
<1> QED
  BY <1>1, <1>7, <1>8, <1>9

\* A worker adds the trade that it sends to those that it has sent.
LEMMA SendAdds ==
    ASSUME IInv, NEW w \in Workers, SendOne(w),
           NEW t, t = job[w].matches[Len(job[w].sent) + 1]
    PROVE  /\ SentOf(job'[w]) = SentOf(job[w]) \cup {t}
           /\ \A v \in Workers \ {w} : job'[v] = job[v]
<1>1. TypeOK /\ job \in [Workers -> JobType] /\ job[w] \in JobType
  BY LineTypes, JobType1 DEF IInv
<1> DEFINE j == job[w]
           sent == Append(j.sent, Len(units) + 1)
<1>2. /\ job'[w].sent = sent
      /\ job'[w].matches = j.matches
      /\ \A v \in Workers \ {w} : job'[v] = job[v]
  BY <1>1 DEF SendOne, JobType
<1>3. j.sent \in Seq(Nat) /\ Len(units) + 1 \in Nat
  BY <1>1, UnitsTypeStep DEF JobType, TypeOK
<1>4. Len(sent) = Len(j.sent) + 1 /\ Len(j.sent) \in Nat
  BY <1>3, AppendFacts
<1> HIDE DEF sent
<1>5. \A k : k \in 1..(Len(j.sent) + 1) <=> k \in 1..Len(j.sent) \/ k = Len(j.sent) + 1
  BY <1>4
<1> QED
  BY <1>2, <1>4, <1>5 DEF SentOf

\* What SendOne posts is the oldest of the trades that are not on the DAG.
LEMMA SendsOldest ==
    ASSUME IInv, OrderInv, NEW w \in Workers, SendOne(w)
    PROVE  \E t \in Created :
              /\ t \in Trades
              /\ t \notin ToSet(units)
              /\ units' = Append(units, t)
              /\ \A x \in Created \ ToSet(units) : x = t \/ t < x
              /\ SentOf(job'[w]) = SentOf(job[w]) \cup {t}
              /\ \A v \in Workers \ {w} : job'[v] = job[v]
              /\ w = "resend" => t \in InBatches(queue)
              /\ w = "execute" => queue = <<>> /\ t \in ToSet(job["execute"].matches)
<1>1. /\ TypeOK /\ JobsSound /\ ResendSound /\ InitSound /\ LineSound /\ LoadSound
      /\ queue \in Seq(Seq(Trades))
      /\ job \in [Workers -> JobType] /\ "execute" \in Workers /\ "resend" \in Workers
      /\ job[w] \in JobType
      /\ job[w].pc = "send"
  BY LineTypes, JobType1 DEF IInv, OrderInv, SendOne
<1>2. PICK t : t = job[w].matches[Len(job[w].sent) + 1]
  OBVIOUS
<1>3. units' = Append(units, t) /\ Len(job[w].sent) < Len(job[w].matches)
  BY <1>1, <1>2 DEF SendOne, JobsSound, JobSound
<1>4. /\ t \in ToSet(Unsent(job[w]))
      /\ t \in Trades
      /\ \A x \in ToSet(Unsent(job[w])) : x = t \/ t < x
  BY <1>1, <1>2, <1>3, NextUnsent
<1>5. /\ ToSet(job[w].matches) = SentOf(job[w]) \cup ToSet(Unsent(job[w]))
      /\ SentOf(job[w]) \cap ToSet(Unsent(job[w])) = {}
      /\ SentOf(job[w]) \subseteq ToSet(units)
  BY <1>1, WorkerParts, SentOnDag
<1>6. t \in ToSet(job[w].matches) /\ t \notin SentOf(job[w])
  BY <1>4, <1>5
<1>7. t \in Created
  BY <1>6, LineCreated DEF Workers
<1>8. w = "resend" => queue # <<>> /\ Head(queue) = job["resend"].matches /\ init.pc = "done"
  BY <1>1 DEF ResendSound, InitSound
<1>9. w = "execute" => queue = <<>> /\ init.pc = "done"
  BY <1>1 DEF LoadSound, Idle
<1>10. w = "resend" => /\ InBatches(queue) = ToSet(job["resend"].matches) \cup InBatches(Tail(queue))
                       /\ Older(ToSet(job["resend"].matches), InBatches(Tail(queue)))
  BY <1>1, <1>8, LineTail DEF LineSound, Line
<1>11. t \notin ToSet(units)
  <2>1. CASE w = "resend"
    BY <1>6, <1>10, <2>1 DEF OrderInv, UnsentSound
  <2>2. CASE w = "execute"
    BY <1>6, <2>2 DEF OrderInv, UnsentSound
  <2> QED
    BY <2>1, <2>2 DEF Workers
<1>12. ASSUME NEW x \in Created \ ToSet(units)
       PROVE  x = t \/ t < x
  <2>1. \/ x \in InBatches(queue)
        \/ x \in InBatches(calls)
        \/ x \in ToSet(job["execute"].matches)
    BY <1>8, <1>9, UnsentInLine DEF Workers
  <2>2. CASE x \in ToSet(job[w].matches)
    BY <1>4, <1>5, <2>2
  <2>3. CASE w = "resend" /\ x \notin ToSet(job[w].matches)
    BY <1>1, <1>6, <1>10, <2>1, <2>3 DEF LineSound, Line, Older
  <2>4. CASE w = "execute" /\ x \notin ToSet(job[w].matches)
    BY <1>1, <1>6, <1>9, <2>1, <2>4, EmptyLine DEF LineSound, Line, Older
  <2> QED
    BY <2>2, <2>3, <2>4 DEF Workers
<1>13. SentOf(job'[w]) = SentOf(job[w]) \cup {t} /\ \A v \in Workers \ {w} : job'[v] = job[v]
  BY <1>2, SendAdds
<1>14. w = "resend" => t \in InBatches(queue)
  BY <1>6, <1>10
<1> QED
  BY <1>3, <1>4, <1>6, <1>7, <1>9, <1>11, <1>12, <1>13, <1>14

LEMMA CreatedStays ==
    ASSUME [Next]_vars, ~BackendCreate
    PROVE  Created' = Created
<1>1. UNCHANGED created
  BY WhoCalls DEF BackendCall, TakeCall, Crash, Down, backend
<1> QED
  BY <1>1 DEF Created

LEMMA UnitsStep ==
    ASSUME IInv, OrderInv, [Next]_vars
    PROVE  UnitsSound'
<1>1. /\ units \in Seq(Trades)
      /\ ToSet(units) \subseteq Created
      /\ Ascending(units)
      /\ Older(ToSet(units), Created \ ToSet(units))
  BY LineTypes DEF IInv, OrderInv, UnitsSound
<1>2. CASE BackendCreate
  <2>1. PICK b : b = Batches[created + 1]
    OBVIOUS
  <2>2. Older(Created, ToSet(b)) /\ Created' = Created \cup ToSet(b)
    BY <1>2, <2>1, NewerBatch
  <2>3. UNCHANGED units
    BY <1>2 DEF BackendCreate
  <2>4. Older(ToSet(units), (Created \cup ToSet(b)) \ ToSet(units))
    BY <1>1, <2>2 DEF Older
  <2> QED
    BY <1>1, <2>2, <2>3, <2>4 DEF UnitsSound
<1>3. ASSUME NEW w \in Workers, SendOne(w)
      PROVE  UnitsSound'
  <2>1. PICK t \in Created :
           /\ t \in Trades
           /\ t \notin ToSet(units)
           /\ units' = Append(units, t)
           /\ \A x \in Created \ ToSet(units) : x = t \/ t < x
    BY <1>3, SendsOldest
  <2>2. Created' = Created
    BY <1>3 DEF SendOne, backend, Created
  <2>3. Older(ToSet(units), {t})
    BY <1>1, <2>1 DEF Older
  <2>4. PICK us : us = Append(units, t)
    OBVIOUS
  <2>5. Ascending(us) /\ ToSet(us) = ToSet(units) \cup {t}
    BY <1>1, <2>1, <2>3, <2>4, AscendingAppend, AppendFacts
  <2>6. Older(ToSet(us), Created \ ToSet(us))
    BY <1>1, <2>1, <2>5 DEF Older
  <2>7. ToSet(us) \subseteq Created
    BY <1>1, <2>1, <2>5
  <2> QED
    BY <2>1, <2>2, <2>4, <2>5, <2>6, <2>7 DEF UnitsSound
<1>4. CASE UNCHANGED units /\ ~BackendCreate
  BY <1>1, <1>4, CreatedStays DEF UnitsSound
<1> QED
  BY WhoPosts, <1>2, <1>3, <1>4

\* What a worker has sent is forgotten only when its batch leaves the line.
LEMMA SentStays ==
    ASSUME IInv, [Next]_vars, ~Moves, \A w \in Workers : ~SendOne(w)
    PROVE  /\ SentOf(job["execute"]) \subseteq SentOf(job'["execute"])
           /\ SentOf(job["resend"]) \subseteq SentOf(job'["resend"])
<1>1. /\ job \in [Workers -> JobType] /\ "execute" \in Workers /\ "resend" \in Workers
      /\ TypeOK /\ ResendSound /\ InitSound
  BY LineTypes DEF IInv
<1>2. ASSUME job["resend"].pc = "idle" \/ job["resend"].sent = <<>>, job'["execute"] = job["execute"]
      PROVE  /\ SentOf(job["execute"]) \subseteq SentOf(job'["execute"])
             /\ SentOf(job["resend"]) \subseteq SentOf(job'["resend"])
  BY <1>1, <1>2, SentOnDag
<1>3. CASE UNCHANGED job
  BY <1>3
<1>4. CASE StartsRetry
  <2>1. \/ UNCHANGED job
        \/ ~retryLock /\ job' = [job EXCEPT !["resend"] = Sending(Head(queue))]
    BY <1>1, <1>4 DEF StartsRetry, NextRetry, BecameStable, WithdrawalToOperator, InitDone,
       Retry, BeginRetry, InitSound
  <2>2. ~retryLock => job["resend"].pc = "idle"
    BY <1>1 DEF ResendSound
  <2>3. job' = [job EXCEPT !["resend"] = Sending(Head(queue))] => job'["execute"] = job["execute"]
    BY <1>1
  <2> QED
    BY <1>2, <1>3, <2>1, <2>2, <2>3
<1>5. CASE ResendNothing
  <2>1. job["resend"].sent = <<>> /\ job'["execute"] = job["execute"]
    BY <1>1, <1>5 DEF ResendNothing
  <2> QED
    BY <1>2, <2>1
<1>6. ASSUME NEW w \in Workers,
             job'[w].sent = job[w].sent, job'[w].matches = job[w].matches,
             \A v \in Workers : v # w => job'[v] = job[v]
      PROVE  \A v \in Workers : SentOf(job[v]) \subseteq SentOf(job'[v])
  BY <1>6 DEF SentOf
<1>7. CASE ExecuteNow
  <2>1. /\ job'["execute"].sent = job["execute"].sent
        /\ job'["execute"].matches = job["execute"].matches
        /\ \A v \in Workers : v # "execute" => job'[v] = job[v]
    BY <1>1, <1>7 DEF ExecuteNow, JobType
  <2> QED
    BY <1>1, <1>6, <2>1
<1>8. ASSUME NEW w \in Workers, SendFailsLater(w)
      PROVE  \A v \in Workers : SentOf(job[v]) \subseteq SentOf(job'[v])
  <2>1. /\ job'[w].sent = job[w].sent
        /\ job'[w].matches = job[w].matches
        /\ \A v \in Workers : v # w => job'[v] = job[v]
    BY <1>1, <1>8 DEF SendFailsLater, JobType
  <2> QED
    BY <1>6, <2>1
<1>9. ASSUME NEW w \in Workers, UpdateOne(w)
      PROVE  \A v \in Workers : SentOf(job[v]) \subseteq SentOf(job'[v])
  <2>1. /\ job'[w].sent = job[w].sent
        /\ job'[w].matches = job[w].matches
        /\ \A v \in Workers : v # w => job'[v] = job[v]
    BY <1>1, <1>9 DEF UpdateOne, JobType
  <2> QED
    BY <1>6, <2>1
<1> QED
  BY WhoWorks, <1>1, <1>3, <1>4, <1>5, <1>7, <1>8, <1>9 DEF Moves

LEMMA UnsentStep ==
    ASSUME IInv, OrderInv, Patient, [Next]_vars
    PROVE  UnsentSound'
<1>1. /\ TypeOK /\ JobsSound /\ ResendSound /\ InitSound /\ LineSound /\ LoadSound
      /\ queue \in Seq(Seq(Trades))
      /\ calls \in Seq(Seq(Trades))
      /\ units \in Seq(Trades)
      /\ init.todo \in Seq(Trades)
      /\ init \in InitType
      /\ job \in [Workers -> JobType] /\ "execute" \in Workers /\ "resend" \in Workers
      /\ job["execute"].matches \in Seq(Trades)
      /\ DOMAIN units = 1..Len(units)
  BY LineTypes, LenProperties DEF IInv, OrderInv
<1>2. \A t \in ToSet(units) : t \in Nat /\ t \in Created
  <2>1. \A t \in ToSet(units) : t \in Trades
    BY <1>1 DEF ToSet
  <2> QED
    BY <2>1, TradeNumbers DEF OrderInv, UnitsSound
<1>3. \A t \in ToSet(units) :
         /\ t \in InBatches(queue) => t \in SentOf(job["resend"])
         /\ t \in ToSet(job["execute"].matches) => t \in SentOf(job["execute"])
         /\ t \notin InBatches(calls)
  BY DEF OrderInv, UnsentSound
<1>4. Idle.matches = <<>> /\ ToSet(<<>>) = {} /\ InBatches(<<>>) = {}
  BY EmptyLine DEF Idle
<1>5. ASSUME NEW w \in Workers, SendOne(w)
      PROVE  UnsentSound'
  <2>1. PICK t \in Created :
           /\ t \in Trades
           /\ t \notin ToSet(units)
           /\ units' = Append(units, t)
           /\ \A x \in Created \ ToSet(units) : x = t \/ t < x
           /\ SentOf(job'[w]) = SentOf(job[w]) \cup {t}
           /\ \A v \in Workers \ {w} : job'[v] = job[v]
           /\ w = "resend" => t \in InBatches(queue)
           /\ w = "execute" => queue = <<>> /\ t \in ToSet(job["execute"].matches)
    BY <1>5, SendsOldest
  <2>2. ToSet(units') = ToSet(units) \cup {t} /\ t \in Nat
    BY <1>1, <2>1, AppendFacts, TradeNumbers
  <2>3. UNCHANGED <<queue, calls>> /\ job'["execute"].matches = job["execute"].matches
    BY <1>1, <1>5 DEF SendOne, JobType
  <2>4. /\ SentOf(job["execute"]) \subseteq SentOf(job'["execute"])
        /\ SentOf(job["resend"]) \subseteq SentOf(job'["resend"])
    BY <1>1, <2>1
  <2>5. t \notin InBatches(calls)
    BY <1>1, <2>1, <2>2 DEF LineSound, Line, Older, Workers
  <2>6. t \in InBatches(queue) => t \in SentOf(job'["resend"])
    BY <1>4, <2>1 DEF Workers
  <2>7. t \in ToSet(job["execute"].matches) => t \in SentOf(job'["execute"])
    <3>1. CASE w = "execute"
      BY <2>1, <3>1
    <3>2. CASE w = "resend"
      <4>1. t \in InBatches(queue)
        BY <2>1, <3>2
      <4>2. Older(InBatches(queue), ToSet(job["execute"].matches))
        BY <1>1 DEF LineSound, Line
      <4>3. t \notin ToSet(job["execute"].matches)
        BY <2>2, <4>1, <4>2 DEF Older
      <4> QED
        BY <4>3
    <3> QED
      BY <3>1, <3>2 DEF Workers
  <2> QED
    BY <1>3, <2>2, <2>3, <2>4, <2>5, <2>6, <2>7 DEF UnsentSound
<1>6. CASE ~Moves /\ \A w \in Workers : ~SendOne(w)
  <2>1. UNCHANGED <<queue, calls>> /\ job'["execute"].matches = job["execute"].matches
    BY <1>1, <1>6, LineStays
  <2>2. UNCHANGED units
    BY <1>6, WhoPosts
  <2>3. /\ SentOf(job["execute"]) \subseteq SentOf(job'["execute"])
        /\ SentOf(job["resend"]) \subseteq SentOf(job'["resend"])
    BY <1>6, SentStays
  <2> QED
    BY <1>3, <2>1, <2>2, <2>3 DEF UnsentSound
<1>7. CASE BackendCreate
  <2>1. PICK b : b = Batches[created + 1]
    OBVIOUS
  <2>2. UNCHANGED <<queue, job, units>> /\ calls' = Append(calls, b)
    BY <1>7, <2>1 DEF BackendCreate
  <2>3. b \in Seq(Trades) /\ Older(Created, ToSet(b))
    BY <1>7, <2>1, NewerBatch
  <2>4. InBatches(calls') = InBatches(calls) \cup ToSet(b)
    BY <1>1, <2>2, <2>3, LineAppend
  <2>5. \A t \in ToSet(units) : t \notin ToSet(b)
    BY <1>2, <2>3 DEF Older
  <2> QED
    BY <1>3, <2>2, <2>4, <2>5 DEF UnsentSound
<1>8. CASE TakeCall
  <2>1. /\ calls # <<>>
        /\ calls' = Tail(calls)
        /\ UNCHANGED <<queue, units>>
        /\ job'["execute"].matches = Head(calls)
        /\ job'["resend"] = job["resend"]
    BY <1>1, <1>8 DEF TakeCall, durable, Idle
  <2>2. InBatches(calls) = ToSet(Head(calls)) \cup InBatches(Tail(calls))
    BY <1>1, <2>1, LineTail
  <2> QED
    BY <1>3, <2>1, <2>2 DEF UnsentSound
<1>9. CASE ExecuteBehindQueue \/ ExecuteNothing \/ ExecuteDone
  <2>1. /\ UNCHANGED <<calls, units>>
        /\ job'["execute"] = Idle
        /\ job'["resend"] = job["resend"]
    BY <1>1, <1>9 DEF ExecuteBehindQueue, ExecuteNothing, ExecuteDone, durable
  <2>2. PICK u : /\ \/ u = job["execute"].matches /\ SentOf(job["execute"]) = {}
                    \/ u = Unsent(job["execute"])
                 /\ queue' = Append(queue, u) \/ queue' = queue
    <3>1. CASE ExecuteBehindQueue
      BY <1>1, <3>1, SentOnDag DEF ExecuteBehindQueue
    <3>2. CASE ExecuteNothing
      BY <1>1, <3>2, SentOnDag DEF ExecuteNothing
    <3>3. CASE ExecuteDone
      BY <3>3 DEF ExecuteDone
    <3> QED
      BY <1>9, <3>1, <3>2, <3>3
  <2>3. /\ u \in Seq(Trades)
        /\ \A t \in ToSet(units) : t \notin ToSet(u)
    BY <1>1, <1>3, <2>2, WorkerParts
  <2>4. InBatches(Append(queue, u)) = InBatches(queue) \cup ToSet(u)
    BY <1>1, <2>3, LineAppend
  <2>5. \A t \in ToSet(units) : t \in InBatches(queue') => t \in InBatches(queue)
    BY <2>2, <2>3, <2>4
  <2> QED
    BY <1>3, <1>4, <2>1, <2>5 DEF UnsentSound
<1>10. CASE ResendPart \/ ResendAll
  <2>1. /\ UNCHANGED <<calls, units>>
        /\ job'["execute"] = job["execute"]
        /\ queue # <<>>
        /\ Head(queue) = job["resend"].matches
    BY <1>1, <1>10 DEF ResendPart, ResendAll, Updated, ResendSound
  <2>2. /\ InBatches(queue) = ToSet(Head(queue)) \cup InBatches(Tail(queue))
        /\ Older(ToSet(Head(queue)), InBatches(Tail(queue)))
    BY <1>1, <2>1, LineTail DEF LineSound, Line
  <2>3. PICK u : u = Unsent(job["resend"])
    OBVIOUS
  <2>4. /\ u \in Seq(Trades)
        /\ ToSet(Head(queue)) = SentOf(job["resend"]) \cup ToSet(u)
        /\ SentOf(job["resend"]) \cap ToSet(u) = {}
    BY <1>1, <2>1, <2>3, WorkerParts
  <2>5. InBatches(queue') \subseteq ToSet(u) \cup InBatches(Tail(queue))
    <3>1. InBatches([queue EXCEPT ![1] = u]) = ToSet(u) \cup InBatches(Tail(queue))
      BY <1>1, <2>1, <2>4, LineReplaced
    <3>2. queue' = [queue EXCEPT ![1] = u] \/ queue' = Tail(queue)
      BY <1>10, <2>3 DEF ResendPart, ResendAll
    <3> QED
      BY <3>1, <3>2
  <2>6. ASSUME NEW t \in ToSet(units), t \in InBatches(queue')
        PROVE  FALSE
    <3>1. t \in ToSet(u) \/ t \in InBatches(Tail(queue))
      BY <2>5, <2>6
    <3>2. t \in SentOf(job["resend"])
      BY <1>3, <2>2, <2>4, <3>1
    <3>3. t < t /\ t \in Nat
      BY <1>2, <2>2, <2>4, <3>1, <3>2 DEF Older
    <3> QED
      BY <3>3
  <2> QED
    BY <1>3, <2>1, <2>6 DEF UnsentSound
<1>11. CASE InitLoad \/ InitAnnounce
  <2>1. UNCHANGED <<queue, calls, job, units>>
    BY <1>11 DEF InitLoad, InitAnnounce, durable
  <2> QED
    BY <1>3, <2>1 DEF UnsentSound
<1>12. CASE InitQueue
  <2>1. /\ UNCHANGED <<calls, job, units>>
        /\ init.todo # <<>>
        /\ UnitsOf(Head(init.todo)) = {}
        /\ queue' = Append(queue, <<Head(init.todo)>>)
    BY <1>12 DEF InitQueue, durable
  <2>2. PICK h : h = Head(init.todo)
    OBVIOUS
  <2>3. <<h>> \in Seq(Trades) /\ ToSet(<<h>>) = {h}
    BY <1>1, <2>1, <2>2, TailFacts DEF ToSet
  <2>4. InBatches(queue') = InBatches(queue) \cup {h}
    BY <1>1, <2>1, <2>2, <2>3, LineAppend
  <2>5. h \notin ToSet(units)
    BY <2>1, <2>2 DEF UnitsOf, ToSet
  <2> QED
    BY <1>3, <2>1, <2>4, <2>5 DEF UnsentSound
<1>13. CASE Crash
  <2>1. queue' = <<>> /\ calls' = <<>> /\ job'["execute"] = Idle
    BY <1>1, <1>13 DEF Crash, Down
  <2> QED
    BY <1>4, <2>1 DEF UnsentSound
<1> QED
  BY <1>5, <1>6, <1>7, <1>8, <1>9, <1>10, <1>11, <1>12, <1>13 DEF Moves

LEMMA RecordedStep ==
    ASSUME IInv, RecordedSound, [Next]_vars
    PROVE  RecordedSound'
<1>1. /\ TypeOK /\ JobsSound
      /\ status \in [Trades -> {"NONE", "PENDING", "SUCCESS"}]
  BY DEF IInv, TypeOK
<1>2. CASE BackendCreate
  <2>1. PICK b : b = Batches[created + 1]
    OBVIOUS
  <2>2. Created' = Created \cup ToSet(b) /\ Created \subseteq Trades /\ b \in Seq(Trades)
    BY <1>2, <2>1, NewerBatch
  <2>4. ToSet(b) \subseteq Trades
    BY <2>2 DEF ToSet
  <2>3. status' = [t \in Trades |-> IF t \in ToSet(b) THEN "PENDING" ELSE status[t]]
    BY <1>2, <2>1 DEF BackendCreate
  <2> QED
    BY <2>2, <2>3, <2>4 DEF RecordedSound
<1>3. ASSUME ~BackendCreate, NEW t, status' = [status EXCEPT ![t] = "SUCCESS"]
      PROVE  RecordedSound'
  <2>1. Created' = Created
    BY <1>3, CreatedStays
  <2>2. \A x \in Created : status'[x] # "NONE"
    <3> TAKE x \in Created
    <3>1. x \in Trades
      <4>1. created \in 0..Len(Batches) /\ Len(Batches) \in Nat
        BY <1>1, BatchesAssumption DEF TypeOK
      <4>2. \A i \in 1..created : i \in 1..Len(Batches)
        BY <4>1
      <4> QED
        BY <4>2 DEF Created, Trades
    <3> QED
      BY <1>1, <1>3, <3>1 DEF RecordedSound
  <2> QED
    BY <2>1, <2>2 DEF RecordedSound
<1>4. CASE UNCHANGED <<status, txHash>> /\ ~BackendCreate
  BY <1>4, CreatedStays DEF RecordedSound
<1>5. CASE InitAlreadySent /\ ~BackendCreate
  BY <1>3, <1>5 DEF InitAlreadySent
<1>6. ASSUME NEW w \in Workers, UpdateOne(w), ~BackendCreate
      PROVE  RecordedSound'
  BY <1>1, <1>3, <1>6, UpdateTarget
<1> QED
  BY WhoSettles, <1>2, <1>4, <1>5, <1>6

LEMMA InitOrder ==
    ASSUME Init
    PROVE  OrderInv
<1>1. /\ units = <<>> /\ queue = <<>> /\ calls = <<>> /\ toCall = <<>>
      /\ init.pc = "load" /\ init.todo = <<>>
      /\ job["execute"] = Idle /\ Idle.pc = "idle" /\ Idle.matches = <<>>
      /\ created = 0
  BY DEF Init, Workers, Idle
<1>2. Created = {}
  <2>1. 1..0 = {}
    OBVIOUS
  <2> QED
    BY <1>1, <2>1 DEF Created
<1>3. LineSound
  BY <1>1, EmptyLine, LineLoading DEF LineSound
<1> QED
  BY <1>1, <1>2, <1>3, EmptyLine DEF OrderInv, LoadSound, UnitsSound, UnsentSound, RecordedSound,
     Older

LEMMA Ordered ==
    Patient => (Spec => []OrderInv)
<1> SUFFICES ASSUME Patient PROVE Spec => []OrderInv
  OBVIOUS
<1>1. Init => OrderInv
  BY InitOrder
<1>2. IInv /\ OrderInv /\ [Next]_vars => OrderInv'
  BY LoadStep, LineStep, UnitsStep, UnsentStep, RecordedStep DEF OrderInv
<1> QED
  BY <1>1, <1>2, Inductive, PTL DEF Spec

-----------------------------------------------------------------------------
(* A process that ends for another reason than a crash of its own *)

LEMMA DownKeeps ==
    ASSUME IInv, Down, UNCHANGED crashes
    PROVE  IInv'
<1>1. /\ TypeOK /\ CreatedSound /\ BatchesSound /\ SuccessIsOnDag
      /\ UNCHANGED <<durable, backend, crashes>>
      /\ up' = FALSE
      /\ init' = [pc |-> "load", todo |-> <<>>]
      /\ queue' = <<>> /\ calls' = <<>>
      /\ job' = [w \in Workers |-> Idle]
      /\ retryLock' = FALSE
      /\ waiting' = 0
  BY DEF IInv, Down
<1>2. TypeOK'
  <2>1. job' \in [Workers -> JobType] /\ <<>> \in Seq(Trades) /\ <<>> \in Seq(Seq(Trades))
    BY <1>1, IdleType, EmptySeq
  <2>2. init' \in InitType
    BY <1>1, <2>1 DEF InitType
  <2>3. waiting' \in 0..MaxWaiting
    BY <1>1, BatchesAssumption
  <2> QED
    BY <1>1, <2>1, <2>2, <2>3 DEF TypeOK, durable, backend, JobType, InitType
<1>3. JobsSound' /\ ResendSound'
  BY <1>1, JobStopped DEF JobsSound, ResendSound, Idle, Workers
<1>4. BatchesSound' /\ InitSound'
  <2>1. \A i \in 1..Len(queue') : queue'[i] # <<>>
    BY <1>1, EmptySeq
  <2>2. \A i \in 1..Len(calls') : calls'[i] # <<>>
    BY <1>1, EmptySeq
  <2> QED
    BY <1>1, <2>1, <2>2 DEF BatchesSound, InitSound, Idle, Workers, backend
<1>5. CreatedSound'
  <2>1. <<>> \in Seq(Created) /\ <<>> \in Seq(Seq(Created))
    BY EmptySeq
  <2>2. Created' = Created
    BY <1>1 DEF Created, backend
  <2> QED
    BY <1>1, <2>1, <2>2 DEF CreatedSound, Idle, durable, backend
<1>6. SuccessIsOnDag' /\ NoneForgotten'
  BY <1>1 DEF SuccessIsOnDag, NoneForgotten, durable
<1> QED
  BY <1>2, <1>3, <1>4, <1>5, <1>6 DEF IInv

LEMMA DownKeepsOrder ==
    ASSUME OrderInv, Down
    PROVE  OrderInv'
<1>1. /\ UNCHANGED <<units, status, toCall, Created>>
      /\ queue' = <<>> /\ calls' = <<>>
      /\ init'.pc = "load" /\ init'.todo = <<>>
      /\ job'["execute"] = Idle /\ Idle.pc = "idle" /\ Idle.matches = <<>>
  BY DEF Down, durable, backend, Created, Workers, Idle
<1>2. LineSound'
  BY <1>1, EmptyLine, LineLoading DEF LineSound
<1>3. InBatches(<<>>) = {} /\ ToSet(<<>>) = {}
  BY EmptyLine
<1>4. UnsentSound'
  <2> SUFFICES ASSUME NEW t \in ToSet(units')
               PROVE  /\ t \notin InBatches(queue')
                      /\ t \notin ToSet(job'["execute"].matches)
                      /\ t \notin InBatches(calls')
    BY DEF UnsentSound
  <2> QED
    BY <1>1, <1>3
<1> QED
  BY <1>1, <1>2, <1>4 DEF OrderInv, LoadSound, UnitsSound, RecordedSound

-----------------------------------------------------------------------------
(* The trades of the first batches, one after the other *)

LEMMA LeastNumber ==
    ASSUME NEW N \in SUBSET Nat, N # {}
    PROVE  \E m \in N : \A n \in N : m <= n
<1>1. \E m \in N : \A n \in N : <<n, m>> \notin OpToRel(<, Nat)
  BY NatLessThanWellFounded, WFMin
<1>2. PICK m \in N : \A n \in N : <<n, m>> \notin OpToRel(<, Nat)
  BY <1>1
<1>3. \A n \in N : ~(n < m)
  BY <1>2 DEF OpToRel
<1>4. \A n \in N : m <= n
  BY <1>3
<1> QED
  BY <1>4

MatchedStep(f, n) == IF n = 0 THEN <<>> ELSE f[n - 1] \o Batches[n]

\* The recursion of Matched has a solution on every initial segment.
LEMMA MatchedUpTo ==
    ASSUME NEW n \in Nat
    PROVE  \E f : f = [k \in 0..n |-> MatchedStep(f, k)]
<1> DEFINE Solves(f, m) == f = [k \in 0..m |-> MatchedStep(f, k)]
           N == {m \in Nat : ~\E f : Solves(f, m)}
<1>1. 0 \notin N
  <2> DEFINE e == [k \in 0..0 |-> <<>>]
  <2>1. \A k \in 0..0 : k = 0
    OBVIOUS
  <2>2. e = [k \in 0..0 |-> MatchedStep(e, k)]
    BY <2>1 DEF MatchedStep
  <2> QED
    BY <2>2
<1>3. N \in SUBSET Nat
  OBVIOUS
<1>2. ASSUME NEW m \in N, \A l \in N : m <= l
      PROVE  FALSE
  <2>1. m \in Nat /\ m - 1 \in Nat /\ m - 1 \notin N
    <3> HIDE DEF N
    <3>1. m \in Nat /\ m # 0
      BY <1>1, <1>2, <1>3
    <3>2. m - 1 \in Nat /\ ~(m <= m - 1)
      BY <3>1
    <3> QED
      BY <1>2, <3>1, <3>2
  <2>2. PICK f : Solves(f, m - 1)
    BY <2>1
  <2> DEFINE g == [k \in 0..m |-> IF k = m THEN f[m - 1] \o Batches[m] ELSE f[k]]
  <2>3. \A k \in 0..(m - 1) : k \in 0..m /\ k # m /\ f[k] = MatchedStep(f, k)
    BY <2>1, <2>2
  <2>4. \A k \in 0..(m - 1) : g[k] = f[k]
    BY <2>3
  <2>5. ASSUME NEW k \in 0..m
        PROVE  g[k] = MatchedStep(g, k)
    <3>1. CASE k = m
      <4>1. g[k] = f[m - 1] \o Batches[m] /\ m - 1 \in 0..(m - 1) /\ m # 0
        BY <2>1, <3>1
      <4> QED
        BY <2>4, <3>1, <4>1 DEF MatchedStep
    <3>2. CASE k # m /\ k # 0
      <4>1. k \in 0..(m - 1) /\ k - 1 \in 0..(m - 1)
        BY <2>1, <3>2
      <4>2. g[k] = f[k] /\ g[k - 1] = f[k - 1] /\ f[k] = MatchedStep(f, k)
        BY <2>3, <2>4, <4>1
      <4> HIDE DEF g
      <4> QED
        BY <3>2, <4>2 DEF MatchedStep
    <3>3. CASE k # m /\ k = 0
      <4>1. g[k] = f[k] /\ f[k] = MatchedStep(f, k)
        BY <2>1, <2>3, <2>4, <3>3
      <4> HIDE DEF g
      <4> QED
        BY <3>3, <4>1 DEF MatchedStep
    <3> QED
      BY <3>1, <3>2, <3>3
  <2>6. g = [k \in 0..m |-> MatchedStep(g, k)]
    <3>1. [k \in 0..m |-> g[k]] = [k \in 0..m |-> MatchedStep(g, k)]
      BY <2>5
    <3>2. g = [k \in 0..m |-> g[k]]
      OBVIOUS
    <3> QED
      BY <3>1, <3>2
  <2> HIDE DEF g
  <2>7. \E h : Solves(h, m)
    BY <2>6
  <2> QED
    BY <1>2, <2>7
<1>4. n \notin N => \E f : Solves(f, n)
  OBVIOUS
<1> HIDE DEF N
<1>5. N = {}
  BY <1>2, <1>3, LeastNumber
<1> QED
  BY <1>4, <1>5

LEMMA MatchedUnfolds ==
    \A n \in 0..Len(Batches) : Sends!Matched[n] = MatchedStep(Sends!Matched, n)
<1>1. PICK l \in Nat : l = Len(Batches)
  BY BatchesAssumption
<1>2. \E f : f = [k \in 0..l |-> MatchedStep(f, k)]
  BY MatchedUpTo
<1> DEFINE m == CHOOSE f : f = [k \in 0..l |-> MatchedStep(f, k)]
<1>3. m = [k \in 0..l |-> MatchedStep(m, k)]
  BY <1>2
<1>4. Sends!Matched = m
  BY <1>1 DEF Sends!Matched, MatchedStep
<1> HIDE DEF m
<1>5. \A k \in 0..l : m[k] = MatchedStep(m, k)
  BY <1>3
<1> QED
  BY <1>1, <1>4, <1>5

Joins(c, a, m, b, n) == \A i \in 1..(m + n) : c[i] = IF i <= m THEN a[i] ELSE b[i - m]

\* Where the elements of a concatenation c of a and b come from
LEMMA ConcatParts ==
    ASSUME NEW m \in Nat, NEW n \in Nat, NEW a, NEW b, NEW c, Joins(c, a, m, b, n)
    PROVE  /\ \A i \in 1..m : i \in 1..(m + n) /\ c[i] = a[i]
           /\ \A i \in 1..n : m + i \in 1..(m + n) /\ c[m + i] = b[i]
           /\ \A i \in 1..(m + n) :
                 \/ i \in 1..m /\ c[i] = a[i]
                 \/ i > m /\ i - m \in 1..n /\ c[i] = b[i - m]
<1>1. ASSUME NEW i \in 1..m
      PROVE  i \in 1..(m + n) /\ c[i] = a[i]
  <2>1. i \in 1..(m + n) /\ i <= m
    OBVIOUS
  <2> QED
    BY <2>1 DEF Joins
<1>2. ASSUME NEW i \in 1..n
      PROVE  m + i \in 1..(m + n) /\ c[m + i] = b[i]
  <2>1. m + i \in 1..(m + n) /\ ~(m + i <= m) /\ (m + i) - m = i
    OBVIOUS
  <2> QED
    BY <2>1 DEF Joins
<1>3. ASSUME NEW i \in 1..(m + n)
      PROVE  \/ i \in 1..m /\ c[i] = a[i]
             \/ i > m /\ i - m \in 1..n /\ c[i] = b[i - m]
  <2>1. CASE i <= m
    <3>1. i \in 1..m
      BY <2>1
    <3> QED
      BY <1>1, <3>1
  <2>2. CASE ~(i <= m)
    <3>1. i > m /\ i - m \in 1..n
      BY <2>2
    <3>2. c[i] = b[i - m]
      BY <2>2 DEF Joins
    <3> QED
      BY <3>1, <3>2
  <2> QED
    BY <2>1, <2>2
<1> QED
  BY <1>1, <1>2, <1>3

LEMMA PartsAscending ==
    ASSUME NEW m \in Nat, NEW n \in Nat, NEW a, NEW b, NEW c, Joins(c, a, m, b, n),
           \A i, j \in 1..m : i < j => a[i] < a[j],
           \A i, j \in 1..n : i < j => b[i] < b[j],
           \A i \in 1..m, j \in 1..n : a[i] < b[j]
    PROVE  \A i, j \in 1..(m + n) : i < j => c[i] < c[j]
<1> TAKE i, j \in 1..(m + n)
<1> HAVE i < j
<1>1. /\ \/ i \in 1..m /\ c[i] = a[i]
         \/ i > m /\ i - m \in 1..n /\ c[i] = b[i - m]
      /\ \/ j \in 1..m /\ c[j] = a[j]
         \/ j > m /\ j - m \in 1..n /\ c[j] = b[j - m]
  BY ConcatParts
<1>2. CASE i \in 1..m /\ c[i] = a[i] /\ j \in 1..m /\ c[j] = a[j]
  BY <1>2
<1>3. CASE i \in 1..m /\ c[i] = a[i] /\ j - m \in 1..n /\ c[j] = b[j - m]
  BY <1>3
<1>4. CASE i - m \in 1..n /\ c[i] = b[i - m] /\ j - m \in 1..n /\ c[j] = b[j - m]
  <2>1. PICK k \in 1..n : k = i - m
    BY <1>4
  <2>2. PICK l \in 1..n : l = j - m
    BY <1>4
  <2>3. k < l
    BY <2>1, <2>2
  <2>4. b[k] < b[l]
    BY <2>3
  <2> QED
    BY <1>4, <2>1, <2>2, <2>4
<1>5. ~(i > m /\ j \in 1..m)
  OBVIOUS
<1> QED
  BY <1>1, <1>2, <1>3, <1>4, <1>5

\* The concatenation of two sequences of trades, the older ones first
LEMMA ConcatFacts ==
    ASSUME NEW a \in Seq(Nat), NEW b \in Seq(Nat)
    PROVE  /\ a \o b \in Seq(Nat)
           /\ ToSet(a \o b) = ToSet(a) \cup ToSet(b)
           /\ Len(a) <= Len(a \o b)
           /\ \A i \in 1..Len(a) : (a \o b)[i] = a[i]
           /\ Ascending(a) /\ Ascending(b) /\ Older(ToSet(a), ToSet(b)) => Ascending(a \o b)
<1>1. PICK m \in Nat : m = Len(a)
  BY LenProperties
<1>2. PICK n \in Nat : n = Len(b)
  BY LenProperties
<1>3. PICK c : c = a \o b
  OBVIOUS
<1>4. c \in Seq(Nat) /\ Len(c) = m + n
  BY <1>1, <1>2, <1>3, ConcatProperties
<1>5. Joins(c, a, m, b, n)
  BY <1>1, <1>2, <1>3, ConcatProperties DEF Joins
<1>6. DOMAIN a = 1..m /\ DOMAIN b = 1..n /\ DOMAIN c = 1..(m + n)
  BY <1>1, <1>2, <1>4, LenProperties
<1>7. /\ \A i \in 1..m : i \in 1..(m + n) /\ c[i] = a[i]
      /\ \A i \in 1..n : m + i \in 1..(m + n) /\ c[m + i] = b[i]
      /\ \A i \in 1..(m + n) :
            \/ i \in 1..m /\ c[i] = a[i]
            \/ i > m /\ i - m \in 1..n /\ c[i] = b[i - m]
  BY <1>5, ConcatParts
<1>8. ToSet(c) = ToSet(a) \cup ToSet(b)
  <2>1. ToSet(c) \subseteq ToSet(a) \cup ToSet(b)
    BY <1>6, <1>7 DEF ToSet
  <2>2. ToSet(a) \subseteq ToSet(c)
    BY <1>6, <1>7 DEF ToSet
  <2>3. ToSet(b) \subseteq ToSet(c)
    <3> SUFFICES ASSUME NEW i \in 1..n
                 PROVE  b[i] \in ToSet(c)
      BY <1>6 DEF ToSet
    <3>1. PICK k \in 1..(m + n) : k = m + i
      BY <1>7
    <3>2. c[k] = b[i]
      BY <1>7, <3>1
    <3> QED
      BY <1>6, <3>2 DEF ToSet
  <2> QED
    BY <2>1, <2>2, <2>3
<1>9. ASSUME Ascending(a), Ascending(b), Older(ToSet(a), ToSet(b))
      PROVE  Ascending(c)
  <2>1. \A i, j \in 1..m : i < j => a[i] < a[j]
    BY <1>1, <1>9 DEF Ascending
  <2>2. \A i, j \in 1..n : i < j => b[i] < b[j]
    BY <1>2, <1>9 DEF Ascending
  <2>3. \A i \in 1..m, j \in 1..n : a[i] < b[j]
    BY <1>6, <1>9 DEF Older, ToSet
  <2>4. \A i, j \in 1..(m + n) : i < j => c[i] < c[j]
    BY <1>5, <2>1, <2>2, <2>3, PartsAscending
  <2> QED
    BY <1>4, <2>4 DEF Ascending
<1>10. Len(a) <= Len(c) /\ \A i \in 1..Len(a) : c[i] = a[i]
  BY <1>1, <1>4, <1>7
<1> QED
  BY <1>3, <1>4, <1>8, <1>9, <1>10

BatchesUpTo(n) == UNION {ToSet(Batches[i]) : i \in 1..n}

LEMMA NextInBatches ==
    ASSUME NEW n \in 1..Len(Batches)
    PROVE  /\ Batches[n] \in Seq(Nat)
           /\ Ascending(Batches[n])
           /\ Older(BatchesUpTo(n - 1), ToSet(Batches[n]))
           /\ BatchesUpTo(n) = BatchesUpTo(n - 1) \cup ToSet(Batches[n])
<1>1. n \in Nat /\ n # 0 /\ Len(Batches) \in Nat
  BY BatchesAssumption
<1>2. Batches[n] \in Seq(Nat) /\ Ascending(Batches[n])
  <2>1. Batches[n] \in Seq(Nat \ {0}) /\ Ascending(Batches[n])
    BY BatchesAssumption
  <2>2. \A s \in Seq(Nat \ {0}) : s \in Seq(Nat)
    OBVIOUS
  <2> QED
    BY <2>1, <2>2
<1>3. \A i \in 1..(n - 1) : i \in 1..Len(Batches) /\ i < n
  BY <1>1
<1>4. \A i \in 1..(n - 1) : Older(ToSet(Batches[i]), ToSet(Batches[n]))
  BY <1>3, BatchesAssumption
<1>5. Older(BatchesUpTo(n - 1), ToSet(Batches[n]))
  BY <1>4 DEF BatchesUpTo, Older
<1>6. 1..n = (1..(n - 1)) \cup {n}
  BY <1>1
<1>7. BatchesUpTo(n) = BatchesUpTo(n - 1) \cup ToSet(Batches[n])
  BY <1>6 DEF BatchesUpTo
<1> QED
  BY <1>2, <1>5, <1>7

MatchedAre(n) ==
    /\ Sends!Matched[n] \in Seq(Nat)
    /\ Ascending(Sends!Matched[n])
    /\ ToSet(Sends!Matched[n]) = BatchesUpTo(n)

LEMMA MatchedNext ==
    ASSUME NEW n \in 1..Len(Batches), MatchedAre(n - 1)
    PROVE  MatchedAre(n)
<1>1. n \in 0..Len(Batches) /\ n # 0
  BY BatchesAssumption
<1>2. PICK a \in Seq(Nat) : a = Sends!Matched[n - 1]
  BY DEF MatchedAre
<1>3. PICK b \in Seq(Nat) : b = Batches[n] /\ Ascending(b)
  BY NextInBatches
<1>4. PICK c : c = a \o b
  OBVIOUS
<1>5. Sends!Matched[n] = c
  BY <1>1, <1>2, <1>3, <1>4, MatchedUnfolds DEF MatchedStep
<1>6. /\ Ascending(a)
      /\ ToSet(a) = BatchesUpTo(n - 1)
      /\ Older(ToSet(a), ToSet(b))
      /\ BatchesUpTo(n) = ToSet(a) \cup ToSet(b)
  BY <1>2, <1>3, NextInBatches DEF MatchedAre
<1>7. c \in Seq(Nat) /\ ToSet(c) = ToSet(a) \cup ToSet(b)
  BY <1>4, ConcatFacts
<1>8. Ascending(c)
  BY <1>3, <1>4, <1>6, ConcatFacts
<1> QED
  BY <1>5, <1>6, <1>7, <1>8 DEF MatchedAre

LEMMA MatchedSound ==
    \A n \in 0..Len(Batches) : MatchedAre(n)
<1> DEFINE N == {n \in 0..Len(Batches) : ~MatchedAre(n)}
<1>1. 0 \notin N
  <2>1. 0 \in 0..Len(Batches) /\ Sends!Matched[0] = <<>>
    BY BatchesAssumption, MatchedUnfolds DEF MatchedStep
  <2>2. <<>> \in Seq(Nat) /\ Ascending(<<>>) /\ ToSet(<<>>) = {}
    BY EmptyLine DEF Ascending
  <2>3. BatchesUpTo(0) = {}
    BY DEF BatchesUpTo
  <2> QED
    BY <2>1, <2>2, <2>3 DEF MatchedAre
<1>2. N \in SUBSET Nat
  BY BatchesAssumption
<1>3. ASSUME NEW m \in N, \A l \in N : m <= l
      PROVE  FALSE
  <2>1. m \in 0..Len(Batches) /\ ~MatchedAre(m) /\ m # 0 /\ Len(Batches) \in Nat
    BY <1>1, BatchesAssumption
  <2>2. m \in 1..Len(Batches) /\ m - 1 \in 0..Len(Batches) /\ ~(m <= m - 1)
    BY <2>1
  <2>3. MatchedAre(m - 1)
    BY <1>3, <2>2
  <2> QED
    BY <2>1, <2>2, <2>3, MatchedNext
<1>4. (\A n \in 0..Len(Batches) : n \notin N) => \A n \in 0..Len(Batches) : MatchedAre(n)
  OBVIOUS
<1> HIDE DEF N
<1>5. N = {}
  BY <1>2, <1>3, LeastNumber
<1> QED
  BY <1>4, <1>5

-----------------------------------------------------------------------------
(* The units are the matched trades up to some point *)

Begins(u, s) == Len(u) <= Len(s) /\ \A i \in 1..Len(u) : u[i] = s[i]

\* What is delivered next is the oldest that was not delivered.
LEMMA OldestIsNext ==
    ASSUME NEW u \in Seq(Nat), NEW s \in Seq(Nat), Ascending(s), Begins(u, s),
           NEW t \in ToSet(s), t \notin ToSet(u),
           \A x \in ToSet(s) \ ToSet(u) : x = t \/ t < x
    PROVE  Len(u) < Len(s) /\ s[Len(u) + 1] = t
<1>1. PICK m \in Nat : m = Len(u)
  BY LenProperties
<1>2. PICK n \in Nat : n = Len(s)
  BY LenProperties
<1>3. DOMAIN u = 1..m /\ DOMAIN s = 1..n
  BY <1>1, <1>2, LenProperties
<1>4. m <= n /\ \A i \in 1..m : u[i] = s[i]
  BY <1>1, <1>2 DEF Begins
<1>5. \A i, j \in 1..n : i < j => s[i] < s[j]
  BY <1>2 DEF Ascending
<1>6. \A i \in 1..n : s[i] \in Nat /\ s[i] \in ToSet(s)
  BY <1>3 DEF ToSet
<1>7. ToSet(u) = {u[i] : i \in 1..m}
  BY <1>3 DEF ToSet
<1>8. PICK k \in 1..n : s[k] = t
  BY <1>3 DEF ToSet
<1>9. k > m
  <2>1. ASSUME k \in 1..m
        PROVE  FALSE
    <3>1. u[k] = t
      BY <1>4, <1>8, <2>1
    <3> QED
      BY <1>7, <2>1, <3>1
  <2> QED
    BY <2>1
<1>10. m + 1 \in 1..n
  BY <1>9
<1>11. s[m + 1] \notin ToSet(u)
  <2> SUFFICES ASSUME NEW i \in 1..m, s[m + 1] = u[i]
               PROVE  FALSE
    BY <1>7
  <2>1. i \in 1..n /\ i < m + 1 /\ s[i] = u[i]
    BY <1>4
  <2>2. s[i] < s[m + 1] /\ s[i] \in Nat
    BY <1>5, <1>6, <1>10, <2>1
  <2> QED
    BY <2>1, <2>2
<1>12. s[m + 1] = t
  <2>1. s[m + 1] = t \/ t < s[m + 1]
    BY <1>6, <1>10, <1>11
  <2>2. m + 1 = k \/ s[m + 1] < s[k]
    <3>1. m + 1 = k \/ m + 1 < k
      BY <1>9
    <3> QED
      BY <1>5, <1>10, <3>1
  <2>3. s[m + 1] \in Nat /\ t \in Nat
    BY <1>6, <1>8, <1>10
  <2> QED
    BY <1>8, <2>1, <2>2, <2>3
<1> QED
  BY <1>1, <1>2, <1>10, <1>12

DeliveredInOrder == Begins(units, Sends!Matched[created])

LEMMA DeliverStep ==
    ASSUME IInv, OrderInv, DeliveredInOrder, NEW w \in Workers, SendOne(w)
    PROVE  Sends!Deliver /\ DeliveredInOrder'
<1>1. created \in 0..Len(Batches) /\ UNCHANGED created
  BY DEF IInv, TypeOK, SendOne, backend
<1>2. PICK s \in Seq(Nat) : s = Sends!Matched[created]
  BY <1>1, MatchedSound DEF MatchedAre
<1>3. Ascending(s) /\ ToSet(s) = Created
  BY <1>1, <1>2, MatchedSound DEF MatchedAre, BatchesUpTo, Created
<1>4. PICK u \in Seq(Nat) : u = units
  <2>1. units \in Seq(Trades) /\ \A t \in Trades : t \in Nat
    BY TradeNumbers DEF IInv, TypeOK
  <2>2. /\ Len(units) \in Nat
        /\ units = [i \in 1..Len(units) |-> units[i]]
        /\ \A i \in 1..Len(units) : units[i] \in Nat
    BY <2>1
  <2> QED
    BY <2>2
<1>5. PICK t \in Created :
         /\ t \notin ToSet(u)
         /\ units' = Append(u, t)
         /\ \A x \in Created \ ToSet(u) : x = t \/ t < x
  BY <1>4, SendsOldest
<1>6. Begins(u, s)
  BY <1>2, <1>4 DEF DeliveredInOrder
<1>7. Len(u) < Len(s) /\ s[Len(u) + 1] = t
  BY <1>3, <1>5, <1>6, OldestIsNext
<1>8. Sends!Deliver
  BY <1>1, <1>2, <1>4, <1>5, <1>7 DEF Sends!Deliver
<1>9. Begins(Append(u, t), s)
  <2>1. t \in Nat
    BY <1>3, <1>5 DEF ToSet
  <2>2. /\ Len(Append(u, t)) = Len(u) + 1
        /\ \A i \in 1..Len(u) : Append(u, t)[i] = u[i]
        /\ Append(u, t)[Len(u) + 1] = t
    BY <2>1, AppendFacts
  <2>3. PICK m \in Nat : m = Len(u)
    BY LenProperties
  <2>4. PICK n \in Nat : n = Len(s)
    BY LenProperties
  <2>5. \A i \in 1..(m + 1) : i \in 1..m \/ i = m + 1
    BY <2>3
  <2>6. m + 1 <= n
    BY <1>7, <2>3, <2>4
  <2> QED
    BY <1>6, <1>7, <2>2, <2>3, <2>4, <2>5, <2>6 DEF Begins
<1> QED
  BY <1>1, <1>2, <1>5, <1>8, <1>9 DEF DeliveredInOrder

LEMMA CreateStep ==
    ASSUME IInv, DeliveredInOrder, BackendCreate
    PROVE  Sends!Create /\ DeliveredInOrder'
<1>1. /\ created + 1 \in 1..Len(Batches)
      /\ created' = created + 1
      /\ created < Len(Batches)
      /\ UNCHANGED units
  BY NextBatch DEF IInv, BackendCreate
<1>2. created \in 0..Len(Batches)
  BY DEF IInv, TypeOK
<1>3. PICK n : n = created + 1
  OBVIOUS
<1>4. n \in 1..Len(Batches) /\ n \in 0..Len(Batches) /\ n # 0 /\ n - 1 = created /\ created' = n
  BY <1>1, <1>2, <1>3
<1>5. PICK a \in Seq(Nat) : a = Sends!Matched[created]
  BY <1>2, MatchedSound DEF MatchedAre
<1>6. PICK b \in Seq(Nat) : b = Batches[n]
  BY <1>4, NextInBatches
<1>7. Sends!Matched[n] = a \o b
  BY <1>4, <1>5, <1>6, MatchedUnfolds DEF MatchedStep
<1>8. PICK c \in Seq(Nat) : c = a \o b /\ Len(a) <= Len(c) /\ \A i \in 1..Len(a) : c[i] = a[i]
  BY ConcatFacts
<1>9. Begins(units, a)
  BY <1>5 DEF DeliveredInOrder
<1>10. Len(units) \in Nat
  BY LenProperties DEF IInv, TypeOK
<1>11. Begins(units, c)
  <2>1. PICK l \in Nat : l = Len(units)
    BY <1>10
  <2>2. PICK m \in Nat : m = Len(a)
    BY LenProperties
  <2>3. PICK k \in Nat : k = Len(c)
    BY LenProperties
  <2>4. l <= m /\ m <= k /\ \A i \in 1..l : units[i] = a[i]
    BY <1>8, <1>9, <2>1, <2>2, <2>3 DEF Begins
  <2>5. \A i \in 1..l : i \in 1..m
    BY <2>4
  <2>6. l <= k /\ \A i \in 1..l : units[i] = c[i]
    BY <1>8, <2>2, <2>4, <2>5
  <2> QED
    BY <2>1, <2>3, <2>6 DEF Begins
<1>12. DeliveredInOrder'
  BY <1>1, <1>4, <1>7, <1>8, <1>11 DEF DeliveredInOrder
<1> QED
  BY <1>1, <1>12 DEF Sends!Create

LEMMA DeliveryStep ==
    ASSUME IInv, OrderInv, DeliveredInOrder, [Next]_vars
    PROVE  [Sends!Next]_(Sends!vars) /\ DeliveredInOrder'
<1>1. CASE BackendCreate
  BY <1>1, CreateStep DEF Sends!Next
<1>2. ASSUME NEW w \in Workers, SendOne(w)
      PROVE  [Sends!Next]_(Sends!vars) /\ DeliveredInOrder'
  BY <1>2, DeliverStep DEF Sends!Next
<1>3. CASE ~BackendCreate /\ \A w \in Workers : ~SendOne(w)
  <2>1. UNCHANGED units
    BY <1>3, WhoPosts
  <2>2. UNCHANGED created
    BY <1>3, WhoCalls DEF BackendCall, TakeCall, Crash, Down, backend
  <2> QED
    BY <2>1, <2>2 DEF Sends!vars, DeliveredInOrder
<1> QED
  BY <1>1, <1>2, <1>3

LEMMA NothingDelivered ==
    Init => Sends!Init /\ DeliveredInOrder
<1> SUFFICES ASSUME Init PROVE Sends!Init /\ DeliveredInOrder
  OBVIOUS
<1>1. created = 0 /\ units = <<>> /\ 0 \in 0..Len(Batches)
  BY BatchesAssumption DEF Init
<1>2. Sends!Matched[0] = <<>>
  BY <1>1, MatchedUnfolds DEF MatchedStep
<1>3. Begins(<<>>, <<>>)
  BY DEF Begins
<1> QED
  BY <1>1, <1>2, <1>3 DEF Sends!Init, DeliveredInOrder

-----------------------------------------------------------------------------
(* What is announced *)

Event == [trade : Trades, status : {"PENDING", "SUCCESS"}]

Places(evs, t) ==
    {p \in UNION {{i} \X DOMAIN evs[i] : i \in DOMAIN evs} : evs[p[1]][p[2]].trade = t}

LEMMA PlacesAre ==
    ASSUME NEW evs, NEW t
    PROVE  /\ \A p \in Places(evs, t) :
                 \E i \in DOMAIN evs : \E k \in DOMAIN evs[i] :
                    p = <<i, k>> /\ p[1] = i /\ p[2] = k /\ evs[i][k].trade = t
           /\ \A i \in DOMAIN evs : \A k \in DOMAIN evs[i] :
                 evs[i][k].trade = t => <<i, k>> \in Places(evs, t)
  BY DEF Places

\* The event of an announcement
Told(trades, st) == [i \in 1..Len(trades) |-> [trade |-> trades[i], status |-> st]]

LEMMA AnnounceIs ==
    ASSUME TypeOK, NEW trades \in Seq(Trades), NEW st \in {"PENDING", "SUCCESS"},
           events' = Announce(trades, st)
    PROVE  \/ trades = <<>> /\ events' = events
           \/ events' = Append(events, Told(trades, st)) /\ Told(trades, st) \in Seq(Event)
<1>1. \A i \in 1..Len(trades) : trades[i] \in Trades
  BY ElementOfSeq
<1>2. Told(trades, st) \in Seq(Event)
  BY <1>1 DEF Told, Event
<1> QED
  BY <1>2 DEF Announce, Told

\* The announcement e, and what was announced after it
Tells(e, trades, st) == e = Told(trades, st)
Adds(after, evs, e) == after = Append(evs, e)

\* The places of a trade after an event is appended
LEMMA PlacesAfter ==
    ASSUME NEW evs \in Seq(Seq(Event)), NEW trades \in Seq(Trades),
           NEW st \in {"PENDING", "SUCCESS"}, NEW e \in Seq(Event), Tells(e, trades, st),
           NEW after, Adds(after, evs, e), NEW t, NEW n, n = Len(evs) + 1
    PROVE  /\ after[n] = e
           /\ Places(evs, t) \subseteq Places(after, t)
           /\ \A p \in Places(evs, t) : p[1] # n /\ after[p[1]] = evs[p[1]]
           /\ \A p \in Places(after, t) \ Places(evs, t) :
                 \E k \in 1..Len(trades) : p = <<n, k>> /\ p[1] = n /\ p[2] = k /\ trades[k] = t
           /\ \A k \in 1..Len(trades) : trades[k] = t => <<n, k>> \in Places(after, t)
<1>1. n \in Nat /\ Len(evs) \in Nat /\ n = Len(evs) + 1
  BY LenProperties
<1>2. /\ after \in Seq(Seq(Event))
      /\ Len(after) = n
      /\ \A i \in 1..Len(evs) : after[i] = evs[i]
      /\ after[n] = e
  BY <1>1, AppendFacts DEF Adds
<1>3. DOMAIN evs = 1..Len(evs) /\ DOMAIN after = 1..n
  BY <1>2, LenProperties
<1>4. \A i \in 1..n : i \in 1..Len(evs) \/ i = n
  BY <1>1
<1>5. \A i \in 1..Len(evs) : i \in 1..n /\ i # n
  BY <1>1
<1>6. DOMAIN e = 1..Len(trades) /\ \A k \in 1..Len(trades) : e[k].trade = trades[k]
  BY DEF Tells, Told
<1>7. ASSUME NEW p \in Places(evs, t)
      PROVE  p[1] # n /\ after[p[1]] = evs[p[1]] /\ p \in Places(after, t)
  <2>0. PICK i \in DOMAIN evs : \E k \in DOMAIN evs[i] :
           p = <<i, k>> /\ p[1] = i /\ p[2] = k /\ evs[i][k].trade = t
    BY PlacesAre
  <2>1. PICK k \in DOMAIN evs[i] :
           p = <<i, k>> /\ p[1] = i /\ p[2] = k /\ evs[i][k].trade = t
    BY <2>0
  <2>2. i \in DOMAIN after /\ i # n /\ after[i] = evs[i]
    BY <1>2, <1>3, <1>5, <2>1
  <2>3. k \in DOMAIN after[i] /\ after[i][k].trade = t
    BY <2>1, <2>2
  <2>4. <<i, k>> \in Places(after, t)
    BY <2>2, <2>3, PlacesAre
  <2> QED
    BY <2>1, <2>2, <2>4
<1>8. ASSUME NEW p \in Places(after, t), p \notin Places(evs, t)
      PROVE  \E k \in 1..Len(trades) : p = <<n, k>> /\ p[1] = n /\ p[2] = k /\ trades[k] = t
  <2>0. PICK i \in DOMAIN after : \E k \in DOMAIN after[i] :
           p = <<i, k>> /\ p[1] = i /\ p[2] = k /\ after[i][k].trade = t
    BY PlacesAre
  <2>1. PICK k \in DOMAIN after[i] :
           p = <<i, k>> /\ p[1] = i /\ p[2] = k /\ after[i][k].trade = t
    BY <2>0
  <2>2. i \notin 1..Len(evs)
    <3> SUFFICES ASSUME i \in 1..Len(evs) PROVE FALSE
      OBVIOUS
    <3>1. i \in DOMAIN evs /\ k \in DOMAIN evs[i] /\ evs[i][k].trade = t
      BY <1>2, <1>3, <2>1
    <3> QED
      BY <1>8, <2>1, <3>1, PlacesAre
  <2>3. i = n
    BY <1>3, <1>4, <2>1, <2>2
  <2>4. k \in 1..Len(trades) /\ trades[k] = t
    BY <1>2, <1>6, <2>1, <2>3
  <2> QED
    BY <2>1, <2>3, <2>4
<1>9. ASSUME NEW k \in 1..Len(trades), trades[k] = t
      PROVE  <<n, k>> \in Places(after, t)
  <2>1. n \in DOMAIN after /\ after[n] = e /\ k \in DOMAIN e /\ e[k].trade = t
    BY <1>1, <1>2, <1>3, <1>6, <1>9
  <2> QED
    BY <2>1, PlacesAre
<1> QED
  BY <1>2, <1>7, <1>8, <1>9

\* What an announcement makes known
LEMMA AnnouncementsAfter ==
    ASSUME TypeOK, NEW trades \in Seq(Trades), NEW st \in {"PENDING", "SUCCESS"},
           events' = Announce(trades, st), NEW t
    PROVE  /\ Announcements(t) \subseteq Announcements(t)'
           /\ t \notin ToSet(trades) => Announcements(t)' = Announcements(t)
           /\ t \in ToSet(trades) => Announcements(t)' # {}
           /\ Ascending(trades) /\ Announcements(t) = {} =>
                 \A p, q \in Announcements(t)' : p = q
           /\ \A p \in Announcements(t)' :
                 \/ events'[p[1]][p[2]].status = st
                 \/ /\ p \in Announcements(t)
                    /\ events'[p[1]][p[2]].status = events[p[1]][p[2]].status
<1>1. /\ Announcements(t) = Places(events, t)
      /\ Announcements(t)' = Places(events', t)
  BY DEF Announcements, Places
<1>2. DOMAIN trades = 1..Len(trades) /\ ToSet(trades) = {trades[k] : k \in 1..Len(trades)}
  BY LenProperties DEF ToSet
<1>3. CASE trades = <<>> /\ events' = events
  <2>1. ToSet(trades) = {}
    BY <1>3, EmptyLine
  <2> QED
    BY <1>1, <1>3, <2>1
<1>4. CASE events' = Append(events, Told(trades, st)) /\ Told(trades, st) \in Seq(Event)
  <2>1. PICK evs \in Seq(Seq(Event)) : evs = events
    BY DEF TypeOK, Event
  <2>2. PICK e \in Seq(Event) : Tells(e, trades, st)
    BY <1>4 DEF Tells
  <2>3. PICK after : Adds(after, evs, e) /\ after = events'
    BY <1>4, <2>1, <2>2 DEF Adds, Tells
  <2>4. PICK n : n = Len(evs) + 1
    OBVIOUS
  <2>5. /\ after[n] = e
        /\ Places(evs, t) \subseteq Places(after, t)
        /\ \A p \in Places(evs, t) : p[1] # n /\ after[p[1]] = evs[p[1]]
        /\ \A p \in Places(after, t) \ Places(evs, t) :
              \E k \in 1..Len(trades) : p = <<n, k>> /\ p[1] = n /\ p[2] = k /\ trades[k] = t
        /\ \A k \in 1..Len(trades) : trades[k] = t => <<n, k>> \in Places(after, t)
    BY <2>2, <2>3, <2>4, PlacesAfter
  <2>6. \A k \in 1..Len(trades) : e[k].status = st
    BY <2>2 DEF Tells, Told
  <2>7. t \notin ToSet(trades) => Places(after, t) = Places(evs, t)
    BY <1>2, <2>5
  <2>8. t \in ToSet(trades) => Places(after, t) # {}
    BY <1>2, <2>5
  <2>9. ASSUME Ascending(trades), Places(evs, t) = {},
               NEW p \in Places(after, t), NEW q \in Places(after, t)
        PROVE  p = q
    <3>1. PICK k \in 1..Len(trades) : p = <<n, k>> /\ trades[k] = t
      BY <2>5, <2>9
    <3>2. PICK l \in 1..Len(trades) : q = <<n, l>> /\ trades[l] = t
      BY <2>5, <2>9
    <3>3. k = l
      <4>1. t \in Nat
        BY <3>1, ElementOfSeq, TradeNumbers
      <4>2. ~(k < l) /\ ~(l < k)
        BY <2>9, <3>1, <3>2, <4>1 DEF Ascending
      <4>3. k \in Nat /\ l \in Nat
        BY LenProperties
      <4> QED
        BY <4>2, <4>3
    <3> QED
      BY <3>1, <3>2, <3>3
  <2>10. ASSUME NEW p \in Places(after, t)
         PROVE  \/ after[p[1]][p[2]].status = st
                \/ /\ p \in Places(evs, t)
                   /\ after[p[1]][p[2]].status = evs[p[1]][p[2]].status
    BY <2>5, <2>6
  <2> QED
    BY <1>1, <2>1, <2>3, <2>5, <2>7, <2>8, <2>9, <2>10
<1> QED
  BY <1>3, <1>4, AnnounceIs

LEMMA SuccessfulIs ==
    ASSUME NEW j, j.matches \in Seq(Trades), Len(j.sent) \in Nat,
           Len(j.sent) <= Len(j.matches)
    PROVE  Successful(j) \in Seq(Trades) /\ ToSet(Successful(j)) = SentOf(j)
<1>1. PICK s \in Seq(Trades), n \in Nat : s = j.matches /\ n = Len(j.sent)
  OBVIOUS
<1>2. PICK v : v = SubSeq(s, 1, n)
  OBVIOUS
<1>3. n <= Len(s) /\ Len(s) \in Nat
  BY <1>1, LenProperties
<1>4. \A i \in 1..n : s[i] \in Trades
  BY <1>3, ElementOfSeq
<1>5. /\ v \in Seq(Trades)
      /\ Len(v) = IF 1 <= n THEN n - 1 + 1 ELSE 0
      /\ \A i \in 1..(n - 1 + 1) : v[i] = s[1 + i - 1]
  BY <1>2, <1>4, SubSeqProperties
<1>6. n - 1 + 1 = n /\ \A i \in 1..n : 1 + i - 1 = i
  OBVIOUS
<1>7. Len(v) = n /\ \A i \in 1..n : v[i] = s[i]
  BY <1>5, <1>6
<1>8. DOMAIN v = 1..n
  BY <1>5, <1>7, LenProperties
<1>9. ToSet(v) = {s[k] : k \in 1..n}
  BY <1>7, <1>8 DEF ToSet
<1> QED
  BY <1>1, <1>2, <1>5, <1>9 DEF Successful, SentOf

\* A worker that has recorded what it sent: all of that is settled.
LEMMA UpdatedSettled ==
    ASSUME IInv, NEW w \in Workers, Updated(w)
    PROVE  /\ Successful(job[w]) \in Seq(Trades)
           /\ ToSet(Successful(job[w])) = SentOf(job[w])
           /\ \A t \in SentOf(job[w]) : t \in Trades /\ status[t] = "SUCCESS"
<1>1. JobSound(job[w], units, status) /\ TypeOK
  BY DEF IInv, JobsSound
<1>2. /\ job[w].matches \in Seq(Trades)
      /\ Len(job[w].sent) \in Nat
      /\ Len(job[w].sent) <= Len(job[w].matches)
  BY <1>1, JobType1 DEF JobSound
<1>3. \A k \in 1..Len(job[w].sent) : job[w].matches[k] \in Trades
  BY <1>2, ElementOfSeq, LenProperties
<1>4. \A k \in 1..Len(job[w].sent) : status[job[w].matches[k]] = "SUCCESS"
  BY <1>1 DEF JobSound, Updated
<1> QED
  BY <1>2, <1>3, <1>4, SuccessfulIs DEF SentOf

\* A worker announces what it has sent, and stops or takes the next batch.
WorkerAnnounces(w) ==
    /\ Updated(w)
    /\ events' = Announce(Successful(job[w]), "SUCCESS")
    /\ SentOf(job'[w]) = {}
    /\ \A v \in Workers \ {w} : job'[v] = job[v]
    /\ UNCHANGED <<status, units, init, crashes>>

LEMMA WorkersAnnounce ==
    ASSUME IInv
    PROVE  /\ ExecuteDone => WorkerAnnounces("execute")
           /\ ResendPart \/ ResendAll => WorkerAnnounces("resend")
<1>1. job \in [Workers -> JobType] /\ "execute" \in Workers /\ "resend" \in Workers
  BY LineTypes DEF IInv
<1>2. ASSUME NEW j, j.sent = <<>>
      PROVE  SentOf(j) = {}
  BY <1>2 DEF SentOf
<1>3. Idle.sent = <<>> /\ \A b : Sending(b).sent = <<>>
  BY DEF Idle, Sending
<1>4. ASSUME ExecuteDone
      PROVE  WorkerAnnounces("execute")
  <2>1. job' = [job EXCEPT !["execute"] = Idle]
    BY <1>4 DEF ExecuteDone
  <2>2. job'["execute"] = Idle /\ \A v \in Workers \ {"execute"} : job'[v] = job[v]
    BY <1>1, <2>1
  <2> QED
    BY <1>2, <1>3, <1>4, <2>2 DEF ExecuteDone, WorkerAnnounces
<1>5. ASSUME ResendPart
      PROVE  WorkerAnnounces("resend")
  <2>1. job' = [job EXCEPT !["resend"] = Idle]
    BY <1>5 DEF ResendPart
  <2>2. job'["resend"] = Idle /\ \A v \in Workers \ {"resend"} : job'[v] = job[v]
    BY <1>1, <2>1
  <2> QED
    BY <1>2, <1>3, <1>5, <2>2 DEF ResendPart, WorkerAnnounces
<1>6. ASSUME ResendAll
      PROVE  WorkerAnnounces("resend")
  <2>1. PICK j : job' = [job EXCEPT !["resend"] = j] /\ j.sent = <<>>
    BY <1>3, <1>6 DEF ResendAll
  <2>2. job'["resend"] = j /\ \A v \in Workers \ {"resend"} : job'[v] = job[v]
    BY <1>1, <2>1
  <2> QED
    BY <1>2, <1>6, <2>1, <2>2 DEF ResendAll, WorkerAnnounces
<1> QED
  BY <1>4, <1>5, <1>6

LEMMA WhoTells ==
    ASSUME IInv, [Next]_vars
    PROVE  \/ UNCHANGED events
           \/ ExecuteDone /\ WorkerAnnounces("execute")
           \/ (ResendPart \/ ResendAll) /\ WorkerAnnounces("resend")
           \/ InitAnnounce
  BY WhoAnnounces, WorkersAnnounce

\* initQueue announces a trade that it found on the DAG.
LEMMA InitTells ==
    ASSUME IInv, InitAnnounce
    PROVE  \E t \in Trades :
              /\ t = Head(init.todo)
              /\ init.todo # <<>>
              /\ status[t] = "SUCCESS"
              /\ <<t>> \in Seq(Trades)
              /\ ToSet(<<t>>) = {t}
              /\ Ascending(<<t>>)
              /\ events' = Announce(<<t>>, "PENDING")
              /\ init'.todo = Tail(init.todo)
              /\ init'.pc = "check"
              /\ UNCHANGED <<status, units, job, crashes>>
<1>1. init.todo \in Seq(Trades) /\ init.todo # <<>> /\ status[Head(init.todo)] = "SUCCESS"
  BY LineTypes DEF IInv, InitSound, InitAnnounce
<1>2. PICK t \in Trades : t = Head(init.todo)
  BY <1>1, TailFacts
<1>3. /\ <<t>> \in Seq(Trades) /\ ToSet(<<t>>) = {t} /\ Len(<<t>>) = 1
  BY DEF ToSet
<1>4. Ascending(<<t>>)
  BY <1>3 DEF Ascending
<1> QED
  BY <1>1, <1>2, <1>3, <1>4 DEF InitAnnounce

\* What was announced is settled in the database.
HeardSettled ==
    \A t \in Trades : Announcements(t) # {} => status[t] = "SUCCESS"

LEMMA HeardSettledStep ==
    ASSUME IInv, HeardSettled, [Next]_vars
    PROVE  HeardSettled'
<1>1. TypeOK
  BY DEF IInv
<1>2. CASE UNCHANGED events
  <2>1. \A t \in Trades : Announcements(t)' = Announcements(t)
    BY <1>2 DEF Announcements
  <2> QED
    BY <2>1, SettledStays DEF HeardSettled
<1>3. ASSUME NEW w \in Workers, WorkerAnnounces(w)
      PROVE  HeardSettled'
  <2>1. PICK trades \in Seq(Trades) :
           /\ events' = Announce(trades, "SUCCESS")
           /\ \A t \in ToSet(trades) : status[t] = "SUCCESS"
    BY <1>3, UpdatedSettled DEF WorkerAnnounces
  <2>2. UNCHANGED status
    BY <1>3 DEF WorkerAnnounces
  <2>3. \A t \in Trades : t \notin ToSet(trades) => Announcements(t)' = Announcements(t)
    BY <1>1, <2>1, AnnouncementsAfter
  <2> QED
    BY <2>1, <2>2, <2>3 DEF HeardSettled
<1>4. CASE InitAnnounce
  <2>1. PICK h \in Trades :
           /\ status[h] = "SUCCESS"
           /\ <<h>> \in Seq(Trades)
           /\ ToSet(<<h>>) = {h}
           /\ events' = Announce(<<h>>, "PENDING")
           /\ UNCHANGED status
    BY <1>4, InitTells
  <2>2. \A t \in Trades : t # h => Announcements(t)' = Announcements(t)
    BY <1>1, <2>1, AnnouncementsAfter
  <2> QED
    BY <2>1, <2>2 DEF HeardSettled
<1> QED
  BY <1>2, <1>3, <1>4, WhoTells DEF Workers

\* A job keeps what it has sent until the worker announces it.
LEMMA SentUntilAnnounced ==
    ASSUME IInv, [Next]_vars, ~Crash, \A w \in Workers : ~SendOne(w)
    PROVE  \A w \in Workers :
              \/ SentOf(job'[w]) = SentOf(job[w])
              \/ SentOf(job'[w]) = {} /\ WorkerAnnounces(w)
<1>1. /\ job \in [Workers -> JobType] /\ "execute" \in Workers /\ "resend" \in Workers
      /\ TypeOK /\ ResendSound /\ InitSound
  BY LineTypes DEF IInv
<1>2. ASSUME NEW w \in Workers, NEW j, j.sent = <<>>, job[w].sent = <<>> \/ job[w].pc \in {"idle", "wait"},
             job' = [job EXCEPT ![w] = j]
      PROVE  \A v \in Workers : SentOf(job'[v]) = SentOf(job[v])
  <2>1. job'[w] = j /\ \A v \in Workers : v # w => job'[v] = job[v]
    BY <1>1, <1>2
  <2>2. SentOf(j) = {}
    BY <1>2 DEF SentOf
  <2>3. SentOf(job[w]) = {}
    BY <1>2, SentOnDag
  <2> QED
    BY <2>1, <2>2, <2>3
<1>3. CASE UNCHANGED job
  BY <1>3
<1>4. Idle.sent = <<>> /\ (\A b : Sending(b).sent = <<>>)
      /\ \A b : [Idle EXCEPT !.pc = "wait", !.matches = b].sent = <<>>
  BY DEF Idle, Sending
<1>5. CASE StartsRetry
  <2>1. \/ UNCHANGED job
        \/ ~retryLock /\ job' = [job EXCEPT !["resend"] = Sending(Head(queue))]
    BY <1>1, <1>5 DEF StartsRetry, NextRetry, BecameStable, WithdrawalToOperator, InitDone,
       Retry, BeginRetry, InitSound
  <2>2. ~retryLock => job["resend"].pc = "idle"
    BY <1>1 DEF ResendSound
  <2> QED
    BY <1>1, <1>2, <1>3, <1>4, <2>1, <2>2
<1>6. CASE ResendNothing
  <2>1. job["resend"].sent = <<>> /\ job' = [job EXCEPT !["resend"] = Idle]
    BY <1>6 DEF ResendNothing
  <2> QED
    BY <1>1, <1>2, <1>4, <2>1
<1>7. CASE ExecuteNothing
  <2>1. job["execute"].sent = <<>> /\ job' = [job EXCEPT !["execute"] = Idle]
    BY <1>7 DEF ExecuteNothing
  <2> QED
    BY <1>1, <1>2, <1>4, <2>1
<1>8. CASE ExecuteBehindQueue
  <2>1. job["execute"].pc = "wait" /\ job' = [job EXCEPT !["execute"] = Idle]
    BY <1>8 DEF ExecuteBehindQueue
  <2> QED
    BY <1>1, <1>2, <1>4, <2>1
<1>9. CASE TakeCall
  <2>1. PICK j : job' = [job EXCEPT !["execute"] = j] /\ j.sent = <<>>
    BY <1>4, <1>9 DEF TakeCall
  <2>2. job["execute"].pc = "idle"
    BY <1>9 DEF TakeCall
  <2> QED
    BY <1>1, <1>2, <2>1, <2>2
<1>10. ASSUME NEW w \in Workers,
              job'[w].sent = job[w].sent, job'[w].matches = job[w].matches,
              \A v \in Workers : v # w => job'[v] = job[v]
       PROVE  \A v \in Workers : SentOf(job'[v]) = SentOf(job[v])
  BY <1>10 DEF SentOf
<1>11. CASE ExecuteNow
  <2>1. /\ job'["execute"].sent = job["execute"].sent
        /\ job'["execute"].matches = job["execute"].matches
        /\ \A v \in Workers : v # "execute" => job'[v] = job[v]
    BY <1>1, <1>11 DEF ExecuteNow, JobType
  <2> QED
    BY <1>1, <1>10, <2>1
<1>12. ASSUME NEW w \in Workers, SendFailsLater(w)
       PROVE  \A v \in Workers : SentOf(job'[v]) = SentOf(job[v])
  <2>1. /\ job'[w].sent = job[w].sent
        /\ job'[w].matches = job[w].matches
        /\ \A v \in Workers : v # w => job'[v] = job[v]
    BY <1>1, <1>12 DEF SendFailsLater, JobType
  <2> QED
    BY <1>10, <2>1
<1>13. ASSUME NEW w \in Workers, UpdateOne(w)
       PROVE  \A v \in Workers : SentOf(job'[v]) = SentOf(job[v])
  <2>1. /\ job'[w].sent = job[w].sent
        /\ job'[w].matches = job[w].matches
        /\ \A v \in Workers : v # w => job'[v] = job[v]
    BY <1>1, <1>13 DEF UpdateOne, JobType
  <2> QED
    BY <1>10, <2>1
<1>14. ASSUME NEW w \in Workers, WorkerAnnounces(w)
       PROVE  \A v \in Workers :
                 \/ SentOf(job'[v]) = SentOf(job[v])
                 \/ SentOf(job'[v]) = {} /\ WorkerAnnounces(v)
  <2> TAKE v \in Workers
  <2>1. CASE v = w
    BY <1>14, <2>1 DEF WorkerAnnounces
  <2>2. CASE v # w
    <3>1. job'[v] = job[v]
      BY <1>14, <2>2 DEF WorkerAnnounces
    <3> QED
      BY <3>1
  <2> QED
    BY <2>1, <2>2
<1>15. CASE ExecuteDone \/ ResendPart \/ ResendAll
  <2>1. \E w \in Workers : WorkerAnnounces(w)
    BY <1>1, <1>15, WorkersAnnounce
  <2> QED
    BY <1>14, <2>1
<1> QED
  BY WhoWorks, <1>3, <1>5, <1>6, <1>7, <1>8, <1>9, <1>11, <1>12, <1>13, <1>15

\* What was announced is announced once, and by nobody else.
HeardSound ==
    \A t \in Trades :
        /\ \A p, q \in Announcements(t) : p = q
        /\ Announcements(t) # {} =>
              t \notin SentOf(job["execute"]) \cup SentOf(job["resend"]) \cup ToSet(init.todo)

\* What a job or initQueue comes to hold was not announced.
LEMMA NotHeardBefore ==
    ASSUME IInv, OrderInv, HeardSettled, [Next]_vars, NEW t \in Trades, Announcements(t) # {}
    PROVE  /\ \A w \in Workers : t \in SentOf(job'[w]) => t \in SentOf(job[w])
           /\ t \in ToSet(init'.todo) => t \in ToSet(init.todo)
<1>1. /\ TypeOK /\ SuccessIsOnDag
      /\ units \in Seq(Trades)
      /\ init \in InitType /\ init.todo \in Seq(Trades)
      /\ "execute" \in Workers /\ "resend" \in Workers
  BY LineTypes DEF IInv
<1>2. status[t] = "SUCCESS" /\ t \in ToSet(units)
  <2>1. status[t] = "SUCCESS"
    BY DEF HeardSettled
  <2>2. txHash[t] \in DOMAIN units /\ units[txHash[t]] = t
    BY <1>1, <2>1 DEF SuccessIsOnDag
  <2> QED
    BY <2>1, <2>2 DEF ToSet
<1>3. \A w \in Workers : t \in SentOf(job'[w]) => t \in SentOf(job[w])
  <2>1. CASE Crash
    <3>1. \A w \in Workers : job'[w] = Idle
      BY <2>1 DEF Crash, Down
    <3>2. SentOf(Idle) = {}
      BY DEF SentOf, Idle
    <3> QED
      BY <3>1, <3>2
  <2>2. ASSUME NEW w \in Workers, SendOne(w)
        PROVE  \A v \in Workers : t \in SentOf(job'[v]) => t \in SentOf(job[v])
    <3>1. PICK x \in Created :
             /\ x \notin ToSet(units)
             /\ SentOf(job'[w]) = SentOf(job[w]) \cup {x}
             /\ \A v \in Workers \ {w} : job'[v] = job[v]
      BY <2>2, SendsOldest
    <3> QED
      BY <1>2, <3>1
  <2>3. CASE ~Crash /\ \A w \in Workers : ~SendOne(w)
    BY <2>3, SentUntilAnnounced
  <2> QED
    BY <2>1, <2>2, <2>3
<1>4. t \in ToSet(init'.todo) => t \in ToSet(init.todo)
  <2>1. CASE UNCHANGED init
    BY <2>1
  <2>2. CASE InitLoad
    <3>1. PICK S : S = {x \in Trades : status[x] = "PENDING"}
      OBVIOUS
    <3>2. PICK todo \in Sorted(S) : init' = [pc |-> "check", todo |-> todo]
      BY <2>2, <3>1 DEF InitLoad
    <3>3. ToSet(init'.todo) = S
      BY <3>2 DEF Sorted
    <3> QED
      BY <1>2, <3>1, <3>3
  <2>3. CASE InitQueue
    <3>1. init'.todo = Tail(init.todo) /\ init.todo # <<>>
      BY <1>1, <2>3 DEF InitQueue, InitType
    <3> QED
      BY <1>1, <3>1, TailFacts
  <2>4. CASE InitAlreadySent \/ InitDone
    <3>1. init'.todo = init.todo
      BY <1>1, <2>4 DEF InitAlreadySent, InitDone, InitType
    <3> QED
      BY <3>1
  <2>5. CASE InitAnnounce
    <3>1. init'.todo = Tail(init.todo) /\ init.todo # <<>>
      BY <2>5, InitTells
    <3> QED
      BY <1>1, <3>1, TailFacts
  <2>6. CASE Crash
    <3>1. init'.todo = <<>>
      BY <2>6 DEF Crash, Down
    <3> QED
      BY <3>1, EmptyLine
  <2> QED
    BY WhoInitializes, <2>1, <2>2, <2>3, <2>4, <2>5, <2>6
<1> QED
  BY <1>3, <1>4

LEMMA HeardSoundStep ==
    ASSUME IInv, OrderInv, HeardSettled, HeardSound, [Next]_vars
    PROVE  HeardSound'
<1>1. /\ TypeOK /\ InitSound /\ ResendSound /\ LoadSound /\ LineSound
      /\ init.todo \in Seq(Trades)
      /\ "execute" \in Workers /\ "resend" \in Workers
  BY LineTypes DEF IInv, OrderInv
<1> SUFFICES ASSUME NEW t \in Trades
             PROVE  /\ \A p, q \in Announcements(t)' : p = q
                    /\ Announcements(t)' # {} =>
                          /\ t \notin SentOf(job'["execute"])
                          /\ t \notin SentOf(job'["resend"])
                          /\ t \notin ToSet(init'.todo)
  BY DEF HeardSound
<1>2. ASSUME Announcements(t)' = Announcements(t)
      PROVE  /\ \A p, q \in Announcements(t)' : p = q
             /\ Announcements(t)' # {} =>
                   /\ t \notin SentOf(job'["execute"])
                   /\ t \notin SentOf(job'["resend"])
                   /\ t \notin ToSet(init'.todo)
  BY <1>1, <1>2, NotHeardBefore DEF HeardSound
<1>3. CASE UNCHANGED events
  <2>1. Announcements(t)' = Announcements(t)
    BY <1>3 DEF Announcements
  <2> QED
    BY <1>2, <2>1
<1>4. ASSUME NEW w \in Workers, WorkerAnnounces(w),
             \A v \in Workers \ {w} : SentOf(job[v]) = {}, init.todo = <<>>
      PROVE  /\ \A p, q \in Announcements(t)' : p = q
             /\ Announcements(t)' # {} =>
                   /\ t \notin SentOf(job'["execute"])
                   /\ t \notin SentOf(job'["resend"])
                   /\ t \notin ToSet(init'.todo)
  <2>1. PICK trades \in Seq(Trades) :
           /\ events' = Announce(trades, "SUCCESS")
           /\ ToSet(trades) = SentOf(job[w])
           /\ Ascending(trades)
    BY <1>1, <1>4, WorkerParts DEF WorkerAnnounces
  <2>2. CASE t \notin SentOf(job[w])
    BY <1>1, <1>2, <2>1, <2>2, AnnouncementsAfter
  <2>3. CASE t \in SentOf(job[w])
    <3>1. Announcements(t) = {}
      BY <1>1, <2>3 DEF HeardSound, Workers
    <3>2. \A p, q \in Announcements(t)' : p = q
      BY <1>1, <2>1, <3>1, AnnouncementsAfter
    <3>3. \A v \in Workers : SentOf(job'[v]) = {}
      BY <1>4 DEF WorkerAnnounces
    <3>4. ToSet(init'.todo) = {}
      BY <1>4, EmptyLine DEF WorkerAnnounces
    <3> QED
      BY <1>1, <3>2, <3>3, <3>4
  <2> QED
    BY <2>2, <2>3
<1>5. CASE ExecuteDone /\ WorkerAnnounces("execute")
  <2>1. job["execute"].pc = "update"
    BY <1>5 DEF ExecuteDone, Updated
  <2>2. queue = <<>> /\ init.pc = "done"
    BY <1>1, <2>1 DEF LoadSound, Idle
  <2>3. job["resend"].pc = "idle" /\ init.todo = <<>>
    BY <1>1, <2>2 DEF ResendSound, InitSound
  <2>4. SentOf(job["resend"]) = {}
    BY <1>1, <2>3, SentOnDag
  <2> QED
    BY <1>1, <1>4, <1>5, <2>3, <2>4 DEF Workers
<1>6. CASE (ResendPart \/ ResendAll) /\ WorkerAnnounces("resend")
  <2>1. job["resend"].pc = "update"
    BY <1>6 DEF WorkerAnnounces, Updated
  <2>2. queue # <<>> /\ retryLock
    BY <1>1, <2>1 DEF ResendSound
  <2>3. init.todo = <<>>
    BY <1>1, <2>2 DEF InitSound
  <2>4. job["execute"].pc \in {"idle", "wait"}
    BY <1>1, <2>2, JobType1 DEF LoadSound, JobType
  <2>5. SentOf(job["execute"]) = {}
    BY <1>1, <2>4, SentOnDag
  <2> QED
    BY <1>1, <1>4, <1>6, <2>3, <2>5 DEF Workers
<1>7. CASE InitAnnounce
  <2>1. PICK h \in Trades :
           /\ h = Head(init.todo)
           /\ init.todo # <<>>
           /\ <<h>> \in Seq(Trades)
           /\ ToSet(<<h>>) = {h}
           /\ Ascending(<<h>>)
           /\ events' = Announce(<<h>>, "PENDING")
           /\ init'.todo = Tail(init.todo)
           /\ UNCHANGED job
    BY <1>7, InitTells
  <2>2. CASE t # h
    <3>1. Announcements(t)' = Announcements(t)
      BY <1>1, <2>1, <2>2, AnnouncementsAfter
    <3> QED
      BY <1>2, <3>1
  <2>3. CASE t = h
    <3>1. h \in ToSet(init.todo)
      BY <1>1, <2>1, TailFacts
    <3>2. Announcements(t) = {}
      BY <2>3, <3>1 DEF HeardSound
    <3>3. \A p, q \in Announcements(t)' : p = q
      BY <1>1, <2>1, <3>2, AnnouncementsAfter
    <3>4. h \notin ToSet(init'.todo)
      <4>1. Ascending(init.todo)
        BY <1>1 DEF LineSound, Line
      <4>2. Older({h}, ToSet(Tail(init.todo)))
        BY <1>1, <2>1, <4>1, AscendingTail
      <4>3. ~(h < h)
        BY TradeNumbers
      <4> QED
        BY <2>1, <4>2, <4>3 DEF Older
    <3>5. SentOf(job["execute"]) = {} /\ SentOf(job["resend"]) = {}
      <4>1. init.pc # "done"
        BY <1>7 DEF InitAnnounce
      <4>2. job["execute"].pc \in {"idle", "wait"} /\ job["resend"].pc = "idle"
        BY <1>1, <4>1 DEF InitSound, ResendSound
      <4> QED
        BY <1>1, <4>2, SentOnDag
    <3> QED
      BY <2>1, <2>3, <3>3, <3>4, <3>5
  <2> QED
    BY <2>2, <2>3
<1> QED
  BY WhoTells, <1>3, <1>5, <1>6, <1>7

\* Without a crash nothing was sent before the queue was loaded, and what was
\* sent since then was announced or is going to be.
NoCrashSound ==
    crashes = 0 =>
        /\ init.pc # "announce"
        /\ init.pc # "done" => units = <<>>
        /\ \A t \in Trades : \A p \in Announcements(t) : events[p[1]][p[2]].status = "SUCCESS"
        /\ \A t \in ToSet(units) :
              Announcements(t) # {} \/ t \in SentOf(job["execute"]) \cup SentOf(job["resend"])

\* Crashes are counted.
LEMMA WhoCrashes ==
    ASSUME TypeOK, [Next]_vars
    PROVE  (UNCHANGED crashes /\ ~Crash) \/ crashes' # 0
<1>1. crashes \in Nat
  BY BatchesAssumption DEF TypeOK
<1>2. Crash => crashes' # 0
  BY <1>1 DEF Crash
<1>3. CASE UNCHANGED vars
  BY <1>2, <1>3 DEF vars
<1>4. ASSUME NEW w \in Workers, Work(w)
      PROVE  UNCHANGED crashes
  BY <1>4 DEF Work, SendOne, SendFailsLater, UpdateOne
<1>5. Execute => UNCHANGED crashes
  BY DEF Execute, TakeCall, ExecuteBehindQueue, ExecuteNow, ExecuteNothing, ExecuteDone
<1>6. Resend => UNCHANGED crashes
  BY DEF Resend, NextRetry, ResendNothing, ResendPart, ResendAll
<1>7. Initialize => UNCHANGED crashes
  BY DEF Initialize, InitLoad, InitQueue, InitAlreadySent, InitAnnounce, InitDone
<1>8. BackendCreate \/ BackendCall \/ BecameStable \/ WithdrawalToOperator \/ Restart
         => UNCHANGED crashes
  BY DEF BackendCreate, BackendCall, BecameStable, WithdrawalToOperator, Restart
<1> QED
  BY <1>2, <1>3, <1>4, <1>5, <1>6, <1>7, <1>8 DEF Next

LEMMA NoCrashStep ==
    ASSUME IInv, NoCrashSound, [Next]_vars
    PROVE  NoCrashSound'
<1> SUFFICES ASSUME crashes' = 0
             PROVE  /\ init'.pc # "announce"
                    /\ init'.pc # "done" => units' = <<>>
                    /\ \A t \in Trades : \A p \in Announcements(t)' :
                          events'[p[1]][p[2]].status = "SUCCESS"
                    /\ \A t \in ToSet(units') :
                          \/ Announcements(t)' # {}
                          \/ t \in SentOf(job'["execute"]) \cup SentOf(job'["resend"])
  BY DEF NoCrashSound
<1>1. /\ TypeOK /\ InitSound /\ ResendSound
      /\ units \in Seq(Trades)
      /\ init \in InitType
      /\ job \in [Workers -> JobType]
      /\ "execute" \in Workers /\ "resend" \in Workers
  BY LineTypes DEF IInv
<1>2. crashes = 0 /\ ~Crash
  BY <1>1, WhoCrashes
<1>3. /\ init.pc # "announce"
      /\ init.pc # "done" => units = <<>>
      /\ \A t \in Trades : \A p \in Announcements(t) : events[p[1]][p[2]].status = "SUCCESS"
      /\ \A t \in ToSet(units) :
            Announcements(t) # {} \/ t \in SentOf(job["execute"]) \cup SentOf(job["resend"])
  BY <1>2 DEF NoCrashSound
<1>4. ~InitAnnounce
  BY <1>3 DEF InitAnnounce
<1>5. ~InitAlreadySent
  <2> SUFFICES ASSUME InitAlreadySent PROVE FALSE
    OBVIOUS
  <2>1. init.pc = "check"
    BY DEF InitAlreadySent
  <2>2. units = <<>> /\ DOMAIN units = {}
    BY <1>3, <2>1, EmptySeq
  <2> QED
    BY <2>2 DEF InitAlreadySent, UnitsOf
<1>6. init'.pc # "announce"
  <2>1. InitLoad => init'.pc = "check"
    BY DEF InitLoad
  <2>2. InitQueue => init'.pc = "check"
    BY <1>1 DEF InitQueue, InitType
  <2>3. InitDone => init'.pc = "done"
    BY <1>1 DEF InitDone, InitType
  <2> QED
    BY <1>2, <1>3, <1>4, <1>5, <2>1, <2>2, <2>3, WhoInitializes
<1>7. init'.pc # "done" => init.pc # "done"
  BY <1>1, <1>2, WhoInitializes, WhenLoaded
<1>8. ASSUME NEW w \in Workers, SendOne(w)
      PROVE  init.pc = "done"
  <2>1. job[w].pc = "send"
    BY <1>8 DEF SendOne
  <2>2. w = "execute" => init.pc = "done"
    BY <1>1, <2>1 DEF InitSound
  <2>3. w = "resend" => init.pc = "done"
    BY <1>1, <2>1 DEF InitSound, ResendSound
  <2> QED
    BY <2>2, <2>3 DEF Workers
<1>9. init'.pc # "done" => units' = <<>>
  BY <1>3, <1>7, <1>8, WhoPosts
<1>10. UNCHANGED events \/ \E w \in Workers : WorkerAnnounces(w)
  BY <1>1, <1>4, WhoTells
<1>11. \A t \in Trades : \A p \in Announcements(t)' : events'[p[1]][p[2]].status = "SUCCESS"
  <2> TAKE t \in Trades
  <2>1. CASE UNCHANGED events
    <3>1. Announcements(t)' = Announcements(t)
      BY <2>1 DEF Announcements
    <3> QED
      BY <1>3, <2>1, <3>1
  <2>2. ASSUME NEW w \in Workers, WorkerAnnounces(w)
        PROVE  \A p \in Announcements(t)' : events'[p[1]][p[2]].status = "SUCCESS"
    <3>1. PICK trades \in Seq(Trades) : events' = Announce(trades, "SUCCESS")
      BY <2>2, UpdatedSettled DEF WorkerAnnounces
    <3>2. \A p \in Announcements(t)' :
             \/ events'[p[1]][p[2]].status = "SUCCESS"
             \/ /\ p \in Announcements(t)
                /\ events'[p[1]][p[2]].status = events[p[1]][p[2]].status
      BY <1>1, <3>1, AnnouncementsAfter
    <3> QED
      BY <1>3, <3>2
  <2> QED
    BY <1>10, <2>1, <2>2
<1>12. \A t : Announcements(t) # {} => Announcements(t)' # {}
  <2> TAKE t
  <2>1. CASE UNCHANGED events
    BY <2>1 DEF Announcements
  <2>2. ASSUME NEW w \in Workers, WorkerAnnounces(w)
        PROVE  Announcements(t) \subseteq Announcements(t)'
    <3>1. PICK trades \in Seq(Trades) : events' = Announce(trades, "SUCCESS")
      BY <2>2, UpdatedSettled DEF WorkerAnnounces
    <3> QED
      BY <1>1, <3>1, AnnouncementsAfter
  <2> QED
    BY <1>10, <2>1, <2>2
<1>13. \A t \in ToSet(units') :
          \/ Announcements(t)' # {}
          \/ t \in SentOf(job'["execute"]) \cup SentOf(job'["resend"])
  <2>1. ASSUME NEW w \in Workers, SendOne(w)
        PROVE  \A t \in ToSet(units') :
                  \/ Announcements(t)' # {}
                  \/ t \in SentOf(job'["execute"]) \cup SentOf(job'["resend"])
    <3>1. PICK x : x = job[w].matches[Len(job[w].sent) + 1]
      OBVIOUS
    <3>2. x \in Trades /\ units' = Append(units, x)
      BY <1>1, <2>1, <3>1, SendTarget DEF IInv
    <3>3. ToSet(units') = ToSet(units) \cup {x}
      BY <1>1, <3>2, AppendFacts
    <3>4. /\ SentOf(job'[w]) = SentOf(job[w]) \cup {x}
          /\ \A v \in Workers \ {w} : job'[v] = job[v]
      BY <2>1, <3>1, SendAdds
    <3>5. /\ SentOf(job["execute"]) \subseteq SentOf(job'["execute"])
          /\ SentOf(job["resend"]) \subseteq SentOf(job'["resend"])
          /\ x \in SentOf(job'["execute"]) \cup SentOf(job'["resend"])
      BY <1>1, <3>4 DEF Workers
    <3> QED
      BY <1>3, <1>12, <3>3, <3>5
  <2>2. CASE \A w \in Workers : ~SendOne(w)
    <3>1. units' = units
      BY <2>2, WhoPosts
    <3>2. ASSUME NEW w \in Workers, NEW t \in SentOf(job[w])
          PROVE  Announcements(t)' # {} \/ t \in SentOf(job'[w])
      <4>1. CASE SentOf(job'[w]) = SentOf(job[w])
        BY <4>1
      <4>2. CASE WorkerAnnounces(w)
        <5>1. PICK trades \in Seq(Trades) :
                 events' = Announce(trades, "SUCCESS") /\ ToSet(trades) = SentOf(job[w])
          BY <4>2, UpdatedSettled DEF WorkerAnnounces
        <5> QED
          BY <1>1, <5>1, AnnouncementsAfter
      <4> QED
        BY <1>2, <2>2, <4>1, <4>2, SentUntilAnnounced
    <3> QED
      BY <1>1, <1>3, <1>12, <3>1, <3>2
  <2> QED
    BY <2>1, <2>2
<1> QED
  BY <1>6, <1>9, <1>11, <1>13

LEMMA NothingHeard ==
    ASSUME Init
    PROVE  HeardSettled /\ HeardSound /\ NoCrashSound
<1>1. events = <<>> /\ units = <<>> /\ init.pc = "load" /\ DOMAIN <<>> = {} /\ ToSet(<<>>) = {}
  BY EmptyLine, EmptySeq DEF Init
<1>2. \A t : Announcements(t) = {}
  BY <1>1 DEF Announcements
<1> QED
  BY <1>1, <1>2 DEF HeardSettled, HeardSound, NoCrashSound

-----------------------------------------------------------------------------
(* The theorems *)

\* Type correctness of the trade queue (trade_queue.js), for any batches.
THEOREM TypeCorrect ==
    Spec => []TypeOK
<1>1. IInv => TypeOK
  BY DEF IInv
<1> QED
  BY <1>1, Inductive, PTL

\* Whatever is sent, fails or crashes, a trade that the database calls sent is
\* on the DAG in the unit that the database names (updateTrades, initQueue).
THEOREM SettledOnDag ==
    Spec => []SuccessIsOnDag
<1>1. IInv => SuccessIsOnDag
  BY DEF IInv
<1> QED
  BY <1>1, Inductive, PTL

\* No pending trade is forgotten by a running wallet, whichever part of its
\* batch failed and wherever it crashed (executeTrade, resendQueuedTrades,
\* initQueue).
THEOREM NothingLost ==
    Spec => []NoLostTrade
<1>1. IInv => NoLostTrade
  <2> SUFFICES ASSUME IInv, Initialized, NEW t \in Trades, status[t] = "PENDING"
               PROVE  Tracked(t)
    BY DEF NoLostTrade
  <2>1. Tracked(t) \/ t \in ToSet(init.todo)
    BY DEF IInv, NoneForgotten, Initialized
  <2>2. init.todo = <<>>
    BY DEF IInv, InitSound, Initialized
  <2> QED
    BY <2>1, <2>2 DEF ToSet
<1> QED
  BY <1>1, Inductive, PTL
-----------------------------------------------------------------------------

\* With a backend that calls a ready wallet only, what is posted to the DAG is
\* always the sequence of the matched trades up to some point, across queued
\* batches, partly failed batches, crashes and restarts (executeTrade,
\* resendQueuedTrades, initQueue).
THEOREM DeliveryImplemented ==
    Patient => (Spec => ImplementsDelivery)
<1> SUFFICES ASSUME Patient PROVE Spec => Sends!Spec
  BY DEF ImplementsDelivery
<1>1. Init => Sends!Init /\ DeliveredInOrder
  BY NothingDelivered
<1>2. IInv /\ OrderInv /\ DeliveredInOrder /\ [Next]_vars
         => [Sends!Next]_(Sends!vars) /\ DeliveredInOrder'
  BY DeliveryStep
<1> QED
  BY <1>1, <1>2, Inductive, Ordered, PTL DEF Spec, Sends!Spec

\* Peers hear of every trade that was sent as soon as both workers are idle,
\* unless the process crashes: whatever part of a batch was sent is announced
\* (executeTrade, resendQueuedTrades).
THEOREM Announced ==
    Spec => []AllAnnounced
<1>1. Init => NoCrashSound
  BY NothingHeard
<1>2. IInv /\ NoCrashSound /\ [Next]_vars => NoCrashSound'
  BY NoCrashStep
<1>3. IInv /\ NoCrashSound => AllAnnounced
  <2> SUFFICES ASSUME IInv, NoCrashSound, crashes = 0,
                      \A w \in Workers : job[w].pc \in {"idle", "wait"},
                      NEW t \in ToSet(units)
               PROVE  Announcements(t) # {}
    BY DEF AllAnnounced
  <2>1. SentOf(job["execute"]) = {} /\ SentOf(job["resend"]) = {}
    BY SentOnDag DEF Workers
  <2> QED
    BY <2>1 DEF NoCrashSound
<1> QED
  BY <1>1, <1>2, <1>3, Inductive, PTL DEF Spec

\* Peers hear of a trade at most once, and only after it was sent; without a
\* crash they never hear of it as PENDING.  At most once needs the order in
\* which trades are sent, and so a backend that calls a ready wallet only.
THEOREM AnnouncedOnce ==
    Patient => (Spec => []AnnouncedOnceAfterSending)
<1> SUFFICES ASSUME Patient PROVE Spec => []AnnouncedOnceAfterSending
  OBVIOUS
<1>1. Init => HeardSettled /\ HeardSound /\ NoCrashSound
  BY NothingHeard
<1>2. IInv /\ OrderInv /\ HeardSettled /\ HeardSound /\ NoCrashSound /\ [Next]_vars
         => HeardSettled' /\ HeardSound' /\ NoCrashSound'
  BY HeardSettledStep, HeardSoundStep, NoCrashStep
<1>3. IInv /\ HeardSettled /\ HeardSound /\ NoCrashSound => AnnouncedOnceAfterSending
  <2> SUFFICES ASSUME IInv, HeardSettled, HeardSound, NoCrashSound, NEW t \in Trades
               PROVE  /\ \A p, q \in Announcements(t) : p = q
                      /\ Announcements(t) # {} => t \in ToSet(units)
                      /\ crashes = 0 =>
                            \A p \in Announcements(t) : events[p[1]][p[2]].status = "SUCCESS"
    BY DEF AnnouncedOnceAfterSending
  <2>1. \A p, q \in Announcements(t) : p = q
    BY DEF HeardSound
  <2>2. ASSUME Announcements(t) # {}
        PROVE  t \in ToSet(units)
    <3>1. status[t] = "SUCCESS"
      BY <2>2 DEF HeardSettled
    <3>2. txHash[t] \in DOMAIN units /\ units[txHash[t]] = t
      BY <3>1 DEF IInv, SuccessIsOnDag
    <3> QED
      BY <3>2 DEF ToSet
  <2>3. crashes = 0 => \A p \in Announcements(t) : events[p[1]][p[2]].status = "SUCCESS"
    BY DEF NoCrashSound
  <2> QED
    BY <2>1, <2>2, <2>3
<1> QED
  BY <1>1, <1>2, <1>3, Inductive, Ordered, PTL DEF Spec

\* With a backend that calls a ready wallet only, no trade is sent twice.
THEOREM SentOnce ==
    Patient => (Spec => []NoDuplicateSend)
<1> SUFFICES ASSUME Patient PROVE Spec => []NoDuplicateSend
  OBVIOUS
<1>1. IInv /\ OrderInv => NoDuplicateSend
  <2> SUFFICES ASSUME IInv, OrderInv, NEW i \in DOMAIN units, NEW k \in DOMAIN units,
                      units[i] = units[k]
               PROVE  i = k
    BY DEF NoDuplicateSend, IsInjective
  <2>1. units \in Seq(Trades)
    BY LineTypes DEF IInv
  <2>2. /\ i \in 1..Len(units) /\ k \in 1..Len(units)
        /\ units[i] \in Nat
    <3>1. DOMAIN units = 1..Len(units)
      BY <2>1, LenProperties
    <3>2. units[i] \in Trades
      BY <2>1, <3>1, ElementOfSeq
    <3> QED
      BY <3>1, <3>2, TradeNumbers
  <2>3. ~(i < k) /\ ~(k < i)
    BY <2>2 DEF OrderInv, UnitsSound, Ascending
  <2> QED
    BY <2>2, <2>3
<1> QED
  BY <1>1, Inductive, Ordered, PTL
=============================================================================
