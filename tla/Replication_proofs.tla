------------------------- MODULE Replication_proofs -------------------------
(***************************************************************************)
(* Safety of the replication for any matchers, connections and events, any *)
(* number of crashes and lost connections: every event is stored once,     *)
(* after its predecessor, applied in the order of its chain, and never     *)
(* known to others before its origin has it.                               *)
(***************************************************************************)
EXTENDS Replication, SequenceTheorems, FiniteSetTheorems, TLAPS

Created == 1..Len(created)

\* The events that their origin has stored
Published == {h \in Created : h \in Stored(Origin(h))}

-----------------------------------------------------------------------------
(* The inductive invariant *)

\* Every chain runs backwards through the events of one origin.
ChainSound ==
    \A h \in Created :
        /\ Origin(h) \in Nodes
        /\ Prev(h) \in 0..(h - 1)
        /\ Prev(h) # 0 => Origin(Prev(h)) = Origin(h)

\* What a node has in memory of its own chain
OwnSound ==
    \A n \in Nodes :
        /\ prevHash[n] # 0 => Origin(prevHash[n]) = n
        /\ \A h \in signing[n] : Origin(h) = n /\ h \notin Stored(n)

\* A node handles nothing while it is down, and nothing before its first start.
DownSound ==
    \A n \in Nodes :
        /\ ~up[n] => /\ lock[n] = Unlocked /\ stage[n] = Unstarted
                     /\ signing[n] = {} /\ resumed[n] = {}
        /\ since[n] = 0 => ~up[n] /\ events[n] = <<>> /\ applied[n] = <<>>

\* What the call with the lock has found out stays true while other handlers run.
StageSound ==
    \A n \in Nodes, h \in Events :
        /\ lock[n][h] = <<>> => stage[n][h] = "check"
        /\ stage[n][h] \in {"park", "apply", "store"} => ~Ignored(n, h)
        /\ stage[n][h] = "park" => Prev(h) # 0
        /\ stage[n][h] \in {"apply", "store"} /\ h >= since[n] => PrevKnown(n, h)
        /\ stage[n][h] = "store" /\ <<n, h>> \notin Bad => h \in ToSet(applied[n])

\* What is stored has been applied, what is parked has a predecessor.
StoredSound ==
    \A n \in Nodes :
        /\ \A h \in Stored(n) : Origin(h) # n /\ <<n, h>> \notin Bad => h \in ToSet(applied[n])
        /\ \A h \in unhandled[n] : Prev(h) # 0

\* Whatever another node stores, parks, handles or sends is stored at its origin.
KnownSound ==
    \A n \in Nodes :
        /\ Stored(n) \subseteq Published
        /\ unhandled[n] \subseteq Published
        /\ \A h \in Events : lock[n][h] # <<>> => h \in Published
        /\ \A r \in resumed[n] : r.event \in Published

SoundMessages ==
    [type : {"event", "last", "reply"}, about : SUBSET Published]
        \cup [type : {"get"}, about : SUBSET Events]

ChanSound == chan \in [Nodes \X Nodes -> Seq(SoundMessages)]

\* Where a node has applied an event
Places(n, h) == {i \in DOMAIN applied[n] : applied[n][i] = h}

\* An event is applied once more than it is stored only by a crash in between.
ReapplyBound ==
    \A n \in Nodes, h \in Events :
        Cardinality(Places(n, h)) <=
            IF h \in Stored(n) \/ stage[n][h] = "store" THEN 1 + crashes ELSE crashes

IInv ==
    /\ TypeOK /\ ChainSound /\ OwnSound /\ DownSound /\ StageSound /\ StoredSound
    /\ KnownSound /\ ChanSound
    /\ StoredOnce /\ StoredInOrder /\ AppliedInOrder /\ ReapplyBound

-----------------------------------------------------------------------------
(* Updates of the variables, point by point *)

LEMMA SeqSet ==
    ASSUME NEW S, NEW s \in Seq(S)
    PROVE  /\ Len(s) \in Nat /\ DOMAIN s = 1..Len(s)
           /\ ToSet(s) \subseteq S
           /\ \A x : x \in ToSet(s) <=> \E i \in 1..Len(s) : s[i] = x
  BY LenProperties DEF ToSet

LEMMA AppendSet ==
    ASSUME NEW S, NEW s \in Seq(S), NEW e \in S
    PROVE  /\ Append(s, e) \in Seq(S)
           /\ Len(Append(s, e)) = Len(s) + 1
           /\ DOMAIN s = 1..Len(s) /\ DOMAIN Append(s, e) = 1..(Len(s) + 1)
           /\ \A i \in 1..Len(s) : Append(s, e)[i] = s[i]
           /\ Append(s, e)[Len(s) + 1] = e
           /\ ToSet(Append(s, e)) = ToSet(s) \cup {e}
<1>1. /\ Append(s, e) \in Seq(S)
      /\ Len(Append(s, e)) = Len(s) + 1
      /\ Len(s) \in Nat
      /\ \A i \in 1..Len(s) : Append(s, e)[i] = s[i]
      /\ Append(s, e)[Len(s) + 1] = e
  BY AppendProperties, LenProperties
<1>2. DOMAIN s = 1..Len(s) /\ DOMAIN Append(s, e) = 1..(Len(s) + 1)
  BY <1>1, SeqSet
<1>3. ToSet(Append(s, e)) = ToSet(s) \cup {e}
  BY <1>1, <1>2 DEF ToSet
<1> QED
  BY <1>1, <1>2, <1>3

\* A variable with a set, a sequence or a flag per node
LEMMA PerNode ==
    ASSUME NEW S, NEW f \in [Nodes -> S], NEW n \in Nodes, NEW v \in S
    PROVE  /\ [f EXCEPT ![n] = v] \in [Nodes -> S]
           /\ [f EXCEPT ![n] = v][n] = v
           /\ \A m \in Nodes \ {n} : [f EXCEPT ![n] = v][m] = f[m]
  OBVIOUS

\* A variable with a value per node and event
LEMMA PerEvent ==
    ASSUME NEW S, NEW f \in [Nodes -> [Events -> S]], NEW n \in Nodes, NEW h \in Events,
           NEW v \in S
    PROVE  /\ [f EXCEPT ![n][h] = v] \in [Nodes -> [Events -> S]]
           /\ [f EXCEPT ![n][h] = v][n][h] = v
           /\ \A m \in Nodes, k \in Events :
                 m # n \/ k # h => [f EXCEPT ![n][h] = v][m][k] = f[m][k]
  OBVIOUS

LEMMA EventsNat == Len(Kind) \in Nat /\ Events = 1..Len(Kind)
  BY ReplicationAssumption DEF Events

LEMMA BoundsNat == MaxDrops \in Nat /\ MaxCrashes \in Nat
  BY ReplicationAssumption

\* The stage and the lock while the call with the lock on h goes on
LEMMA FinishDoes ==
    ASSUME TypeOK, NEW n \in Nodes, NEW h \in Events, lock[n][h] # <<>>, Finish(n, h)
    PROVE  /\ lock' \in [Nodes -> [Events -> Seq(Calls)]]
           /\ stage' \in [Nodes -> [Events -> {"check", "park", "apply", "store", "next"}]]
           /\ stage'[n][h] = "check"
           /\ \A m \in Nodes, k \in Events :
                 m # n \/ k # h => lock'[m][k] = lock[m][k] /\ stage'[m][k] = stage[m][k]
<1>1. lock \in [Nodes -> [Events -> Seq(Calls)]]
  BY DEF TypeOK
<1>2. Tail(lock[n][h]) \in Seq(Calls)
  BY <1>1, HeadTailProperties
<1>3. lock' = [lock EXCEPT ![n][h] = Tail(lock[n][h])]
  BY <1>1 DEF Finish
<1>4. stage \in [Nodes -> [Events -> {"check", "park", "apply", "store", "next"}]]
  BY DEF TypeOK
<1>5. stage' = [stage EXCEPT ![n][h] = "check"]
  BY DEF Finish
<1>6. /\ lock' \in [Nodes -> [Events -> Seq(Calls)]]
      /\ \A m \in Nodes, k \in Events : m # n \/ k # h => lock'[m][k] = lock[m][k]
  BY <1>1, <1>2, <1>3, PerEvent
<1>7. /\ stage' \in [Nodes -> [Events -> {"check", "park", "apply", "store", "next"}]]
      /\ stage'[n][h] = "check"
      /\ \A m \in Nodes, k \in Events : m # n \/ k # h => stage'[m][k] = stage[m][k]
  BY <1>4, <1>5
<1> QED
  BY <1>6, <1>7

LEMMA HandleDoes ==
    ASSUME TypeOK, NEW n \in Nodes, NEW h \in Events, NEW c \in Calls, Handle(n, h, c)
    PROVE  /\ lock' \in [Nodes -> [Events -> Seq(Calls)]]
           /\ lock'[n][h] # <<>>
           /\ \A m \in Nodes, k \in Events : m # n \/ k # h => lock'[m][k] = lock[m][k]
<1>1. lock \in [Nodes -> [Events -> Seq(Calls)]]
  BY DEF TypeOK
<1>2. Append(lock[n][h], c) \in Seq(Calls) /\ Append(lock[n][h], c) # <<>>
  BY <1>1, AppendProperties
<1>3. lock' = [lock EXCEPT ![n][h] = Append(lock[n][h], c)]
  BY <1>1 DEF Handle
<1> QED
  BY <1>1, <1>2, <1>3, PerEvent

\* Closed connections take nothing from the lock but the connections.
LEMMA DetachedDoes ==
    ASSUME TypeOK, NEW lost
    PROVE  /\ Detached(lost) \in [Nodes -> [Events -> Seq(Calls)]]
           /\ \A n \in Nodes, h \in Events : (Detached(lost)[n][h] = <<>>) <=> (lock[n][h] = <<>>)
           /\ DetachedResumed(lost) \in
                 [Nodes -> SUBSET [event : 1..Len(created), peer : SUBSET Nodes]]
           /\ \A n \in Nodes : \A r \in DetachedResumed(lost)[n] :
                 \E s \in resumed[n] : s.event = r.event
           /\ \A n \in Nodes : resumed[n] = {} => DetachedResumed(lost)[n] = {}
<1> DEFINE new(n, h) == [i \in 1..Len(lock[n][h]) |->
                Call(lock[n][h][i].via, Without(n, lock[n][h][i].peer, lost))]
<1>1. ASSUME NEW n \in Nodes, NEW h \in Events
      PROVE  /\ new(n, h) \in Seq(Calls)
             /\ (new(n, h) = <<>>) <=> (lock[n][h] = <<>>)
  <2>1. lock[n][h] \in Seq(Calls)
    BY DEF TypeOK
  <2>2. Len(lock[n][h]) \in Nat
    BY <2>1, LenProperties
  <2>3. \A i \in 1..Len(lock[n][h]) : lock[n][h][i] \in Calls
    BY <2>1, ElementOfSeq
  <2>4. \A i \in 1..Len(lock[n][h]) :
           Call(lock[n][h][i].via, Without(n, lock[n][h][i].peer, lost)) \in Calls
    BY <2>3 DEF Calls, Call, Without
  <2>5. new(n, h) \in Seq(Calls)
    BY <2>2, <2>4
  <2>6. Len(new(n, h)) = Len(lock[n][h])
    BY <2>2, <2>5, LenProperties
  <2> HIDE DEF new
  <2> QED
    BY <2>1, <2>5, <2>6, EmptySeq, LenProperties
<1>2. Detached(lost) = [n \in Nodes |-> [h \in Events |-> new(n, h)]]
  BY DEF Detached
<1>3. \A n \in Nodes : resumed[n] \subseteq [event : 1..Len(created), peer : SUBSET Nodes]
  BY DEF TypeOK
<1>4. ASSUME NEW n \in Nodes
      PROVE  /\ DetachedResumed(lost)[n] =
                  {[r EXCEPT !.peer = Without(n, r.peer, lost)] : r \in resumed[n]}
             /\ \A r \in resumed[n] : Without(n, r.peer, lost) \in SUBSET Nodes
  BY <1>3 DEF DetachedResumed, Without
<1>5. ASSUME NEW n \in Nodes, NEW r \in DetachedResumed(lost)[n]
      PROVE  /\ r \in [event : 1..Len(created), peer : SUBSET Nodes]
             /\ \E s \in resumed[n] : s.event = r.event
  <2>1. PICK s \in resumed[n] : r = [s EXCEPT !.peer = Without(n, s.peer, lost)]
    BY <1>4
  <2>2. s \in [event : 1..Len(created), peer : SUBSET Nodes]
    BY <1>3
  <2> QED
    BY <1>4, <2>1, <2>2
<1>6. /\ DOMAIN DetachedResumed(lost) = Nodes
      /\ DetachedResumed(lost) = [n \in Nodes |-> DetachedResumed(lost)[n]]
  BY DEF DetachedResumed
<1> HIDE DEF new
<1>7. \A n \in Nodes : resumed[n] = {} => DetachedResumed(lost)[n] = {}
  BY <1>4
<1>8. DetachedResumed(lost) \in [Nodes -> SUBSET [event : 1..Len(created), peer : SUBSET Nodes]]
  BY <1>5, <1>6
<1> QED
  BY <1>1, <1>2, <1>5, <1>7, <1>8

\* insertOne
LEMMA StoredDoes ==
    ASSUME TypeOK, NEW n \in Nodes, NEW h \in Created,
           events' = [events EXCEPT ![n] = Append(@, h)]
    PROVE  /\ events' \in [Nodes -> Seq(Created)]
           /\ events'[n] = Append(events[n], h)
           /\ Stored(n)' = Stored(n) \cup {h}
           /\ \A m \in Nodes \ {n} : events'[m] = events[m] /\ Stored(m)' = Stored(m)
<1>1. events \in [Nodes -> Seq(Created)]
  BY DEF TypeOK, Created
<1>2. /\ Append(events[n], h) \in Seq(Created)
      /\ ToSet(Append(events[n], h)) = ToSet(events[n]) \cup {h}
  BY <1>1, AppendSet
<1>3. events' = [events EXCEPT ![n] = Append(events[n], h)]
  BY <1>1
<1>4. /\ events' \in [Nodes -> Seq(Created)]
      /\ events'[n] = Append(events[n], h)
      /\ \A m \in Nodes \ {n} : events'[m] = events[m]
  BY <1>1, <1>2, <1>3
<1> QED
  BY <1>2, <1>4 DEF Stored

LEMMA CreateDoes ==
    ASSUME TypeOK, NEW n \in Nodes, Create(n)
    PROVE  /\ created' \in Seq([origin : Active, prev : {0} \cup Events])
           /\ Len(created) \in Nat /\ Len(created') = Len(created) + 1
           /\ Len(created') <= Len(Kind)
           /\ Created \subseteq Created'
           /\ \A h \in Created : Origin(h)' = Origin(h) /\ Prev(h)' = Prev(h)
           /\ created'[Len(created) + 1].origin = n
           /\ created'[Len(created) + 1].prev = prevHash[n]
<1> DEFINE e == [origin |-> n, prev |-> prevHash[n]]
           E == [origin : Active, prev : {0} \cup Events]
<1>1. created \in Seq(E) /\ Len(created) <= Len(Kind) /\ prevHash[n] \in 0..Len(created)
  BY DEF TypeOK
<1>2. Len(created) \in Nat
  BY <1>1, LenProperties
<1>3. n \in Active /\ Len(created) < Len(Kind) /\ created' = Append(created, e)
  BY DEF Create
<1>4. prevHash[n] \in {0} \cup Events
  BY <1>1, <1>2, EventsNat
<1>5. e \in E
  BY <1>3, <1>4
<1>6. e.origin = n /\ e.prev = prevHash[n]
  OBVIOUS
<1> HIDE DEF e, E
<1>7. /\ created' \in Seq(E)
      /\ Len(created') = Len(created) + 1
      /\ \A h \in 1..Len(created) : created'[h] = created[h]
      /\ created'[Len(created) + 1] = e
  BY <1>1, <1>2, <1>3, <1>5, AppendProperties
<1>8. \A h \in Created : Origin(h)' = Origin(h) /\ Prev(h)' = Prev(h)
  BY <1>7 DEF Created, Origin, Prev
<1>9. Created \subseteq Created' /\ Len(created') <= Len(Kind)
  BY <1>2, <1>3, <1>7, EventsNat DEF Created
<1> QED
  BY <1>2, <1>6, <1>7, <1>8, <1>9 DEF E

\* What start() finds in the collection is an event of the node's own chain.
LEMMA LastOwnDoes ==
    ASSUME TypeOK, NEW n \in Nodes
    PROVE  /\ LastOwn(n) \in 0..Len(created)
           /\ LastOwn(n) # 0 => Origin(LastOwn(n)) = n
<1> DEFINE own == {h \in LastEvents(n) : Origin(h) = n}
<1>1. own \subseteq Created
  BY SeqSet DEF LastEvents, Stored, TypeOK, Created
<1>2. LastOwn(n) = IF own = {} THEN 0 ELSE CHOOSE h \in own : TRUE
  BY DEF LastOwn
<1>3. Len(created) \in Nat
  BY LenProperties DEF TypeOK
<1>4. CASE own = {}
  BY <1>2, <1>3, <1>4
<1>5. CASE own # {}
  <2>1. LastOwn(n) \in own
    BY <1>2, <1>5
  <2> QED
    BY <1>1, <1>3, <2>1 DEF Created
<1> QED
  BY <1>4, <1>5

-----------------------------------------------------------------------------
(* Types *)

\* TypeOK, but for what follows from KnownSound and ChanSound
Types ==
    /\ created \in Seq([origin : Active, prev : {0} \cup Events])
    /\ Len(created) <= Len(Kind)
    /\ events \in [Nodes -> Seq(1..Len(created))]
    /\ unhandled \in [Nodes -> SUBSET (1..Len(created))]
    /\ since \in [Nodes -> Nat]
    /\ initialized \in [Nodes -> BOOLEAN]
    /\ applied \in [Nodes -> Seq(1..Len(created))]
    /\ up \in [Nodes -> BOOLEAN]
    /\ startup \in [Nodes -> {"init", "resolve", "done"}]
    /\ asking \in [Nodes -> SUBSET Nodes]
    /\ prevHash \in [Nodes -> 0..Len(created)]
    /\ signing \in [Nodes -> SUBSET (1..Len(created))]
    /\ lock \in [Nodes -> [Events -> Seq(Calls)]]
    /\ stage \in [Nodes -> [Events -> {"check", "park", "apply", "store", "next"}]]
    /\ resumed \in [Nodes -> SUBSET [event : 1..Len(created), peer : SUBSET Nodes]]
    /\ links \subseteq Wires
    /\ drops \in 0..MaxDrops
    /\ crashes \in 0..MaxCrashes

LEMMA TypeParts == TypeOK => Types
  BY DEF TypeOK, Types

LEMMA TypesComplete == Types /\ KnownSound /\ ChanSound => TypeOK
<1> SUFFICES ASSUME Types, KnownSound, ChanSound PROVE TypeOK
  OBVIOUS
<1>1. Len(created) \in Nat
  BY LenProperties DEF Types
<1>2. Published \subseteq Events
  BY <1>1, EventsNat DEF Types, Published, Created
<1>3. SoundMessages \subseteq Messages
  BY <1>2 DEF SoundMessages, Messages
<1>4. \A p \in Nodes \X Nodes : chan[p] \in Seq(Messages)
  BY <1>3, SeqMonotonic DEF ChanSound
<1>5. chan \in [Nodes \X Nodes -> Seq(Messages)]
  BY <1>4 DEF ChanSound
<1>6. \A n \in Nodes : \A h \in Events : lock[n][h] # <<>> => h <= Len(created)
  BY <1>1 DEF KnownSound, Published, Created
<1> QED
  BY <1>5, <1>6 DEF Types, TypeOK

\* Nothing that is known of the events is lost when one more is created.
LEMMA TypesGrow ==
    ASSUME TypeOK, NEW n \in Nodes, Create(n)
    PROVE  Types'
<1>1. /\ created' \in Seq([origin : Active, prev : {0} \cup Events])
      /\ Len(created) \in Nat /\ Len(created') = Len(created) + 1
      /\ Len(created') <= Len(Kind)
  BY CreateDoes
<1>2. 1..Len(created) \subseteq 1..Len(created') /\ 0..Len(created) \subseteq 0..Len(created')
  BY <1>1
<1>3. events' \in [Nodes -> Seq(1..Len(created'))] /\ applied' \in [Nodes -> Seq(1..Len(created'))]
  <2>1. UNCHANGED <<events, applied>>
    BY DEF Create, durable
  <2>2. \A s \in Seq(1..Len(created)) : s \in Seq(1..Len(created'))
    BY <1>2, SeqMonotonic
  <2> QED
    BY <2>1, <2>2 DEF TypeOK
<1>4. unhandled' \in [Nodes -> SUBSET (1..Len(created'))]
  BY <1>2 DEF TypeOK, Create, durable
<1>5. prevHash' \in [Nodes -> 0..Len(created')]
  BY <1>1, <1>2 DEF TypeOK, Create
<1>6. signing' \in [Nodes -> SUBSET (1..Len(created'))]
  BY <1>1, <1>2 DEF TypeOK, Create
<1>7. resumed' \in [Nodes -> SUBSET [event : 1..Len(created'), peer : SUBSET Nodes]]
  BY <1>2 DEF TypeOK, Create, handlers
<1>8. /\ since' \in [Nodes -> Nat] /\ initialized' \in [Nodes -> BOOLEAN]
      /\ up' \in [Nodes -> BOOLEAN]
      /\ startup' \in [Nodes -> {"init", "resolve", "done"}]
      /\ asking' \in [Nodes -> SUBSET Nodes]
  BY DEF TypeOK, Create, durable
<1>9. /\ lock' \in [Nodes -> [Events -> Seq(Calls)]]
      /\ stage' \in [Nodes -> [Events -> {"check", "park", "apply", "store", "next"}]]
      /\ links' \subseteq Wires /\ drops' \in 0..MaxDrops /\ crashes' \in 0..MaxCrashes
  BY DEF TypeOK, Create, handlers, network, bounds
<1> QED
  BY <1>1, <1>3, <1>4, <1>5, <1>6, <1>7, <1>8, <1>9 DEF Types

\* A call with the lock is about an event that has been created.
LEMMA AtDoes ==
    ASSUME TypeOK, NEW n \in Nodes, NEW h \in Events, NEW s, At(n, h, s)
    PROVE  h \in Created /\ up[n] /\ lock[n][h] # <<>> /\ stage[n][h] = s
  BY EventsNat DEF At, TypeOK, Created

LEMMA HeadCall ==
    ASSUME TypeOK, NEW n \in Nodes, NEW h \in Events, lock[n][h] # <<>>
    PROVE  Head(lock[n][h]) \in Calls /\ Head(lock[n][h]).peer \subseteq Nodes
<1>1. lock[n][h] \in Seq(Calls)
  BY DEF TypeOK
<1>2. Head(lock[n][h]) \in Calls
  BY <1>1, HeadTailProperties
<1> QED
  BY <1>2 DEF Calls

LEMMA TypesStep ==
    ASSUME TypeOK, [Step]_vars
    PROVE  Types'
<1>t. Types
  BY TypeParts
<1>1. ASSUME NEW n \in Nodes, Create(n) PROVE Types'
  BY <1>1, TypesGrow
<1>2. ASSUME NEW n \in Nodes, NEW h \in Events, Publish(n, h) PROVE Types'
  <2>1. h \in Created
    BY <1>2 DEF Publish, TypeOK, Created
  <2>2. events' \in [Nodes -> Seq(1..Len(created))]
    BY <1>2, <2>1, StoredDoes DEF Publish, Created
  <2>3. signing' \in [Nodes -> SUBSET (1..Len(created))]
    BY <1>2 DEF Publish, TypeOK
  <2> QED
    BY <1>t, <1>2, <2>2, <2>3 DEF Publish, Types, handlers, bounds
<1>3. ASSUME NEW n \in Nodes, NEW m \in Nodes, Connect(n, m) PROVE Types'
  BY <1>t, <1>3 DEF Connect, Types, durable, tasks, handlers, bounds
<1>4. ASSUME NEW n \in Nodes, NEW m \in Nodes, Disconnect(n, m) PROVE Types'
  <2>1. /\ lock' \in [Nodes -> [Events -> Seq(Calls)]]
        /\ resumed' \in [Nodes -> SUBSET [event : 1..Len(created), peer : SUBSET Nodes]]
    BY <1>4, DetachedDoes DEF Disconnect
  <2>2. links' \subseteq Wires
    BY <1>4, <1>t DEF Disconnect, Close, Types
  <2>3. drops' \in 0..MaxDrops
    BY <1>4, <1>t, BoundsNat DEF Disconnect, Types
  <2> QED
    BY <1>t, <1>4, <2>1, <2>2, <2>3 DEF Disconnect, Types, durable, tasks
<1>5. ASSUME NEW n \in Nodes, NEW m \in Nodes, ReceiveEvent(n, m) PROVE Types'
  <2>1. Call("push", {m}) \in Calls /\ Call("request", {m}) \in Calls
    BY DEF Call, Calls
  <2>2. lock' \in [Nodes -> [Events -> Seq(Calls)]]
    BY <1>5, <2>1, HandleDoes DEF ReceiveEvent
  <2> QED
    BY <1>t, <1>5, <2>2 DEF ReceiveEvent, Types, durable, tasks, bounds
<1>6. ASSUME NEW n \in Nodes, NEW m \in Nodes,
             ReceiveError(n, m) \/ ReceiveLast(n, m) \/ ReceiveGet(n, m)
      PROVE  Types'
  BY <1>t, <1>6 DEF ReceiveError, ReceiveLast, ReceiveGet, Types, durable, tasks, handlers, bounds
<1>7. ASSUME NEW n \in Nodes, NEW h \in Events, HandleEvent(n, h) PROVE Types'
  <2>1. CASE Ignore(n, h)
    BY <1>t, <2>1, AtDoes, FinishDoes DEF Ignore, Types, durable, tasks, network, bounds
  <2>2. CASE Check(n, h)
    <3>1. stage' \in [Nodes -> [Events -> {"check", "park", "apply", "store", "next"}]]
      BY <1>t, <2>2 DEF Check, Types
    <3> QED
      BY <1>t, <2>2, <3>1 DEF Check, Types, durable, tasks, network, bounds
  <2>3. CASE Park(n, h)
    <3>1. h \in 1..Len(created) /\ lock[n][h] # <<>>
      BY <2>3, AtDoes DEF Park, Created
    <3>2. unhandled' \in [Nodes -> SUBSET (1..Len(created))]
      BY <1>t, <2>3, <3>1 DEF Park, Types
    <3>3. /\ lock' \in [Nodes -> [Events -> Seq(Calls)]]
          /\ stage' \in [Nodes -> [Events -> {"check", "park", "apply", "store", "next"}]]
      BY <2>3, <3>1, FinishDoes DEF Park
    <3> QED
      BY <1>t, <2>3, <3>2, <3>3 DEF Park, Types, tasks, bounds
  <2>4. CASE Apply(n, h)
    <3>1. h \in 1..Len(created)
      BY <2>4, AtDoes DEF Apply, Created
    <3>2. Append(applied[n], h) \in Seq(1..Len(created))
      BY <1>t, <3>1, AppendSet DEF Types
    <3>3. applied' \in [Nodes -> Seq(1..Len(created))]
      BY <1>t, <2>4, <3>2 DEF Apply, Types
    <3>4. stage' \in [Nodes -> [Events -> {"check", "park", "apply", "store", "next"}]]
      BY <1>t, <2>4 DEF Apply, Types
    <3> QED
      BY <1>t, <2>4, <3>3, <3>4 DEF Apply, Types, tasks, network, bounds
  <2>5. CASE RejectCancel(n, h)
    BY <1>t, <2>5, AtDoes, FinishDoes DEF RejectCancel, Types, durable, tasks, network, bounds
  <2>6. CASE Store(n, h)
    <3>1. events' \in [Nodes -> Seq(1..Len(created))]
      BY <2>6, AtDoes, StoredDoes DEF Store, Created
    <3>2. stage' \in [Nodes -> [Events -> {"check", "park", "apply", "store", "next"}]]
      BY <1>t, <2>6 DEF Store, Types
    <3> QED
      BY <1>t, <2>6, <3>1, <3>2 DEF Store, Types, tasks, network, bounds
  <2>7. CASE Next(n, h)
    <3>1. lock[n][h] # <<>>
      BY <2>7, AtDoes DEF Next
    <3>2. /\ lock' \in [Nodes -> [Events -> Seq(Calls)]]
          /\ stage' \in [Nodes -> [Events -> {"check", "park", "apply", "store", "next"}]]
      BY <2>7, <3>1, FinishDoes DEF Next
    <3>3. \A k \in unhandled[n] : [event |-> k, peer |-> Head(lock[n][h]).peer]
                                    \in [event : 1..Len(created), peer : SUBSET Nodes]
      BY <1>t, <3>1, HeadCall DEF Types
    <3>4. resumed' \in [Nodes -> SUBSET [event : 1..Len(created), peer : SUBSET Nodes]]
      BY <1>t, <2>7, <3>3 DEF Next, Types
    <3> QED
      BY <1>t, <2>7, <3>2, <3>4 DEF Next, Types, durable, tasks, bounds
  <2> QED
    BY <1>7, <2>1, <2>2, <2>3, <2>4, <2>5, <2>6, <2>7 DEF HandleEvent
<1>8. ASSUME NEW n \in Nodes, NEW r \in resumed[n], Resume(n, r) PROVE Types'
  <2>1. r \in [event : 1..Len(created), peer : SUBSET Nodes]
    BY <1>t DEF Types
  <2>2. r.event \in Events
    BY <1>t, <2>1, EventsNat, LenProperties DEF Types
  <2>3. Call("next", r.peer) \in Calls
    BY <2>1 DEF Call, Calls
  <2>4. lock' \in [Nodes -> [Events -> Seq(Calls)]]
    BY <1>8, <2>2, <2>3, HandleDoes DEF Resume
  <2>5. resumed' \in [Nodes -> SUBSET [event : 1..Len(created), peer : SUBSET Nodes]]
    BY <1>8, <1>t DEF Resume, Types
  <2>6. unhandled' \in [Nodes -> SUBSET (1..Len(created))]
    BY <1>8, <1>t DEF Resume, Types
  <2> QED
    BY <1>t, <1>8, <2>4, <2>5, <2>6 DEF Resume, Types, tasks, network, bounds
<1>9. ASSUME NEW n \in Nodes, Crash(n) PROVE Types'
  <2> DEFINE lost == {{n, m} : m \in Peers(n)}
  <2>1. /\ Detached(lost) \in [Nodes -> [Events -> Seq(Calls)]]
        /\ DetachedResumed(lost) \in
              [Nodes -> SUBSET [event : 1..Len(created), peer : SUBSET Nodes]]
    BY DetachedDoes
  <2>2. /\ lock' = [Detached(lost) EXCEPT ![n] = Unlocked]
        /\ resumed' = [DetachedResumed(lost) EXCEPT ![n] = {}]
        /\ links' = links \ lost
    BY <1>9 DEF Crash, Close
  <2>3. Unlocked \in [Events -> Seq(Calls)] /\ Unstarted \in [Events -> {"check"}]
    BY DEF Unlocked, Unstarted
  <2> HIDE DEF lost
  <2>4. lock' \in [Nodes -> [Events -> Seq(Calls)]]
    BY <2>1, <2>2, <2>3
  <2>5. resumed' \in [Nodes -> SUBSET [event : 1..Len(created), peer : SUBSET Nodes]]
    BY <2>1, <2>2
  <2>6. stage' \in [Nodes -> [Events -> {"check", "park", "apply", "store", "next"}]]
    BY <1>t, <1>9, <2>3 DEF Crash, Types
  <2>7. links' \subseteq Wires
    BY <1>t, <2>2 DEF Types
  <2>8. /\ up' \in [Nodes -> BOOLEAN]
        /\ startup' \in [Nodes -> {"init", "resolve", "done"}]
        /\ asking' \in [Nodes -> SUBSET Nodes]
        /\ signing' \in [Nodes -> SUBSET (1..Len(created))]
    BY <1>t, <1>9 DEF Crash, Types
  <2>9. prevHash' \in [Nodes -> 0..Len(created)] /\ crashes' \in 0..MaxCrashes
    BY <1>t, <1>9, LenProperties, BoundsNat DEF Crash, Types
  <2> QED
    BY <1>t, <1>9, <2>4, <2>5, <2>6, <2>7, <2>8, <2>9 DEF Crash, Types, durable
<1>10. ASSUME NEW n \in Nodes, Start(n) PROVE Types'
  <2>1. LastOwn(n) \in 0..Len(created) /\ Len(created) + 1 \in Nat
    BY <1>t, LastOwnDoes, LenProperties DEF Types
  <2>2. up' \in [Nodes -> BOOLEAN] /\ startup' \in [Nodes -> {"init", "resolve", "done"}]
    BY <1>t, <1>10 DEF Start, Types
  <2>3. prevHash' \in [Nodes -> 0..Len(created)]
    BY <1>t, <1>10, <2>1 DEF Start, Types
  <2>4. since' \in [Nodes -> Nat]
    BY <1>t, <1>10, <2>1 DEF Start, Types
  <2> QED
    BY <1>t, <1>10, <2>2, <2>3, <2>4 DEF Start, Types, handlers, network, bounds
<1>11. ASSUME NEW n \in Nodes, InitFromPeers(n) PROVE Types'
  BY <1>t, <1>11 DEF InitFromPeers, Types, handlers, network, bounds
<1>12. ASSUME NEW n \in Nodes, RequestUnresolvedEventsFromAllPeers(n) PROVE Types'
  BY <1>t, <1>12
     DEF RequestUnresolvedEventsFromAllPeers, Peers, Types, durable, handlers, network, bounds
<1>13. ASSUME NEW n \in Nodes, NEW m \in Nodes, RequestUnresolvedEvents(n, m) PROVE Types'
  BY <1>t, <1>13 DEF RequestUnresolvedEvents, Types, durable, handlers, bounds
<1>14. CASE UNCHANGED vars
  BY <1>t, <1>14 DEF vars, Types, durable, tasks, handlers, network, bounds
<1> QED
  BY <1>1, <1>2, <1>3, <1>4, <1>5, <1>6, <1>7, <1>8, <1>9, <1>10, <1>11, <1>12, <1>13, <1>14
     DEF Step, Advance, ApplyThrows, Receive

-----------------------------------------------------------------------------
(* What is known only grows *)

\* The steps by what they are about: the events, the handlers, or the network only
LEMMA Steps ==
    ASSUME [Step]_vars
    PROVE  \/ \E n \in Nodes : Create(n) \/ Crash(n) \/ Start(n)
           \/ \E n \in Nodes, h \in Events : Publish(n, h) \/ HandleEvent(n, h)
           \/ \E n \in Nodes : \E r \in resumed[n] : Resume(n, r)
           \/ \E n, m \in Nodes : Disconnect(n, m) \/ ReceiveEvent(n, m)
           \/ UNCHANGED <<created, events, unhandled, since, applied, up, prevHash, signing,
                          handlers, crashes>>
<1>1. ASSUME NEW n \in Nodes, NEW m \in Nodes,
             \/ Connect(n, m) \/ ReceiveError(n, m) \/ ReceiveLast(n, m) \/ ReceiveGet(n, m)
             \/ RequestUnresolvedEvents(n, m) \/ InitFromPeers(n)
             \/ RequestUnresolvedEventsFromAllPeers(n)
      PROVE  UNCHANGED <<created, events, unhandled, since, applied, up, prevHash, signing,
                         handlers, crashes>>
  BY <1>1 DEF Connect, ReceiveError, ReceiveLast, ReceiveGet, RequestUnresolvedEvents,
              InitFromPeers, RequestUnresolvedEventsFromAllPeers, durable, tasks, bounds
<1>2. UNCHANGED vars => UNCHANGED <<created, events, unhandled, since, applied, up, prevHash,
                                   signing, handlers, crashes>>
  BY DEF vars, durable, tasks, bounds
<1> QED
  BY <1>1, <1>2 DEF Step, Advance, ApplyThrows, Receive

LEMMA WhoStores ==
    ASSUME [Step]_vars
    PROVE  \/ UNCHANGED <<created, events>>
           \/ \E n \in Nodes : Create(n)
           \/ \E n \in Nodes, h \in Events : Publish(n, h)
           \/ \E n \in Nodes, h \in Events : Store(n, h)
<1>1. ASSUME NEW n \in Nodes, NEW h \in Events, HandleEvent(n, h)
      PROVE  UNCHANGED <<created, events>> \/ Store(n, h)
  BY <1>1 DEF HandleEvent, Ignore, Check, Park, Apply, RejectCancel, Next, durable
<1>2. ASSUME NEW n \in Nodes, Crash(n) \/ Start(n)
      PROVE  UNCHANGED <<created, events>>
  BY <1>2 DEF Crash, Start, durable
<1>3. ASSUME NEW n \in Nodes, NEW r \in resumed[n], Resume(n, r)
      PROVE  UNCHANGED <<created, events>>
  BY <1>3 DEF Resume
<1>4. ASSUME NEW n \in Nodes, NEW m \in Nodes, Disconnect(n, m) \/ ReceiveEvent(n, m)
      PROVE  UNCHANGED <<created, events>>
  BY <1>4 DEF Disconnect, ReceiveEvent, durable
<1> QED
  BY <1>1, <1>2, <1>3, <1>4, Steps

\* Events keep their origin and predecessor, and stay where they are stored.
LEMMA Grow ==
    ASSUME TypeOK, ChainSound, [Step]_vars
    PROVE  /\ Created \subseteq Created'
           /\ \A h \in Created : Origin(h)' = Origin(h) /\ Prev(h)' = Prev(h)
           /\ \A n \in Nodes : Stored(n) \subseteq Stored(n)' /\ Stored(n) \subseteq Created
           /\ Published \subseteq Published'
           /\ SoundMessages \subseteq SoundMessages'
<1>1. \A n \in Nodes : Stored(n) \subseteq Created
  BY SeqSet DEF TypeOK, Created, Stored
<1>2. /\ Created \subseteq Created'
      /\ \A h \in Created : Origin(h)' = Origin(h) /\ Prev(h)' = Prev(h)
      /\ \A n \in Nodes : Stored(n) \subseteq Stored(n)'
  <2>1. CASE UNCHANGED <<created, events>>
    BY <2>1 DEF Created, Origin, Prev, Stored
  <2>2. ASSUME NEW n \in Nodes, Create(n)
        PROVE  /\ Created \subseteq Created'
               /\ \A h \in Created : Origin(h)' = Origin(h) /\ Prev(h)' = Prev(h)
               /\ \A m \in Nodes : Stored(m)' = Stored(m)
    <3>1. events' = events
      BY <2>2 DEF Create, durable
    <3> QED
      BY <2>2, <3>1, CreateDoes DEF Stored
  <2>3. ASSUME NEW n \in Nodes, NEW h \in Events, Publish(n, h)
        PROVE  created' = created /\ \A m \in Nodes : Stored(m) \subseteq Stored(m)'
    <3>1. h \in Created /\ created' = created
      BY <2>3 DEF Publish, TypeOK, Created
    <3> QED
      BY <2>3, <3>1, StoredDoes DEF Publish
  <2>4. ASSUME NEW n \in Nodes, NEW h \in Events, Store(n, h)
        PROVE  created' = created /\ \A m \in Nodes : Stored(m) \subseteq Stored(m)'
    <3>1. h \in Created /\ created' = created
      BY <2>4, AtDoes DEF Store
    <3> QED
      BY <2>4, <3>1, StoredDoes DEF Store
  <2>5. created' = created => /\ Created \subseteq Created'
                              /\ \A h \in Created : Origin(h)' = Origin(h) /\ Prev(h)' = Prev(h)
    BY DEF Created, Origin, Prev
  <2> QED
    BY <2>1, <2>2, <2>3, <2>4, <2>5, WhoStores
<1>3. Published \subseteq Published'
  <2> SUFFICES ASSUME NEW h \in Published PROVE h \in Published'
    OBVIOUS
  <2>1. h \in Created /\ Origin(h) \in Nodes /\ h \in Stored(Origin(h))
    BY DEF Published, ChainSound
  <2>2. h \in Created' /\ Origin(h)' = Origin(h)
    BY <1>2, <2>1
  <2>3. h \in Stored(Origin(h))'
    BY <1>2, <2>1, <2>2 DEF Stored
  <2> QED
    BY <2>2, <2>3 DEF Published
<1>4. SoundMessages \subseteq SoundMessages'
  BY <1>3 DEF SoundMessages
<1> QED
  BY <1>1, <1>2, <1>3, <1>4

LEMMA ChainStep ==
    ASSUME TypeOK, ChainSound, OwnSound, [Step]_vars
    PROVE  ChainSound'
<1>1. CASE created' = created
  BY <1>1 DEF ChainSound, Created, Origin, Prev
<1>2. ASSUME NEW n \in Nodes, Create(n) PROVE ChainSound'
  <2>1. /\ Len(created) \in Nat /\ Len(created') = Len(created) + 1
        /\ \A h \in Created : Origin(h)' = Origin(h) /\ Prev(h)' = Prev(h)
        /\ created'[Len(created) + 1].origin = n
        /\ created'[Len(created) + 1].prev = prevHash[n]
    BY <1>2, CreateDoes
  <2>2. prevHash[n] \in 0..Len(created) /\ (prevHash[n] # 0 => Origin(prevHash[n]) = n)
    BY DEF TypeOK, OwnSound
  <2> SUFFICES ASSUME NEW h \in Created'
               PROVE  /\ Origin(h)' \in Nodes
                      /\ Prev(h)' \in 0..(h - 1)
                      /\ Prev(h)' # 0 => Origin(Prev(h))' = Origin(h)'
    BY DEF ChainSound
  <2>3. CASE h \in Created
    <3>1. /\ Origin(h) \in Nodes /\ Prev(h) \in 0..(h - 1)
          /\ Prev(h) # 0 => Origin(Prev(h)) = Origin(h)
      BY <2>3 DEF ChainSound
    <3>2. Prev(h) # 0 => Prev(h) \in Created
      BY <2>1, <2>3, <3>1 DEF Created
    <3>3. Prev(h) # 0 => Origin(Prev(h))' = Origin(Prev(h))
      BY <2>1, <2>3, <3>2 DEF Origin, Prev
    <3> QED
      BY <2>1, <2>3, <3>1, <3>3
  <2>4. CASE h = Len(created) + 1
    <3>1. Origin(h)' = n /\ Prev(h)' = prevHash[n]
      BY <2>1, <2>4 DEF Origin, Prev
    <3>2. prevHash[n] # 0 => created'[prevHash[n]].origin = n
      BY <2>1, <2>2 DEF Created, Origin
    <3>3. prevHash[n] # 0 => Origin(Prev(h))' = n
      BY <3>1, <3>2 DEF Origin, Prev
    <3> QED
      BY <2>1, <2>2, <2>4, <3>1, <3>3
  <2> QED
    BY <2>1, <2>3, <2>4 DEF Created
<1> QED
  BY <1>1, <1>2, WhoStores DEF Publish, Store

\* prev_event_hash and the events being signed
LEMMA WhoSigns ==
    ASSUME [Step]_vars
    PROVE  \/ UNCHANGED <<created, events, prevHash, signing>>
           \/ \E n \in Nodes : Create(n) \/ Crash(n) \/ Start(n)
           \/ \E n \in Nodes, h \in Events : Publish(n, h) \/ Store(n, h)
<1>1. ASSUME NEW n \in Nodes, NEW h \in Events, HandleEvent(n, h)
      PROVE  UNCHANGED <<prevHash, signing>>
  BY <1>1 DEF HandleEvent, Ignore, Check, Park, Apply, RejectCancel, Next, Store, tasks
<1>2. ASSUME NEW n \in Nodes, NEW r \in resumed[n], Resume(n, r)
      PROVE  UNCHANGED <<prevHash, signing>>
  BY <1>2 DEF Resume, tasks
<1>3. ASSUME NEW n \in Nodes, NEW m \in Nodes, Disconnect(n, m) \/ ReceiveEvent(n, m)
      PROVE  UNCHANGED <<prevHash, signing>>
  BY <1>3 DEF Disconnect, ReceiveEvent, tasks
<1> QED
  BY <1>1, <1>2, <1>3, Steps, WhoStores

LEMMA OwnStep ==
    ASSUME TypeOK, ChainSound, OwnSound, StageSound, [Step]_vars
    PROVE  OwnSound'
<1>g. /\ \A h \in Created : Origin(h)' = Origin(h)
      /\ \A n \in Nodes : Stored(n) \subseteq Created
  BY Grow
<1>t. Len(created) \in Nat
  BY LenProperties DEF TypeOK
<1>p. \A n \in Nodes : prevHash[n] \in 0..Len(created) /\ signing[n] \subseteq Created
  BY DEF TypeOK, Created
<1>1. CASE UNCHANGED <<created, events, prevHash, signing>>
  BY <1>1 DEF OwnSound, Origin, Stored
<1>2. ASSUME NEW n \in Nodes, Create(n) PROVE OwnSound'
  <2>1. PICK e \in Nat : e = Len(created) + 1
    BY <1>t
  <2>2. Len(created') = e /\ Origin(e)' = n /\ e \notin Created
    BY <1>t, <1>2, <2>1, CreateDoes DEF Created, Origin
  <2>3. /\ prevHash'[n] = e
        /\ signing'[n] = signing[n] \cup {e}
        /\ \A m \in Nodes \ {n} : prevHash'[m] = prevHash[m] /\ signing'[m] = signing[m]
    BY <1>2, <2>2 DEF Create, TypeOK
  <2>4. \A m \in Nodes : Stored(m)' = Stored(m)
    BY <1>2 DEF Create, durable, Stored
  <2> SUFFICES ASSUME NEW m \in Nodes
               PROVE  /\ (prevHash[m] # 0 => Origin(prevHash[m]) = m)'
                      /\ \A h \in signing'[m] : Origin(h)' = m /\ h \notin Stored(m)'
    BY DEF OwnSound
  <2>5. CASE m = n
    <3>1. Origin(prevHash[m])' = n
      BY <2>2, <2>3, <2>5 DEF Origin
    <3>2. \A h \in signing[n] : Origin(h)' = n /\ h \notin Stored(n)'
      BY <1>g, <1>p, <2>4 DEF OwnSound
    <3> QED
      BY <1>g, <2>2, <2>3, <2>4, <2>5, <3>1, <3>2
  <2>6. CASE m # n
    <3>1. prevHash'[m] = prevHash[m] /\ signing'[m] = signing[m]
      BY <2>3, <2>6
    <3>2. PICK p : p = prevHash[m]
      OBVIOUS
    <3>3. p # 0 => p \in Created
      BY <1>p, <1>t, <3>2 DEF Created
    <3>4. p # 0 => Origin(p)' = m
      BY <1>g, <3>2, <3>3 DEF OwnSound
    <3>5. (prevHash[m] # 0 => Origin(prevHash[m]) = m)'
      BY <3>1, <3>2, <3>4 DEF Origin
    <3> QED
      BY <1>g, <1>p, <2>4, <3>1, <3>5 DEF OwnSound
  <2> QED
    BY <2>5, <2>6
<1>3. ASSUME NEW n \in Nodes, Crash(n) PROVE OwnSound'
  <2>1. UNCHANGED <<created, events>>
    BY <1>3 DEF Crash, durable
  <2>2. /\ prevHash'[n] = 0 /\ signing'[n] = {}
        /\ \A m \in Nodes \ {n} : prevHash'[m] = prevHash[m] /\ signing'[m] = signing[m]
    BY <1>3 DEF Crash, TypeOK
  <2> QED
    BY <2>1, <2>2 DEF OwnSound, Origin, Stored
<1>4. ASSUME NEW n \in Nodes, Start(n) PROVE OwnSound'
  <2>1. UNCHANGED <<created, events, signing>>
    BY <1>4 DEF Start
  <2>2. /\ prevHash'[n] = LastOwn(n)
        /\ \A m \in Nodes \ {n} : prevHash'[m] = prevHash[m]
    BY <1>4 DEF Start, TypeOK
  <2>3. LastOwn(n) # 0 => Origin(LastOwn(n)) = n
    BY LastOwnDoes
  <2> QED
    BY <2>1, <2>2, <2>3 DEF OwnSound, Origin, Stored
<1>5. ASSUME NEW n \in Nodes, NEW h \in Events, Publish(n, h) PROVE OwnSound'
  <2>1. h \in Created /\ h \in signing[n]
    BY <1>5, <1>p DEF Publish
  <2>2. /\ Stored(n)' = Stored(n) \cup {h}
        /\ \A m \in Nodes \ {n} : Stored(m)' = Stored(m)
    BY <1>5, <2>1, StoredDoes DEF Publish
  <2>3. /\ signing'[n] = signing[n] \ {h}
        /\ \A m \in Nodes \ {n} : signing'[m] = signing[m]
    BY <1>5 DEF Publish, TypeOK
  <2>4. UNCHANGED <<created, prevHash>>
    BY <1>5 DEF Publish
  <2> QED
    BY <2>2, <2>3, <2>4 DEF OwnSound, Origin
<1>6. ASSUME NEW n \in Nodes, NEW h \in Events, Store(n, h) PROVE OwnSound'
  <2>1. h \in Created /\ stage[n][h] = "store"
    BY <1>6, AtDoes DEF Store
  <2>2. /\ Stored(n)' = Stored(n) \cup {h}
        /\ \A m \in Nodes \ {n} : Stored(m)' = Stored(m)
    BY <1>6, <2>1, StoredDoes DEF Store
  <2>3. Origin(h) # n
    BY <2>1 DEF StageSound, Ignored
  <2>4. UNCHANGED <<created, prevHash, signing>>
    BY <1>6 DEF Store, tasks
  <2> QED
    BY <2>2, <2>3, <2>4 DEF OwnSound, Origin
<1> QED
  BY <1>1, <1>2, <1>3, <1>4, <1>5, <1>6, WhoSigns

-----------------------------------------------------------------------------
(* A process that is down *)

LEMMA NoLocks ==
    ASSUME NEW f \in [Events -> Seq(Calls)], \A h \in Events : f[h] = <<>>
    PROVE  f = Unlocked
  BY DEF Unlocked

\* Whatever a node does changes its own memory, and that of nobody who is down.
LEMMA OnlyOwn ==
    ASSUME TypeOK, NEW n \in Nodes, NEW h \in Events, Publish(n, h) \/ HandleEvent(n, h)
    PROVE  /\ up[n] /\ UNCHANGED <<up, since>>
           /\ \A m \in Nodes \ {n} :
                 /\ lock'[m] = lock[m] /\ stage'[m] = stage[m] /\ signing'[m] = signing[m]
                 /\ resumed'[m] = resumed[m] /\ events'[m] = events[m]
                 /\ applied'[m] = applied[m]
<1>1. CASE Publish(n, h)
  BY <1>1 DEF Publish, handlers, TypeOK
<1>2. CASE HandleEvent(n, h)
  <2>1. CASE Ignore(n, h) \/ Check(n, h) \/ RejectCancel(n, h)
    BY <2>1 DEF Ignore, Check, RejectCancel, At, Finish, durable, tasks, TypeOK
  <2>2. CASE Park(n, h) \/ Store(n, h)
    BY <2>2 DEF Park, Store, At, Finish, tasks, TypeOK
  <2>3. CASE Apply(n, h)
    BY <2>3 DEF Apply, At, tasks, TypeOK
  <2>4. CASE Next(n, h)
    BY <2>4 DEF Next, At, Finish, durable, tasks, TypeOK
  <2> QED
    BY <1>2, <2>1, <2>2, <2>3, <2>4 DEF HandleEvent
<1> QED
  BY <1>1, <1>2

LEMMA DownStep ==
    ASSUME TypeOK, DownSound, [Step]_vars
    PROVE  DownSound'
<1> DEFINE Down(m) == /\ ~up[m] => /\ lock[m] = Unlocked /\ stage[m] = Unstarted
                                   /\ signing[m] = {} /\ resumed[m] = {}
                      /\ since[m] = 0 => ~up[m] /\ events[m] = <<>> /\ applied[m] = <<>>
<1>d. \A m \in Nodes : Down(m)
  BY DEF DownSound
<1> SUFFICES ASSUME NEW m \in Nodes PROVE Down(m)'
  BY DEF DownSound
<1>t. Len(created) + 1 \in Nat \ {0}
  BY LenProperties DEF TypeOK
<1>1. ASSUME NEW n \in Nodes, Create(n) PROVE Down(m)'
  BY <1>1, <1>d DEF Create, durable, handlers, TypeOK
<1>2. ASSUME NEW n \in Nodes, Crash(n) PROVE Down(m)'
  <2> DEFINE lost == {{n, o} : o \in Peers(n)}
  <2>1. /\ lock' = [Detached(lost) EXCEPT ![n] = Unlocked]
        /\ resumed' = [DetachedResumed(lost) EXCEPT ![n] = {}]
        /\ stage' = [stage EXCEPT ![n] = Unstarted]
        /\ signing' = [signing EXCEPT ![n] = {}]
        /\ up' = [up EXCEPT ![n] = FALSE]
        /\ UNCHANGED <<since, events, applied>>
    BY <1>2 DEF Crash, durable
  <2>a. \A gone : /\ Detached(gone) \in [Nodes -> [Events -> Seq(Calls)]]
                  /\ DetachedResumed(gone) \in
                        [Nodes -> SUBSET [event : 1..Len(created), peer : SUBSET Nodes]]
    BY DetachedDoes
  <2>b. \A gone : \A o \in Nodes, h \in Events :
           (Detached(gone)[o][h] = <<>>) <=> (lock[o][h] = <<>>)
    BY DetachedDoes
  <2>c. \A gone : \A o \in Nodes : resumed[o] = {} => DetachedResumed(gone)[o] = {}
    BY DetachedDoes
  <2> HIDE DEF lost
  <2>2. /\ Detached(lost) \in [Nodes -> [Events -> Seq(Calls)]]
        /\ \A h \in Events : (Detached(lost)[m][h] = <<>>) <=> (lock[m][h] = <<>>)
        /\ DetachedResumed(lost) \in
              [Nodes -> SUBSET [event : 1..Len(created), peer : SUBSET Nodes]]
        /\ resumed[m] = {} => DetachedResumed(lost)[m] = {}
    BY <2>a, <2>b, <2>c
  <2>3. CASE m = n
    BY <1>d, <2>1, <2>2, <2>3 DEF TypeOK
  <2>4. CASE m # n
    <3>1. lock[m] = Unlocked => Detached(lost)[m] = Unlocked
      <4>1. lock[m] = Unlocked => \A h \in Events : Detached(lost)[m][h] = <<>>
        BY <2>2 DEF Unlocked
      <4>2. Detached(lost)[m] \in [Events -> Seq(Calls)]
        BY <2>2
      <4> QED
        BY <4>1, <4>2, NoLocks
    <3>2. /\ lock'[m] = Detached(lost)[m] /\ resumed'[m] = DetachedResumed(lost)[m]
          /\ stage'[m] = stage[m] /\ signing'[m] = signing[m] /\ up'[m] = up[m]
      BY <2>1, <2>2, <2>4 DEF TypeOK
    <3> QED
      BY <1>d, <2>1, <2>2, <3>1, <3>2
  <2> QED
    BY <2>3, <2>4
<1>3. ASSUME NEW n \in Nodes, Start(n) PROVE Down(m)'
  BY <1>3, <1>d, <1>t DEF Start, handlers, TypeOK
<1>4. ASSUME NEW n \in Nodes, NEW h \in Events, Publish(n, h) \/ HandleEvent(n, h)
      PROVE  Down(m)'
  BY <1>4, <1>d, OnlyOwn
<1>5. ASSUME NEW n \in Nodes, NEW r \in resumed[n], Resume(n, r) PROVE Down(m)'
  BY <1>5, <1>d DEF Resume, Handle, tasks, TypeOK
<1>6. ASSUME NEW n \in Nodes, NEW o \in Nodes, Disconnect(n, o) PROVE Down(m)'
  <2>1. /\ lock' = Detached({{n, o}}) /\ resumed' = DetachedResumed({{n, o}})
        /\ UNCHANGED <<since, events, applied, up, signing, stage>>
    BY <1>6 DEF Disconnect, durable, tasks
  <2>2. /\ lock' \in [Nodes -> [Events -> Seq(Calls)]]
        /\ \A h \in Events : (lock'[m][h] = <<>>) <=> (lock[m][h] = <<>>)
        /\ resumed[m] = {} => resumed'[m] = {}
    BY <2>1, DetachedDoes
  <2>3. lock[m] = Unlocked => lock'[m] = Unlocked
    <3>1. lock[m] = Unlocked => \A h \in Events : lock'[m][h] = <<>>
      BY <2>2 DEF Unlocked
    <3>2. lock'[m] \in [Events -> Seq(Calls)]
      BY <2>2
    <3> QED
      BY <3>1, <3>2, NoLocks
  <2> QED
    BY <1>d, <2>1, <2>2, <2>3
<1>7. ASSUME NEW n \in Nodes, NEW o \in Nodes, ReceiveEvent(n, o) PROVE Down(m)'
  <2>1. /\ up[n] /\ UNCHANGED <<since, events, applied, up, signing, stage, resumed>>
        /\ m # n => lock'[m] = lock[m]
    BY <1>7 DEF ReceiveEvent, Take, Handle, durable, tasks, TypeOK
  <2> QED
    BY <1>d, <2>1
<1>8. CASE UNCHANGED <<created, events, unhandled, since, applied, up, prevHash, signing,
                       handlers, crashes>>
  BY <1>8, <1>d DEF handlers
<1> QED
  BY <1>1, <1>2, <1>3, <1>4, <1>5, <1>6, <1>7, <1>8, Steps

-----------------------------------------------------------------------------
(* A call with the lock *)

StageAt(n, h) ==
    /\ lock[n][h] = <<>> => stage[n][h] = "check"
    /\ stage[n][h] \in {"park", "apply", "store"} => ~Ignored(n, h)
    /\ stage[n][h] = "park" => Prev(h) # 0
    /\ stage[n][h] \in {"apply", "store"} /\ h >= since[n] => PrevKnown(n, h)
    /\ stage[n][h] = "store" /\ <<n, h>> \notin Bad => h \in ToSet(applied[n])

\* It goes on unless the event is stored behind its back.
LEMMA StageKept ==
    ASSUME TypeOK, KnownSound, NEW n \in Nodes, NEW h \in Events, StageAt(n, h),
           lock'[n][h] = <<>> => lock[n][h] = <<>>,
           stage'[n][h] = stage[n][h],
           h \in Created => Origin(h)' = Origin(h) /\ Prev(h)' = Prev(h),
           Stored(n) \subseteq Stored(n)',
           stage[n][h] \in {"park", "apply", "store"} => h \notin Stored(n)',
           stage[n][h] # "check" => since'[n] = since[n],
           ToSet(applied[n]) \subseteq ToSet(applied'[n])
    PROVE  StageAt(n, h)'
<1>1. stage[n][h] # "check" => h \in Created
  BY DEF StageAt, KnownSound, Published
<1>2. stage[n][h] \in {"apply", "store"} /\ h >= since[n] => PrevKnown(n, h)'
  BY <1>1 DEF StageAt, PrevKnown
<1>3. stage[n][h] \in {"park", "apply", "store"} => ~Ignored(n, h)'
  BY <1>1 DEF StageAt, Ignored
<1> QED
  BY <1>1, <1>2, <1>3 DEF StageAt

LEMMA StageDone ==
    ASSUME NEW n \in Nodes, NEW h \in Events, stage'[n][h] = "check"
    PROVE  StageAt(n, h)'
  BY DEF StageAt

LEMMA StageStep ==
    ASSUME TypeOK, ChainSound, OwnSound, DownSound, StageSound, KnownSound, [Step]_vars
    PROVE  StageSound'
<1>s. \A n \in Nodes, h \in Events : StageAt(n, h)
  BY DEF StageSound, StageAt
<1> SUFFICES ASSUME NEW m \in Nodes, NEW k \in Events PROVE StageAt(m, k)'
  BY DEF StageSound, StageAt
<1>g. /\ k \in Created => Origin(k)' = Origin(k) /\ Prev(k)' = Prev(k)
      /\ Stored(m) \subseteq Stored(m)'
  BY Grow
<1>i. stage[m][k] \in {"park", "apply", "store"} => k \notin Stored(m) /\ Origin(k) # m
  BY <1>s DEF StageAt, Ignored
<1>1. ASSUME NEW n \in Nodes, Create(n) PROVE StageAt(m, k)'
  <2>1. UNCHANGED <<events, since, applied, lock, stage>>
    BY <1>1 DEF Create, durable, handlers
  <2>2. Stored(m)' = Stored(m)
    BY <2>1 DEF Stored
  <2> QED
    BY <1>s, <1>g, <1>i, <2>1, <2>2, StageKept
<1>2. ASSUME NEW n \in Nodes, Crash(n) PROVE StageAt(m, k)'
  <2> DEFINE lost == {{n, o} : o \in Peers(n)}
  <2>1. /\ lock' = [Detached(lost) EXCEPT ![n] = Unlocked]
        /\ stage' = [stage EXCEPT ![n] = Unstarted]
        /\ UNCHANGED <<created, since, events, applied>>
    BY <1>2 DEF Crash, durable
  <2>d. /\ Detached(lost) \in [Nodes -> [Events -> Seq(Calls)]]
        /\ (Detached(lost)[m][k] = <<>>) <=> (lock[m][k] = <<>>)
    BY DetachedDoes
  <2> HIDE DEF lost
  <2>2. CASE m = n
    <3>1. stage'[m][k] = "check"
      BY <2>1, <2>2 DEF Unstarted, TypeOK
    <3> QED
      BY <3>1, StageDone
  <2>3. CASE m # n
    <3>1. lock'[m][k] = Detached(lost)[m][k] /\ stage'[m][k] = stage[m][k]
      BY <2>1, <2>3, <2>d DEF TypeOK
    <3>2. lock'[m][k] = <<>> => lock[m][k] = <<>>
      BY <3>1, <2>d
    <3>3. Stored(m)' = Stored(m)
      BY <2>1 DEF Stored
    <3> QED
      BY <1>s, <1>g, <1>i, <2>1, <3>1, <3>2, <3>3, StageKept
  <2> QED
    BY <2>2, <2>3
<1>3. ASSUME NEW n \in Nodes, Start(n) PROVE StageAt(m, k)'
  <2>1. UNCHANGED <<created, events, applied, lock, stage>> /\ Stored(m)' = Stored(m)
    BY <1>3 DEF Start, handlers, Stored
  <2>2. stage[m][k] # "check" => since'[m] = since[m]
    BY <1>3 DEF Start, TypeOK, DownSound, Unstarted
  <2> QED
    BY <1>s, <1>g, <1>i, <2>1, <2>2, StageKept
<1>4. ASSUME NEW n \in Nodes, NEW h \in Events, Publish(n, h) PROVE StageAt(m, k)'
  <2>1. h \in Created /\ Origin(h) = n
    BY <1>4 DEF Publish, OwnSound, TypeOK, Created
  <2>a. Stored(n)' = Stored(n) \cup {h} /\ \A o \in Nodes \ {n} : Stored(o)' = Stored(o)
    BY <1>4, <2>1, StoredDoes DEF Publish
  <2>2. stage[m][k] \in {"park", "apply", "store"} => k \notin Stored(m)'
    BY <1>i, <2>1, <2>a
  <2>3. UNCHANGED <<created, since, applied, lock, stage>>
    BY <1>4 DEF Publish, handlers
  <2> QED
    BY <1>s, <1>g, <2>2, <2>3, StageKept
<1>5. ASSUME NEW n \in Nodes, NEW h \in Events, HandleEvent(n, h) PROVE StageAt(m, k)'
  <2>1. lock[n][h] # <<>> /\ h \in Created
    BY <1>5, AtDoes DEF HandleEvent, Ignore, Check, Park, Apply, RejectCancel, Store, Next
  <2>2. CASE Ignore(n, h) \/ Park(n, h) \/ RejectCancel(n, h) \/ Next(n, h)
    <3>1. Finish(n, h) /\ UNCHANGED <<created, since, events, applied>>
      BY <2>2 DEF Ignore, Park, RejectCancel, Next, durable
    <3>2. \/ stage'[m][k] = "check"
          \/ lock'[m][k] = lock[m][k] /\ stage'[m][k] = stage[m][k]
      BY <2>1, <3>1, FinishDoes
    <3>3. Stored(m)' = Stored(m)
      BY <3>1 DEF Stored
    <3> QED
      BY <1>s, <1>g, <1>i, <3>1, <3>2, <3>3, StageKept, StageDone
  <2>3. CASE Check(n, h)
    <3>1. /\ UNCHANGED <<created, since, events, applied, lock>> /\ Stored(m)' = Stored(m)
          /\ ~Ignored(n, h)
      BY <2>3 DEF Check, durable, Stored
    <3>2. stage' = [stage EXCEPT ![n][h] = IF ~PrevKnown(n, h) /\ h >= since[n]
                                           THEN "park" ELSE "apply"]
      BY <2>3 DEF Check
    <3>3. CASE m = n /\ k = h
      <4>1. stage'[m][k] = IF ~PrevKnown(m, k) /\ k >= since[m] THEN "park" ELSE "apply"
        BY <3>2, <3>3 DEF TypeOK
      <4>2. lock'[m][k] # <<>> /\ ~Ignored(m, k)' /\ (PrevKnown(m, k)' <=> PrevKnown(m, k))
        BY <2>1, <3>1, <3>3 DEF Ignored, PrevKnown, Origin, Prev, Stored
      <4>3. Prev(k)' = 0 => PrevKnown(m, k)
        BY <3>1 DEF PrevKnown, Prev
      <4> QED
        BY <3>1, <4>1, <4>2, <4>3 DEF StageAt
    <3>4. CASE m # n \/ k # h
      <4>1. stage'[m][k] = stage[m][k]
        BY <3>2, <3>4 DEF TypeOK
      <4> QED
        BY <1>s, <1>g, <1>i, <3>1, <4>1, StageKept
    <3> QED
      BY <3>3, <3>4
  <2>4. CASE Apply(n, h)
    <3>1. /\ UNCHANGED <<created, since, events, lock>> /\ Stored(m)' = Stored(m)
          /\ stage[n][h] = "apply"
      BY <2>4 DEF Apply, At, Stored
    <3>2. applied[m] \in Seq(Created) /\ applied[n] \in Seq(Created)
      BY DEF TypeOK, Created
    <3>3. /\ stage' = [stage EXCEPT ![n][h] = "store"]
          /\ applied' = IF <<n, h>> \in Bad THEN applied
                        ELSE [applied EXCEPT ![n] = Append(applied[n], h)]
      BY <2>4 DEF Apply, TypeOK
    <3>4. ToSet(Append(applied[n], h)) = ToSet(applied[n]) \cup {h}
      BY <2>1, <3>2, AppendSet
    <3>5. /\ ToSet(applied[m]) \subseteq ToSet(applied'[m])
          /\ <<n, h>> \notin Bad => h \in ToSet(applied'[n])
      BY <3>3, <3>4 DEF TypeOK
    <3>6. CASE m = n /\ k = h
      <4>1. stage'[m][k] = "store"
        BY <3>3, <3>6 DEF TypeOK
      <4>2. ~Ignored(m, k)' /\ (PrevKnown(m, k)' <=> PrevKnown(m, k))
        BY <1>i, <3>1, <3>6 DEF Ignored, PrevKnown, Origin, Prev, Stored
      <4>3. k >= since[m] => PrevKnown(m, k)
        BY <1>s, <3>1, <3>6 DEF StageAt
      <4> QED
        BY <2>1, <3>1, <3>5, <3>6, <4>1, <4>2, <4>3 DEF StageAt
    <3>7. CASE m # n \/ k # h
      <4>1. stage'[m][k] = stage[m][k]
        BY <3>3, <3>7 DEF TypeOK
      <4> QED
        BY <1>s, <1>g, <1>i, <3>1, <3>5, <4>1, StageKept
    <3> QED
      BY <3>6, <3>7
  <2>5. CASE Store(n, h)
    <3>1. UNCHANGED <<created, since, applied, lock>>
      BY <2>5 DEF Store
    <3>2. stage' = [stage EXCEPT ![n][h] = "next"]
      BY <2>5 DEF Store
    <3>a. Stored(n)' = Stored(n) \cup {h} /\ \A o \in Nodes \ {n} : Stored(o)' = Stored(o)
      BY <2>1, <2>5, StoredDoes DEF Store
    <3>3. m # n \/ k # h => (k \in Stored(m)' <=> k \in Stored(m))
      BY <3>a
    <3>4. CASE m = n /\ k = h
      BY <2>1, <3>1, <3>2, <3>4 DEF StageAt, TypeOK
    <3>5. CASE m # n \/ k # h
      <4>1. stage'[m][k] = stage[m][k]
        BY <3>2, <3>5 DEF TypeOK
      <4> QED
        BY <1>s, <1>g, <1>i, <3>1, <3>3, <3>5, <4>1, StageKept
    <3> QED
      BY <3>4, <3>5
  <2> QED
    BY <1>5, <2>2, <2>3, <2>4, <2>5 DEF HandleEvent
<1>6. ASSUME NEW n \in Nodes, NEW r \in resumed[n], Resume(n, r) PROVE StageAt(m, k)'
  <2>1. UNCHANGED <<created, since, events, applied, stage>> /\ Stored(m)' = Stored(m)
    BY <1>6 DEF Resume, Stored
  <2>2. /\ r.event \in Events /\ Call("next", r.peer) \in Calls
        /\ Handle(n, r.event, Call("next", r.peer))
    <3>1. r \in [event : 1..Len(created), peer : SUBSET Nodes]
      BY DEF TypeOK
    <3> QED
      BY <1>6, <3>1, EventsNat, LenProperties DEF Resume, TypeOK, Call, Calls
  <2>3. lock'[m][k] = <<>> => lock[m][k] = <<>>
    BY <2>2, HandleDoes
  <2> QED
    BY <1>s, <1>g, <1>i, <2>1, <2>3, StageKept
<1>7. ASSUME NEW n \in Nodes, NEW o \in Nodes, Disconnect(n, o) PROVE StageAt(m, k)'
  <2>1. UNCHANGED <<created, since, events, applied, stage>> /\ Stored(m)' = Stored(m)
    BY <1>7 DEF Disconnect, durable, Stored
  <2>2. lock'[m][k] = <<>> => lock[m][k] = <<>>
    BY <1>7, DetachedDoes DEF Disconnect
  <2> QED
    BY <1>s, <1>g, <1>i, <2>1, <2>2, StageKept
<1>8. ASSUME NEW n \in Nodes, NEW o \in Nodes, ReceiveEvent(n, o) PROVE StageAt(m, k)'
  <2>1. UNCHANGED <<created, since, events, applied, stage>> /\ Stored(m)' = Stored(m)
    BY <1>8 DEF ReceiveEvent, durable, Stored
  <2>2. PICK h \in Events, c \in Calls : Handle(n, h, c)
    BY <1>8 DEF ReceiveEvent, Call, Calls
  <2>3. lock'[m][k] = <<>> => lock[m][k] = <<>>
    BY <2>2, HandleDoes
  <2> QED
    BY <1>s, <1>g, <1>i, <2>1, <2>3, StageKept
<1>9. CASE UNCHANGED <<created, events, unhandled, since, applied, up, prevHash, signing,
                       handlers, crashes>>
  <2>1. UNCHANGED <<created, since, events, applied, lock, stage>> /\ Stored(m)' = Stored(m)
    BY <1>9 DEF handlers, Stored
  <2> QED
    BY <1>s, <1>g, <1>i, <2>1, StageKept
<1> QED
  BY <1>1, <1>2, <1>3, <1>4, <1>5, <1>6, <1>7, <1>8, <1>9, Steps

-----------------------------------------------------------------------------
(* What a node has stored and parked *)

StoredAt(n) ==
    /\ \A h \in Stored(n) : Origin(h) # n /\ <<n, h>> \notin Bad => h \in ToSet(applied[n])
    /\ \A h \in unhandled[n] : Prev(h) # 0

\* Whose collections change, and how
LEMMA WhoApplies ==
    ASSUME [Step]_vars
    PROVE  \/ UNCHANGED <<events, unhandled, applied>>
           \/ \E n \in Nodes, h \in Events :
                 Publish(n, h) \/ Park(n, h) \/ Apply(n, h) \/ Store(n, h)
           \/ \E n \in Nodes : \E r \in resumed[n] : Resume(n, r)
<1>1. ASSUME NEW n \in Nodes, NEW h \in Events, HandleEvent(n, h)
      PROVE  \/ UNCHANGED <<events, unhandled, applied>>
             \/ Park(n, h) \/ Apply(n, h) \/ Store(n, h)
  BY <1>1 DEF HandleEvent, Ignore, Check, RejectCancel, Next, durable
<1>2. ASSUME NEW n \in Nodes, Create(n) \/ Crash(n) \/ Start(n)
      PROVE  UNCHANGED <<events, unhandled, applied>>
  BY <1>2 DEF Create, Crash, Start, durable
<1>3. ASSUME NEW n \in Nodes, NEW m \in Nodes, Disconnect(n, m) \/ ReceiveEvent(n, m)
      PROVE  UNCHANGED <<events, unhandled, applied>>
  BY <1>3 DEF Disconnect, ReceiveEvent, durable
<1> QED
  BY <1>1, <1>2, <1>3, Steps

LEMMA StoredStep ==
    ASSUME TypeOK, ChainSound, OwnSound, StageSound, StoredSound, [Step]_vars
    PROVE  StoredSound'
<1>s. \A n \in Nodes : StoredAt(n)
  BY DEF StoredSound, StoredAt
<1>g. /\ \A h \in Created : Origin(h)' = Origin(h) /\ Prev(h)' = Prev(h)
      /\ \A n \in Nodes : Stored(n) \subseteq Created /\ unhandled[n] \subseteq Created
  BY Grow DEF TypeOK, Created
<1>k. ASSUME NEW n \in Nodes, Stored(n)' = Stored(n), unhandled'[n] \subseteq unhandled[n],
             ToSet(applied[n]) \subseteq ToSet(applied'[n])
      PROVE  StoredAt(n)'
  BY <1>s, <1>g, <1>k DEF StoredAt
<1> SUFFICES ASSUME NEW m \in Nodes PROVE StoredAt(m)'
  BY DEF StoredSound, StoredAt
<1>1. CASE UNCHANGED <<events, unhandled, applied>>
  BY <1>1, <1>k DEF Stored
<1>2. ASSUME NEW n \in Nodes, NEW h \in Events, Publish(n, h) PROVE StoredAt(m)'
  <2>1. h \in Created /\ Origin(h) = n
    BY <1>2 DEF Publish, OwnSound, TypeOK, Created
  <2>2. Stored(n)' = Stored(n) \cup {h} /\ \A o \in Nodes \ {n} : Stored(o)' = Stored(o)
    BY <1>2, <2>1, StoredDoes DEF Publish
  <2>3. UNCHANGED <<created, unhandled, applied>>
    BY <1>2 DEF Publish
  <2> QED
    BY <1>s, <1>g, <1>k, <2>1, <2>2, <2>3 DEF StoredAt
<1>3. ASSUME NEW n \in Nodes, NEW h \in Events, Park(n, h) PROVE StoredAt(m)'
  <2>1. UNCHANGED <<created, events, applied>> /\ Stored(m)' = Stored(m)
    BY <1>3 DEF Park, Stored
  <2>2. Prev(h)' # 0
    BY <1>3, <2>1 DEF Park, At, StageSound, Prev
  <2>3. /\ unhandled'[n] = unhandled[n] \cup {h}
        /\ m # n => unhandled'[m] = unhandled[m]
    BY <1>3 DEF Park, TypeOK
  <2> QED
    BY <1>s, <1>g, <2>1, <2>2, <2>3 DEF StoredAt
<1>4. ASSUME NEW n \in Nodes, NEW h \in Events, Apply(n, h) PROVE StoredAt(m)'
  <2>1. UNCHANGED <<events, unhandled>> /\ Stored(m)' = Stored(m)
    BY <1>4 DEF Apply, Stored
  <2>2. h \in Created /\ applied[m] \in Seq(Created) /\ applied[n] \in Seq(Created)
    BY <1>4, AtDoes DEF Apply, TypeOK, Created
  <2>3. ToSet(Append(applied[n], h)) = ToSet(applied[n]) \cup {h}
    BY <2>2, AppendSet
  <2>4. ToSet(applied[m]) \subseteq ToSet(applied'[m])
    BY <1>4, <2>3 DEF Apply, TypeOK
  <2> QED
    BY <1>k, <2>1, <2>4
<1>5. ASSUME NEW n \in Nodes, NEW h \in Events, Store(n, h) PROVE StoredAt(m)'
  <2>1. h \in Created /\ stage[n][h] = "store"
    BY <1>5, AtDoes DEF Store
  <2>2. Stored(n)' = Stored(n) \cup {h} /\ \A o \in Nodes \ {n} : Stored(o)' = Stored(o)
    BY <1>5, <2>1, StoredDoes DEF Store
  <2>3. UNCHANGED <<created, unhandled, applied>>
    BY <1>5 DEF Store
  <2>4. <<n, h>> \notin Bad => h \in ToSet(applied[n])
    BY <2>1 DEF StageSound
  <2> QED
    BY <1>s, <1>g, <1>k, <2>1, <2>2, <2>3, <2>4 DEF StoredAt
<1>6. ASSUME NEW n \in Nodes, NEW r \in resumed[n], Resume(n, r) PROVE StoredAt(m)'
  <2>1. UNCHANGED <<events, applied>> /\ Stored(m)' = Stored(m)
    BY <1>6 DEF Resume, Stored
  <2>2. unhandled'[m] \subseteq unhandled[m]
    BY <1>6 DEF Resume, TypeOK
  <2> QED
    BY <1>k, <2>1, <2>2
<1> QED
  BY <1>1, <1>2, <1>3, <1>4, <1>5, <1>6, WhoApplies

-----------------------------------------------------------------------------
(* Whatever is known of an event, its origin has stored it *)

KnownAt(n) ==
    /\ Stored(n) \subseteq Published
    /\ unhandled[n] \subseteq Published
    /\ \A h \in Events : lock[n][h] # <<>> => h \in Published
    /\ \A r \in resumed[n] : r.event \in Published

LEMMA FirstOf ==
    ASSUME NEW S, NEW s \in Seq(S), s # <<>>
    PROVE  Head(s) \in S /\ Tail(s) \in Seq(S)
  BY HeadTailProperties

LEMMA KnownStep ==
    ASSUME TypeOK, ChainSound, OwnSound, KnownSound, ChanSound, [Step]_vars
    PROVE  KnownSound'
<1>s. \A n \in Nodes : KnownAt(n)
  BY DEF KnownSound, KnownAt
<1>g. Published \subseteq Published'
  BY Grow
<1>k. ASSUME NEW n \in Nodes, Stored(n)' = Stored(n), unhandled'[n] \subseteq unhandled[n],
             \A h \in Events : lock'[n][h] # <<>> => lock[n][h] # <<>>,
             \A r \in resumed'[n] : \E s \in resumed[n] : s.event = r.event
      PROVE  KnownAt(n)'
  <2>1. \A r \in resumed'[n] : r.event \in Published
    BY <1>s, <1>k DEF KnownAt
  <2> QED
    BY <1>s, <1>g, <1>k, <2>1 DEF KnownAt
<1> SUFFICES ASSUME NEW m \in Nodes PROVE KnownAt(m)'
  BY DEF KnownSound, KnownAt
<1>1. ASSUME NEW n \in Nodes, Create(n) PROVE KnownAt(m)'
  <2>1. UNCHANGED <<events, unhandled, lock, resumed>> /\ Stored(m)' = Stored(m)
    BY <1>1 DEF Create, durable, handlers, Stored
  <2> QED
    BY <1>k, <2>1
<1>2. ASSUME NEW n \in Nodes, Crash(n) PROVE KnownAt(m)'
  <2> DEFINE lost == {{n, o} : o \in Peers(n)}
  <2>1. /\ lock' = [Detached(lost) EXCEPT ![n] = Unlocked]
        /\ resumed' = [DetachedResumed(lost) EXCEPT ![n] = {}]
        /\ UNCHANGED <<unhandled, events>>
    BY <1>2 DEF Crash, durable
  <2>a. \A gone : /\ Detached(gone) \in [Nodes -> [Events -> Seq(Calls)]]
                  /\ DetachedResumed(gone) \in
                        [Nodes -> SUBSET [event : 1..Len(created), peer : SUBSET Nodes]]
    BY DetachedDoes
  <2>b. \A gone : \A o \in Nodes, h \in Events :
           (Detached(gone)[o][h] = <<>>) <=> (lock[o][h] = <<>>)
    BY DetachedDoes
  <2>c. \A gone : \A o \in Nodes : \A r \in DetachedResumed(gone)[o] :
           \E s \in resumed[o] : s.event = r.event
    BY DetachedDoes
  <2> HIDE DEF lost
  <2>2. \A h \in Events : lock'[m][h] # <<>> => lock[m][h] # <<>>
    BY <2>1, <2>a, <2>b DEF Unlocked
  <2>3. \A r \in resumed'[m] : \E s \in resumed[m] : s.event = r.event
    BY <2>1, <2>a, <2>c
  <2> QED
    BY <1>k, <2>1, <2>2, <2>3 DEF Stored
<1>3. ASSUME NEW n \in Nodes, Start(n) PROVE KnownAt(m)'
  <2>1. UNCHANGED <<events, unhandled, lock, resumed>> /\ Stored(m)' = Stored(m)
    BY <1>3 DEF Start, handlers, Stored
  <2> QED
    BY <1>k, <2>1
<1>4. ASSUME NEW n \in Nodes, NEW h \in Events, Publish(n, h) PROVE KnownAt(m)'
  <2>1. h \in Created /\ Origin(h) = n
    BY <1>4 DEF Publish, OwnSound, TypeOK, Created
  <2>2. Stored(n)' = Stored(n) \cup {h} /\ \A o \in Nodes \ {n} : Stored(o)' = Stored(o)
    BY <1>4, <2>1, StoredDoes DEF Publish
  <2>3. UNCHANGED <<created, unhandled, lock, resumed>>
    BY <1>4 DEF Publish, handlers
  <2>4. h \in Created' /\ Origin(h)' = n
    BY <2>1, <2>3 DEF Created, Origin
  <2>5. h \in Published'
    BY <2>2, <2>4 DEF Published, Stored
  <2>6. Stored(m)' \subseteq Published'
    BY <1>s, <1>g, <2>2, <2>5 DEF KnownAt
  <2> QED
    BY <1>s, <1>g, <2>3, <2>6 DEF KnownAt
<1>5. ASSUME NEW n \in Nodes, NEW h \in Events, HandleEvent(n, h) PROVE KnownAt(m)'
  <2>1. lock[n][h] # <<>> /\ h \in Created /\ h \in Published
    BY <1>5, <1>s, AtDoes
       DEF HandleEvent, Ignore, Check, Park, Apply, RejectCancel, Store, Next, KnownAt
  <2>f. ASSUME Finish(n, h), NEW k \in Events
        PROVE  lock'[m][k] # <<>> => k \in Published
    <3>1. CASE m = n /\ k = h
      BY <2>1, <3>1
    <3>2. CASE m # n \/ k # h
      <4>1. lock'[m][k] = lock[m][k]
        BY <2>1, <2>f, <3>2, FinishDoes
      <4> QED
        BY <1>s, <4>1 DEF KnownAt
    <3> QED
      BY <3>1, <3>2
  <2>2. CASE Ignore(n, h) \/ RejectCancel(n, h)
    <3>1. UNCHANGED <<events, unhandled, resumed>> /\ Finish(n, h)
      BY <2>2 DEF Ignore, RejectCancel, durable
    <3> QED
      BY <1>s, <1>g, <2>f, <3>1 DEF KnownAt, Stored
  <2>3. CASE Check(n, h) \/ Apply(n, h)
    <3>1. UNCHANGED <<events, unhandled, resumed, lock>>
      BY <2>3 DEF Check, Apply, durable
    <3> QED
      BY <1>k, <3>1 DEF Stored
  <2>4. CASE Park(n, h)
    <3>1. UNCHANGED <<events, resumed>> /\ Finish(n, h)
      BY <2>4 DEF Park
    <3>2. unhandled'[m] \subseteq unhandled[m] \cup {h}
      BY <2>4 DEF Park, TypeOK
    <3> QED
      BY <1>s, <1>g, <2>1, <2>f, <3>1, <3>2 DEF KnownAt, Stored
  <2>5. CASE Store(n, h)
    <3>1. UNCHANGED <<unhandled, resumed, lock>>
      BY <2>5 DEF Store
    <3>2. Stored(n)' = Stored(n) \cup {h} /\ \A o \in Nodes \ {n} : Stored(o)' = Stored(o)
      BY <2>1, <2>5, StoredDoes DEF Store
    <3>3. Stored(m)' \subseteq Published'
      BY <1>s, <1>g, <2>1, <3>2 DEF KnownAt
    <3> QED
      BY <1>s, <1>g, <3>1, <3>3 DEF KnownAt
  <2>6. CASE Next(n, h)
    <3>1. UNCHANGED <<events, unhandled>> /\ Finish(n, h)
      BY <2>6 DEF Next, durable
    <3>2. PICK peer : resumed' = [resumed EXCEPT ![n] = resumed[n] \cup
                {[event |-> k, peer |-> peer] : k \in {k \in unhandled[n] : Prev(k) = h}}]
      BY <2>6 DEF Next, TypeOK
    <3>3. /\ m # n => resumed'[m] = resumed[m]
          /\ resumed'[n] = resumed[n] \cup
                {[event |-> k, peer |-> peer] : k \in {k \in unhandled[n] : Prev(k) = h}}
      BY <3>2 DEF TypeOK
    <3>4. \A r \in resumed'[m] : r.event \in Published
      BY <1>s, <3>3 DEF KnownAt
    <3> QED
      BY <1>s, <1>g, <2>f, <3>1, <3>4 DEF KnownAt, Stored
  <2> QED
    BY <1>5, <2>2, <2>3, <2>4, <2>5, <2>6 DEF HandleEvent
<1>6. ASSUME NEW n \in Nodes, NEW r \in resumed[n], Resume(n, r) PROVE KnownAt(m)'
  <2>1. UNCHANGED events /\ Stored(m)' = Stored(m)
    BY <1>6 DEF Resume, Stored
  <2>2. /\ r.event \in Events /\ Call("next", r.peer) \in Calls
        /\ Handle(n, r.event, Call("next", r.peer))
    <3>1. r \in [event : 1..Len(created), peer : SUBSET Nodes]
      BY DEF TypeOK
    <3> QED
      BY <1>6, <3>1, EventsNat, LenProperties DEF Resume, TypeOK, Call, Calls
  <2>3. r.event \in Published
    BY <1>s DEF KnownAt
  <2>a. \A h \in Events : m # n \/ h # r.event => lock'[m][h] = lock[m][h]
    BY <2>2, HandleDoes
  <2>4. \A h \in Events : lock'[m][h] # <<>> => h \in Published
    BY <1>s, <2>3, <2>a DEF KnownAt
  <2>5. unhandled'[m] \subseteq unhandled[m] /\ resumed'[m] \subseteq resumed[m]
    BY <1>6 DEF Resume, TypeOK
  <2> QED
    BY <1>s, <1>g, <2>1, <2>4, <2>5 DEF KnownAt
<1>7. ASSUME NEW n \in Nodes, NEW o \in Nodes, Disconnect(n, o) PROVE KnownAt(m)'
  <2>1. UNCHANGED <<events, unhandled>> /\ Stored(m)' = Stored(m)
    BY <1>7 DEF Disconnect, durable, Stored
  <2>2. /\ \A h \in Events : lock'[m][h] # <<>> => lock[m][h] # <<>>
        /\ \A r \in resumed'[m] : \E s \in resumed[m] : s.event = r.event
    BY <1>7, DetachedDoes DEF Disconnect
  <2> QED
    BY <1>k, <2>1, <2>2
<1>8. ASSUME NEW n \in Nodes, NEW o \in Nodes, ReceiveEvent(n, o) PROVE KnownAt(m)'
  <2>1. UNCHANGED <<events, unhandled, resumed>> /\ Stored(m)' = Stored(m)
    BY <1>8 DEF ReceiveEvent, durable, Stored
  <2>2. PICK h \in Events, c \in Calls :
           /\ Handle(n, h, c) /\ chan[<<o, n>>] # <<>>
           /\ Head(chan[<<o, n>>]) \in {Msg("event", {h}), Msg("reply", {h})}
    BY <1>8 DEF ReceiveEvent, Call, Calls, Take
  <2>3. chan[<<o, n>>] \in Seq(SoundMessages)
    BY DEF ChanSound
  <2>4. Head(chan[<<o, n>>]) \in SoundMessages
    BY <2>2, <2>3, FirstOf
  <2>5. h \in Published
    BY <2>2, <2>4 DEF SoundMessages, Msg
  <2>a. \A k \in Events : m # n \/ k # h => lock'[m][k] = lock[m][k]
    BY <2>2, HandleDoes
  <2>6. \A k \in Events : lock'[m][k] # <<>> => k \in Published
    BY <1>s, <2>5, <2>a DEF KnownAt
  <2> QED
    BY <1>s, <1>g, <2>1, <2>6 DEF KnownAt
<1>9. CASE UNCHANGED <<created, events, unhandled, since, applied, up, prevHash, signing,
                       handlers, crashes>>
  <2>1. UNCHANGED <<events, unhandled, lock, resumed>> /\ Stored(m)' = Stored(m)
    BY <1>9 DEF handlers, Stored
  <2> QED
    BY <1>k, <2>1
<1> QED
  BY <1>1, <1>2, <1>3, <1>4, <1>5, <1>6, <1>7, <1>8, <1>9, Steps

-----------------------------------------------------------------------------
(* Messages *)

LEMMA EmptyIn == ASSUME NEW M PROVE <<>> \in Seq(M)
  BY EmptySeq

LEMMA SendDoes ==
    ASSUME NEW M, chan \in [Nodes \X Nodes -> Seq(M)], NEW n, NEW ms, NEW msg \in M
    PROVE  SendTo(n, ms, msg) \in [Nodes \X Nodes -> Seq(M)]
<1>1. \A p \in Nodes \X Nodes : Append(chan[p], msg) \in Seq(M)
  BY AppendProperties
<1> QED
  BY <1>1 DEF SendTo

LEMMA GetsDoes ==
    ASSUME NEW M, NEW k \in Nat, NEW hs \in [1..k -> Events],
           [type : {"get"}, about : SUBSET Events] \subseteq M
    PROVE  /\ [i \in 1..Len(hs) |-> Msg("get", {hs[i]})] \in Seq(M)
           /\ Len(hs) = k
<1>1. hs \in Seq(Events) /\ Len(hs) = k
  <2>1. hs \in Seq(Events)
    OBVIOUS
  <2> QED
    BY <2>1, LenProperties
<1>2. \A i \in 1..k : Msg("get", {hs[i]}) \in M
  BY DEF Msg
<1> QED
  BY <1>1, <1>2

LEMMA RequestDoes ==
    ASSUME NEW M, chan \in [Nodes \X Nodes -> Seq(M)], NEW n, NEW ms,
           NEW k \in Nat, NEW hs \in [1..k -> Events],
           [type : {"get"}, about : SUBSET Events] \subseteq M
    PROVE  Request(n, ms, hs) \in [Nodes \X Nodes -> Seq(M)]
<1> DEFINE gets == [i \in 1..Len(hs) |-> Msg("get", {hs[i]})]
<1>1. gets \in Seq(M)
  BY GetsDoes
<1> HIDE DEF gets
<1>2. \A p \in Nodes \X Nodes : chan[p] \o gets \in Seq(M)
  BY <1>1, ConcatProperties
<1>3. Request(n, ms, hs) = [p \in Nodes \X Nodes |->
         IF p[1] = n /\ p[2] \in ms THEN chan[p] \o gets ELSE chan[p]]
  BY DEF Request, gets
<1> QED
  BY <1>2, <1>3

\* Some order of the hashes that a peer knows and the node does not
LEMMA SomeOrder ==
    ASSUME NEW S \in SUBSET Events
    PROVE  Cardinality(S) \in Nat /\ SetToSeq(S) \in [1..Cardinality(S) -> S]
<1>1. IsFiniteSet(Events)
  BY EventsNat, FS_Interval
<1>2. IsFiniteSet(S)
  BY <1>1, FS_Subset
<1>3. Cardinality(S) \in Nat /\ ExistsBijection(1..Cardinality(S), S)
  BY <1>2, FS_CardinalityType
<1>4. \E f \in [1..Cardinality(S) -> S] : IsInjective(f)
  BY <1>3 DEF ExistsBijection, Bijection, Injection
<1> QED
  BY <1>3, <1>4 DEF SetToSeq

LEMMA RestDoes ==
    ASSUME NEW M, chan \in [Nodes \X Nodes -> Seq(M)], NEW n \in Nodes, NEW m \in Nodes,
           chan[<<m, n>>] # <<>>
    PROVE  /\ Head(chan[<<m, n>>]) \in M
           /\ Rest(m, n) \in [Nodes \X Nodes -> Seq(M)]
<1>1. Head(chan[<<m, n>>]) \in M /\ Tail(chan[<<m, n>>]) \in Seq(M)
  BY FirstOf
<1> QED
  BY <1>1 DEF Rest

LEMMA ChanStep ==
    ASSUME TypeOK, ChainSound, OwnSound, KnownSound, StageSound, StoredSound, ChanSound,
           KnownSound', [Step]_vars
    PROVE  ChanSound'
<1> DEFINE M == SoundMessages'
           Sound(c) == c \in [Nodes \X Nodes -> Seq(M)]
<1>e. Created \subseteq Events
  BY EventsNat, LenProperties DEF TypeOK, Created
<1>g. [type : {"get"}, about : SUBSET Events] \subseteq M
  BY DEF SoundMessages
<1>m. /\ Published \subseteq Published' /\ SoundMessages \subseteq M
      /\ \A n \in Nodes : Stored(n) \subseteq Published
  BY Grow DEF KnownSound
<1>c. Sound(chan)
  <2>1. \A p \in Nodes \X Nodes : chan[p] \in Seq(SoundMessages)
    BY DEF ChanSound
  <2>2. \A p \in Nodes \X Nodes : chan[p] \in Seq(M)
    BY <1>m, <2>1, SeqMonotonic
  <2> QED
    BY <2>2 DEF ChanSound
<1>p. \A hs \in SUBSET Published' : /\ Msg("event", hs) \in M /\ Msg("last", hs) \in M
                                    /\ Msg("reply", hs) \in M
  BY DEF SoundMessages, Msg
<1>q. \A h \in Created : Prev(h) # 0 => Prev(h) \in Events
  BY <1>e DEF ChainSound, Created
<1> SUFFICES Sound(chan')
  BY DEF ChanSound
<1> HIDE DEF M
<1>1. ASSUME NEW n \in Nodes, NEW h \in Events, Publish(n, h) PROVE Sound(chan')
  <2>1. h \in Published'
    <3>1. h \in Created
      BY <1>1 DEF Publish, TypeOK, Created
    <3>2. h \in Stored(n)'
      BY <1>1, <3>1, StoredDoes DEF Publish
    <3> QED
      BY <3>2 DEF KnownSound
  <2>2. Msg("event", {h}) \in M
    BY <1>p, <2>1
  <2> QED
    BY <1>1, <1>c, <2>2, SendDoes DEF Publish
<1>2. ASSUME NEW n \in Nodes, NEW m \in Nodes, Connect(n, m) PROVE Sound(chan')
  <2>1. \A o \in Nodes : LastEvents(o) \subseteq Published'
    BY <1>m DEF LastEvents
  <2>2. \A o \in Nodes : Msg("last", LastEvents(o)) \in M
    BY <1>p, <2>1
  <2>3. \A o \in Nodes : <<Msg("last", LastEvents(o))>> \in Seq(M)
    BY <2>2
  <2> QED
    BY <1>2, <1>c, <2>3 DEF Connect
<1>3. ASSUME NEW lost, Close(lost) PROVE Sound(chan')
  BY <1>3, <1>c, EmptyIn DEF Close
<1>4. ASSUME NEW n \in Nodes, NEW m \in Nodes, ReceiveEvent(n, m) \/ ReceiveError(n, m)
      PROVE  Sound(chan')
  <2>1. chan' = Rest(m, n) /\ chan[<<m, n>>] # <<>>
    BY <1>4 DEF ReceiveEvent, ReceiveError, Take
  <2> QED
    BY <1>c, <2>1, RestDoes
<1>5. ASSUME NEW n \in Nodes, NEW m \in Nodes, ReceiveLast(n, m) PROVE Sound(chan')
  <2>1. PICK hs \in SUBSET Events :
           /\ chan[<<m, n>>] # <<>>
           /\ LET unknown == SetToSeq(hs \ Stored(n))
              IN  chan' = [Rest(m, n) EXCEPT ![<<n, m>>] =
                               @ \o [i \in 1..Len(unknown) |-> Msg("get", {unknown[i]})]]
    BY <1>5 DEF ReceiveLast, Take
  <2> DEFINE new == hs \ Stored(n)
             unknown == SetToSeq(new)
             gets == [i \in 1..Len(unknown) |-> Msg("get", {unknown[i]})]
  <2>2. new \in SUBSET Events
    OBVIOUS
  <2>3. chan' = [Rest(m, n) EXCEPT ![<<n, m>>] = @ \o gets]
    BY <2>1
  <2> HIDE DEF new
  <2>4. Cardinality(new) \in Nat /\ unknown \in [1..Cardinality(new) -> new]
    BY <2>2, SomeOrder
  <2>a. unknown \in [1..Cardinality(new) -> Events]
    BY <2>2, <2>4
  <2> HIDE DEF unknown
  <2>5. gets \in Seq(M)
    BY <1>g, <2>4, <2>a, GetsDoes
  <2> HIDE DEF gets
  <2>6. Sound(Rest(m, n))
    BY <1>c, <2>1, RestDoes
  <2>7. Rest(m, n)[<<n, m>>] \o gets \in Seq(M)
    BY <2>5, <2>6, ConcatProperties
  <2> QED
    BY <2>3, <2>6, <2>7
<1>6. ASSUME NEW n \in Nodes, NEW m \in Nodes, ReceiveGet(n, m) PROVE Sound(chan')
  <2>1. PICK h \in Events : /\ chan[<<m, n>>] # <<>>
                            /\ chan' = Answer(m, n, Msg("reply", {h} \cap Stored(n)))
    BY <1>6 DEF ReceiveGet, Take
  <2>2. Msg("reply", {h} \cap Stored(n)) \in M
    BY <1>p, <1>m
  <2>3. Tail(chan[<<m, n>>]) \in Seq(M)
    BY <1>c, <2>1, FirstOf
  <2>4. \A s \in Seq(M) : Append(s, Msg("reply", {h} \cap Stored(n))) \in Seq(M)
    BY <2>2, AppendProperties
  <2> QED
    BY <1>c, <2>1, <2>3, <2>4 DEF Answer
<1>7. ASSUME NEW n \in Nodes, NEW h \in Events, Park(n, h) PROVE Sound(chan')
  <2>1. h \in Created /\ stage[n][h] = "park"
    BY <1>7, AtDoes DEF Park
  <2>2. Prev(h) \in Events
    BY <1>q, <2>1 DEF StageSound
  <2>3. <<Prev(h)>> \in [1..1 -> Events]
    BY <2>2
  <2> QED
    BY <1>7, <1>c, <1>g, <2>3, RequestDoes DEF Park
<1>8. ASSUME NEW n \in Nodes, NEW h \in Events, Next(n, h) PROVE Sound(chan')
  <2>1. h \in Published
    BY <1>8, AtDoes DEF Next, KnownSound
  <2>2. Msg("event", {h}) \in M
    BY <1>p, <1>m, <2>1
  <2>3. \A ms : Sound(SendTo(n, ms, Msg("event", {h})))
    BY <1>c, <2>2, SendDoes
  <2>4. chan' = chan \/ \E ms : chan' = SendTo(n, ms, Msg("event", {h}))
    BY <1>8 DEF Next
  <2> HIDE DEF Sound
  <2> QED
    BY <1>c, <2>3, <2>4
<1>9. ASSUME NEW n \in Nodes, NEW m \in Nodes, RequestUnresolvedEvents(n, m)
      PROVE  Sound(chan')
  <2>1. PICK hs \in Unresolved(n) : chan' = Request(n, {m} \cap Peers(n), hs)
    BY <1>9 DEF RequestUnresolvedEvents
  <2> DEFINE asked == {h \in unhandled[n] :
                    \A k \in unhandled[n] : k >= h => Prev(k) \notin unhandled[n]}
  <2>2. asked \in SUBSET Events /\ \A h \in asked : Prev(h) \in Events
    BY <1>e, <1>q DEF StoredSound, TypeOK, Created
  <2>3. PICK s \in [1..Cardinality(asked) -> asked] : hs = [i \in DOMAIN s |-> Prev(s[i])]
    BY <2>1 DEF Unresolved
  <2> HIDE DEF asked
  <2>4. Cardinality(asked) \in Nat
    BY <2>2, SomeOrder
  <2>5. hs \in [1..Cardinality(asked) -> Events]
    BY <2>2, <2>3
  <2> QED
    BY <1>c, <1>g, <2>1, <2>4, <2>5, RequestDoes
<1>10. CASE UNCHANGED chan
  BY <1>10, <1>c
<1>a. ASSUME NEW n \in Nodes, NEW h \in Events, HandleEvent(n, h)
      PROVE  UNCHANGED chan \/ Park(n, h) \/ Next(n, h)
  BY <1>a DEF HandleEvent, Ignore, Check, Apply, RejectCancel, Store, network
<1>b. ASSUME NEW n \in Nodes, Create(n) \/ Start(n) \/ InitFromPeers(n)
                              \/ RequestUnresolvedEventsFromAllPeers(n)
      PROVE  UNCHANGED chan
  BY <1>b DEF Create, Start, InitFromPeers, RequestUnresolvedEventsFromAllPeers, network
<1>d. ASSUME NEW n \in Nodes, NEW r \in resumed[n], Resume(n, r) PROVE UNCHANGED chan
  BY <1>d DEF Resume, network
<1>f. ASSUME NEW n \in Nodes, Crash(n) PROVE \E lost : Close(lost)
  BY <1>f DEF Crash
<1>h. ASSUME NEW n \in Nodes, NEW m \in Nodes, Disconnect(n, m) PROVE \E lost : Close(lost)
  BY <1>h DEF Disconnect
<1>i. UNCHANGED vars => UNCHANGED chan
  BY DEF vars, network
<1> HIDE DEF Sound
<1> QED
  BY <1>1, <1>2, <1>3, <1>4, <1>5, <1>6, <1>7, <1>8, <1>9, <1>10, <1>a, <1>b, <1>d, <1>f, <1>h,
     <1>i DEF Step, Advance, ApplyThrows, Receive

-----------------------------------------------------------------------------
(* The order of what is stored and applied *)

LEMMA AppendNew ==
    ASSUME NEW S, NEW s \in Seq(S), NEW e \in S, e \notin ToSet(s),
           \A i, j \in DOMAIN s : s[i] = s[j] => i = j
    PROVE  \A i, j \in DOMAIN Append(s, e) : Append(s, e)[i] = Append(s, e)[j] => i = j
<1>1. /\ Len(s) \in Nat
      /\ DOMAIN s = 1..Len(s) /\ DOMAIN Append(s, e) = 1..(Len(s) + 1)
      /\ \A i \in 1..Len(s) : Append(s, e)[i] = s[i] /\ s[i] # e
      /\ Append(s, e)[Len(s) + 1] = e
  BY AppendSet, SeqSet
<1> QED
  BY <1>1

LEMMA StoredOnceStep ==
    ASSUME TypeOK, OwnSound, StageSound, StoredOnce, [Step]_vars
    PROVE  StoredOnce'
<1>e. \A n \in Nodes : events[n] \in Seq(Created)
  BY DEF TypeOK, Created
<1> SUFFICES ASSUME NEW m \in Nodes PROVE IsInjective(events'[m])
  BY DEF StoredOnce
<1>1. CASE events' = events
  BY <1>1 DEF StoredOnce
<1>2. ASSUME NEW n \in Nodes, NEW h \in Events, Publish(n, h) \/ Store(n, h)
      PROVE  IsInjective(events'[m])
  <2>1. h \in Created /\ h \notin Stored(n)
    <3>1. CASE Publish(n, h)
      BY <3>1 DEF Publish, OwnSound, TypeOK, Created
    <3>2. CASE Store(n, h)
      BY <3>2, AtDoes DEF Store, StageSound, Ignored
    <3> QED
      BY <1>2, <3>1, <3>2
  <2>2. events' = [events EXCEPT ![n] = Append(@, h)]
    BY <1>2 DEF Publish, Store
  <2>3. /\ events'[n] = Append(events[n], h)
        /\ m # n => events'[m] = events[m]
    BY <2>1, <2>2, StoredDoes
  <2>4. IsInjective(Append(events[n], h))
    <3>1. \A i, j \in DOMAIN events[n] : events[n][i] = events[n][j] => i = j
      BY DEF StoredOnce, IsInjective
    <3>2. events[n] \in Seq(Created) /\ h \in Created /\ h \notin ToSet(events[n])
      BY <1>e, <2>1 DEF Stored
    <3> QED
      BY <3>1, <3>2, AppendNew DEF IsInjective
  <2> QED
    BY <2>3, <2>4 DEF StoredOnce
<1>3. (\E n \in Nodes : Create(n)) => events' = events
  BY DEF Create, durable
<1> QED
  BY <1>1, <1>2, <1>3, WhoStores

\* A node gets its status at its first start, when it has stored nothing.
LEMMA SinceStep ==
    ASSUME TypeOK, DownSound, [Step]_vars, NEW m \in Nodes
    PROVE  since'[m] = since[m] \/ (events'[m] = <<>> /\ applied'[m] = <<>>)
<1>1. ASSUME NEW n \in Nodes, Start(n)
      PROVE  since'[m] = since[m] \/ (events'[m] = <<>> /\ applied'[m] = <<>>)
  BY <1>1 DEF Start, TypeOK, DownSound
<1>2. ASSUME NEW n \in Nodes, Create(n) \/ Crash(n) PROVE since' = since
  BY <1>2 DEF Create, Crash, durable
<1>3. ASSUME NEW n \in Nodes, NEW h \in Events, Publish(n, h) \/ HandleEvent(n, h)
      PROVE  since' = since
  BY <1>3, OnlyOwn
<1>4. ASSUME NEW n \in Nodes, NEW r \in resumed[n], Resume(n, r) PROVE since' = since
  BY <1>4 DEF Resume
<1>5. ASSUME NEW n \in Nodes, NEW o \in Nodes, Disconnect(n, o) \/ ReceiveEvent(n, o)
      PROVE  since' = since
  BY <1>5 DEF Disconnect, ReceiveEvent, durable
<1> QED
  BY <1>1, <1>2, <1>3, <1>4, <1>5, Steps

StoredInOrderAt(n) ==
    \A i \in DOMAIN events[n] :
        LET h == events[n][i]
        IN  Origin(h) # n /\ h >= since[n] /\ Prev(h) # 0
                => \E j \in 1..(i - 1) : events[n][j] = Prev(h)

LEMMA StoredInOrderStep ==
    ASSUME TypeOK, ChainSound, OwnSound, DownSound, StageSound, StoredInOrder, [Step]_vars
    PROVE  StoredInOrder'
<1>s. \A n \in Nodes : StoredInOrderAt(n)
  BY DEF StoredInOrder, StoredInOrderAt
<1> SUFFICES ASSUME NEW m \in Nodes PROVE StoredInOrderAt(m)'
  BY DEF StoredInOrder, StoredInOrderAt
<1>e. /\ events[m] \in Seq(Created)
      /\ Len(events[m]) \in Nat /\ DOMAIN events[m] = 1..Len(events[m])
      /\ \A i \in DOMAIN events[m] : events[m][i] \in Created
  <2>1. events[m] \in Seq(Created)
    BY DEF TypeOK, Created
  <2> QED
    BY <2>1, SeqSet, ElementOfSeq
<1>g. \A h \in Created : Origin(h)' = Origin(h) /\ Prev(h)' = Prev(h)
  BY Grow
<1>f. events'[m] = <<>> => StoredInOrderAt(m)'
  BY EmptySeq DEF StoredInOrderAt
<1>1. CASE events'[m] = events[m]
  <2>1. CASE since'[m] = since[m]
    <3> SUFFICES ASSUME NEW i \in DOMAIN events[m], NEW k, k = events[m][i],
                        Origin(k)' # m, k >= since[m], Prev(k)' # 0
                 PROVE  \E j \in 1..(i - 1) : events[m][j] = Prev(k)'
      BY <1>1, <2>1 DEF StoredInOrderAt, Origin, Prev
    <3>1. k \in Created
      BY <1>e
    <3>2. Origin(k) # m /\ Prev(k) # 0 /\ Prev(k)' = Prev(k)
      BY <1>g, <3>1
    <3>3. \E j \in 1..(i - 1) : events[m][j] = Prev(k)
      BY <1>s, <3>2 DEF StoredInOrderAt
    <3> QED
      BY <3>2, <3>3
  <2> QED
    BY <1>f, <2>1, SinceStep
<1>2. ASSUME NEW n \in Nodes, NEW h \in Events, Publish(n, h) \/ Store(n, h), m = n
      PROVE  StoredInOrderAt(m)'
  <2>1. h \in Created
    <3>1. CASE Publish(n, h)
      BY <3>1 DEF Publish, TypeOK, Created
    <3>2. CASE Store(n, h)
      BY <3>2, AtDoes DEF Store
    <3> QED
      BY <1>2, <3>1, <3>2
  <2>2. Origin(h) # m /\ h >= since[m] /\ Prev(h) # 0 => Prev(h) \in Stored(m)
    <3>1. CASE Publish(n, h)
      BY <1>2, <3>1 DEF Publish, OwnSound
    <3>2. CASE Store(n, h)
      BY <1>2, <3>2 DEF Store, At, StageSound, PrevKnown
    <3> QED
      BY <1>2, <3>1, <3>2
  <2>3. events' = [events EXCEPT ![n] = Append(@, h)] /\ created' = created /\ since' = since
    BY <1>2 DEF Publish, Store
  <2>4. events'[m] = Append(events[m], h)
    BY <1>2, <2>1, <2>3, StoredDoes
  <2>5. /\ DOMAIN events'[m] = 1..(Len(events[m]) + 1)
        /\ \A i \in 1..Len(events[m]) : events'[m][i] = events[m][i]
        /\ events'[m][Len(events[m]) + 1] = h
    BY <1>e, <2>1, <2>4, AppendSet
  <2>6. \A k : Origin(k)' = Origin(k) /\ Prev(k)' = Prev(k)
    BY <2>3 DEF Origin, Prev
  <2>7. Prev(h) \in Stored(m) => \E j \in 1..Len(events[m]) : events[m][j] = Prev(h)
    BY <1>e, SeqSet DEF Stored
  <2> SUFFICES ASSUME NEW i \in DOMAIN events'[m], NEW k, k = events'[m][i],
                      Origin(k) # m, k >= since[m], Prev(k) # 0
               PROVE  \E j \in 1..(i - 1) : events'[m][j] = Prev(k)
    BY <2>3, <2>6 DEF StoredInOrderAt
  <2>8. CASE i \in 1..Len(events[m])
    <3>1. k = events[m][i]
      BY <2>5, <2>8
    <3>2. PICK j \in 1..(i - 1) : events[m][j] = Prev(k)
      BY <1>s, <1>e, <2>8, <3>1 DEF StoredInOrderAt
    <3>3. j \in 1..Len(events[m])
      BY <1>e, <2>8, <3>2
    <3> QED
      BY <2>5, <3>2, <3>3
  <2>9. CASE i = Len(events[m]) + 1
    <3>1. k = h
      BY <2>5, <2>9
    <3>2. PICK j \in 1..Len(events[m]) : events[m][j] = Prev(k)
      BY <2>2, <2>7, <3>1
    <3> QED
      BY <1>e, <2>5, <2>9, <3>2
  <2> QED
    BY <1>e, <2>5, <2>8, <2>9
<1>3. ASSUME NEW n \in Nodes, NEW h \in Events, Publish(n, h) \/ Store(n, h), m # n
      PROVE  events'[m] = events[m]
  BY <1>3 DEF Publish, Store, TypeOK
<1>4. (\E n \in Nodes : Create(n)) => events' = events
  BY DEF Create, durable
<1> QED
  BY <1>1, <1>2, <1>3, <1>4, WhoStores

LEMMA PrefixSet ==
    ASSUME NEW S, NEW s \in Seq(S), NEW i \in 1..Len(s), NEW x
    PROVE  x \in ToSet(SubSeq(s, 1, i - 1)) <=> \E j \in 1..(i - 1) : s[j] = x
<1>1. Len(s) \in Nat /\ DOMAIN s = 1..Len(s)
  BY SeqSet
<1>2. \A j \in 1..(i - 1) : s[j] \in S
  BY <1>1
<1>3. /\ SubSeq(s, 1, i - 1) \in Seq(S)
      /\ Len(SubSeq(s, 1, i - 1)) = i - 1
      /\ \A j \in 1..(i - 1) : SubSeq(s, 1, i - 1)[j] = s[j]
  BY <1>1, <1>2, SubSeqProperties
<1>4. \A y : y \in ToSet(SubSeq(s, 1, i - 1)) <=>
                \E j \in 1..Len(SubSeq(s, 1, i - 1)) : SubSeq(s, 1, i - 1)[j] = y
  BY <1>3, SeqSet
<1> QED
  BY <1>3, <1>4

\* AppliedInOrder of one node, without the operators on sequences
AppliedInOrderAt(n) ==
    \A i \in 1..Len(applied[n]) :
        LET h == applied[n][i]
        IN  h >= since[n] /\ Prev(h) # 0 /\ <<n, Prev(h)>> \notin Bad
                => \E j \in 1..(i - 1) : applied[n][j] = Prev(h)

LEMMA AppliedInOrderMeans ==
    ASSUME TypeOK
    PROVE  AppliedInOrder <=> \A n \in Nodes : AppliedInOrderAt(n)
<1>1. \A n \in Nodes : applied[n] \in Seq(Created) /\ DOMAIN applied[n] = 1..Len(applied[n])
  BY SeqSet DEF TypeOK, Created
<1>2. \A n \in Nodes : \A x : \A i \in 1..Len(applied[n]) :
         x \in ToSet(SubSeq(applied[n], 1, i - 1)) <=> \E j \in 1..(i - 1) : applied[n][j] = x
  BY <1>1, PrefixSet
<1> QED
  BY <1>1, <1>2 DEF AppliedInOrder, AppliedInOrderAt

LEMMA AppliedInOrderStep ==
    ASSUME TypeOK, TypeOK', ChainSound, DownSound, StageSound, StoredSound, AppliedInOrder,
           [Step]_vars
    PROVE  AppliedInOrder'
<1>s. \A n \in Nodes : AppliedInOrderAt(n)
  BY AppliedInOrderMeans
<1>t. (\A n \in Nodes : AppliedInOrderAt(n)') => AppliedInOrder'
  <2>1. \A n \in Nodes : /\ applied'[n] \in Seq(Created')
                         /\ DOMAIN applied'[n] = 1..Len(applied'[n])
    BY SeqSet DEF TypeOK, Created
  <2>2. \A n \in Nodes : \A x : \A i \in 1..Len(applied'[n]) :
           x \in ToSet(SubSeq(applied'[n], 1, i - 1))
              <=> \E j \in 1..(i - 1) : applied'[n][j] = x
    BY <2>1, PrefixSet
  <2> QED
    BY <2>1, <2>2 DEF AppliedInOrder, AppliedInOrderAt
<1> SUFFICES ASSUME NEW m \in Nodes PROVE AppliedInOrderAt(m)'
  BY <1>t
<1>e. /\ applied[m] \in Seq(Created) /\ Len(applied[m]) \in Nat
      /\ \A i \in 1..Len(applied[m]) : applied[m][i] \in Created
  <2>1. applied[m] \in Seq(Created)
    BY DEF TypeOK, Created
  <2> QED
    BY <2>1, SeqSet, ElementOfSeq
<1>g. \A h \in Created : Origin(h)' = Origin(h) /\ Prev(h)' = Prev(h)
  BY Grow
<1>f. applied'[m] = <<>> => AppliedInOrderAt(m)'
  BY EmptySeq DEF AppliedInOrderAt
<1>1. CASE applied'[m] = applied[m]
  <2>1. CASE since'[m] = since[m]
    <3> SUFFICES ASSUME NEW i \in 1..Len(applied[m]), NEW k, k = applied[m][i],
                        k >= since[m], Prev(k)' # 0, <<m, Prev(k)'>> \notin Bad
                 PROVE  \E j \in 1..(i - 1) : applied[m][j] = Prev(k)'
      BY <1>1, <2>1 DEF AppliedInOrderAt, Prev
    <3>1. k \in Created
      BY <1>e
    <3>2. Prev(k)' = Prev(k)
      BY <1>g, <3>1
    <3>3. \E j \in 1..(i - 1) : applied[m][j] = Prev(k)
      BY <1>s, <3>2 DEF AppliedInOrderAt
    <3> QED
      BY <3>2, <3>3
  <2> QED
    BY <1>f, <2>1, SinceStep
<1>2. ASSUME NEW h \in Events, Apply(m, h), applied'[m] # applied[m]
      PROVE  AppliedInOrderAt(m)'
  <2>1. h \in Created /\ stage[m][h] = "apply"
    BY <1>2, AtDoes DEF Apply
  <2>2. UNCHANGED <<created, since>>
    BY <1>2 DEF Apply
  <2>3. applied'[m] = Append(applied[m], h)
    BY <1>2 DEF Apply, TypeOK
  <2>4. /\ Len(applied'[m]) = Len(applied[m]) + 1
        /\ \A i \in 1..Len(applied[m]) : applied'[m][i] = applied[m][i]
        /\ applied'[m][Len(applied[m]) + 1] = h
    BY <1>e, <2>1, <2>3, AppendSet
  <2>5. ASSUME h >= since[m], Prev(h) # 0, <<m, Prev(h)>> \notin Bad
        PROVE  \E j \in 1..Len(applied[m]) : applied[m][j] = Prev(h)
    <3>1. Prev(h) \in Stored(m) /\ Origin(h) # m
      BY <2>1, <2>5 DEF StageSound, PrevKnown, Ignored
    <3>2. Origin(Prev(h)) # m
      BY <2>1, <2>5, <3>1 DEF ChainSound
    <3>3. Prev(h) \in ToSet(applied[m])
      BY <2>5, <3>1, <3>2 DEF StoredSound
    <3> QED
      BY <1>e, <3>3, SeqSet
  <2>6. \A k : Prev(k)' = Prev(k)
    BY <2>2 DEF Prev
  <2> SUFFICES ASSUME NEW i \in 1..Len(applied'[m]), NEW k, k = applied'[m][i],
                      k >= since[m], Prev(k) # 0, <<m, Prev(k)>> \notin Bad
               PROVE  \E j \in 1..(i - 1) : applied'[m][j] = Prev(k)
    BY <2>2, <2>6 DEF AppliedInOrderAt
  <2>7. CASE i \in 1..Len(applied[m])
    <3>1. k = applied[m][i]
      BY <2>4, <2>7
    <3>2. PICK j \in 1..(i - 1) : applied[m][j] = Prev(k)
      BY <1>s, <2>7, <3>1 DEF AppliedInOrderAt
    <3>3. j \in 1..Len(applied[m])
      BY <1>e, <2>7, <3>2
    <3> QED
      BY <2>4, <3>2, <3>3
  <2>8. CASE i = Len(applied[m]) + 1
    <3>1. k = h
      BY <2>4, <2>8
    <3>2. PICK j \in 1..Len(applied[m]) : applied[m][j] = Prev(k)
      BY <2>5, <3>1
    <3> QED
      BY <1>e, <2>4, <2>8, <3>2
  <2> QED
    BY <1>e, <2>4, <2>7, <2>8
<1>3. ASSUME NEW n \in Nodes, NEW h \in Events, Apply(n, h), m # n
      PROVE  applied'[m] = applied[m]
  BY <1>3 DEF Apply, TypeOK
<1>4. ASSUME NEW n \in Nodes, NEW h \in Events, Publish(n, h) \/ Park(n, h) \/ Store(n, h)
      PROVE  applied' = applied
  BY <1>4 DEF Publish, Park, Store
<1>5. ASSUME NEW n \in Nodes, NEW r \in resumed[n], Resume(n, r)
      PROVE  applied' = applied
  BY <1>5 DEF Resume
<1> QED
  BY <1>1, <1>2, <1>3, <1>4, <1>5, WhoApplies

-----------------------------------------------------------------------------
(* How often an event is applied *)

LEMMA PlacesFinite ==
    ASSUME TypeOK, NEW n \in Nodes, NEW h
    PROVE  IsFiniteSet(Places(n, h)) /\ Cardinality(Places(n, h)) \in Nat
<1>1. Len(applied[n]) \in Nat /\ DOMAIN applied[n] = 1..Len(applied[n])
  BY SeqSet DEF TypeOK
<1>2. IsFiniteSet(1..Len(applied[n])) /\ Places(n, h) \in SUBSET (1..Len(applied[n]))
  BY <1>1, FS_Interval DEF Places
<1>3. IsFiniteSet(Places(n, h))
  BY <1>2, FS_Subset
<1> QED
  BY <1>3, FS_CardinalityType

\* The node has recorded, or is about to record, that it has applied the event.
Recorded(n, h) == h \in Stored(n) \/ stage[n][h] = "store"

ReapplyAt(n, h) ==
    Cardinality(Places(n, h)) <= IF Recorded(n, h) THEN 1 + crashes ELSE crashes

LEMMA ReapplyKept ==
    ASSUME TypeOK, NEW n \in Nodes, NEW h \in Events, ReapplyAt(n, h),
           applied'[n] = applied[n], crashes' \in Nat,
           (crashes' = crashes /\ (Recorded(n, h) => Recorded(n, h)')) \/ crashes' = crashes + 1
    PROVE  ReapplyAt(n, h)'
<1>1. Places(n, h)' = Places(n, h) /\ Cardinality(Places(n, h)) \in Nat
  BY PlacesFinite DEF Places
<1>2. crashes \in Nat
  BY BoundsNat DEF TypeOK
<1>3. Cardinality(Places(n, h)) <= IF Recorded(n, h)' THEN 1 + crashes' ELSE crashes'
  BY <1>1, <1>2 DEF ReapplyAt
<1> QED
  BY <1>1, <1>3 DEF ReapplyAt

LEMMA ReapplyStep ==
    ASSUME TypeOK, TypeOK', ChainSound, StageSound, ReapplyBound, [Step]_vars
    PROVE  ReapplyBound'
<1>s. \A n \in Nodes, h \in Events : ReapplyAt(n, h)
  BY DEF ReapplyBound, ReapplyAt, Recorded
<1> SUFFICES ASSUME NEW m \in Nodes, NEW k \in Events PROVE ReapplyAt(m, k)'
  BY DEF ReapplyBound, ReapplyAt, Recorded
<1>c. crashes \in Nat /\ crashes' \in Nat
  BY BoundsNat DEF TypeOK
<1>g. k \in Stored(m) => k \in Stored(m)'
  BY Grow
<1>k. ASSUME applied' = applied, crashes' = crashes,
             stage[m][k] = "store" => stage'[m][k] = "store"
      PROVE  ReapplyAt(m, k)'
  <2>1. Recorded(m, k) => Recorded(m, k)'
    BY <1>g, <1>k DEF Recorded
  <2> QED
    BY <1>s, <1>c, <1>k, <2>1, ReapplyKept
<1>1. ASSUME NEW n \in Nodes, Create(n) \/ Start(n) PROVE ReapplyAt(m, k)'
  BY <1>1, <1>k DEF Create, Start, durable, handlers, bounds
<1>2. ASSUME NEW n \in Nodes, Crash(n) PROVE ReapplyAt(m, k)'
  <2>1. applied' = applied /\ crashes' = crashes + 1
    BY <1>2 DEF Crash, durable
  <2> QED
    BY <1>s, <1>c, <2>1, ReapplyKept
<1>3. ASSUME NEW n \in Nodes, NEW h \in Events, Publish(n, h) PROVE ReapplyAt(m, k)'
  BY <1>3, <1>k DEF Publish, handlers, bounds
<1>4. ASSUME NEW n \in Nodes, NEW h \in Events, HandleEvent(n, h) PROVE ReapplyAt(m, k)'
  <2>a. crashes' = crashes
    BY <1>4 DEF HandleEvent, Ignore, Check, Park, Apply, RejectCancel, Store, Next, bounds
  <2>1. CASE Ignore(n, h) \/ Park(n, h) \/ RejectCancel(n, h) \/ Next(n, h)
    <3>1. Finish(n, h) /\ applied' = applied /\ lock[n][h] # <<>> /\ stage[n][h] # "store"
      BY <2>1 DEF Ignore, Park, RejectCancel, Next, At, durable
    <3>2. stage[m][k] = "store" => stage'[m][k] = "store"
      BY <3>1, FinishDoes
    <3> QED
      BY <1>k, <2>a, <3>1, <3>2
  <2>2. CASE Check(n, h)
    <3>1. applied' = applied /\ stage[n][h] = "check"
      BY <2>2 DEF Check, At, durable
    <3>2. stage[m][k] = "store" => stage'[m][k] = "store"
      BY <2>2, <3>1 DEF Check, TypeOK
    <3> QED
      BY <1>k, <2>a, <3>1, <3>2
  <2>3. CASE Apply(n, h)
    <3>1. h \in Created /\ stage[n][h] = "apply" /\ events' = events
      BY <2>3, AtDoes DEF Apply
    <3>2. stage' = [stage EXCEPT ![n][h] = "store"]
      BY <2>3 DEF Apply
    <3>3. CASE applied'[m] = applied[m]
      <4>1. Recorded(m, k) => Recorded(m, k)'
        BY <1>g, <3>1, <3>2 DEF Recorded, TypeOK
      <4> QED
        BY <1>s, <1>c, <2>a, <3>3, <4>1, ReapplyKept
    <3>4. CASE applied'[m] # applied[m]
      <4>1. m = n /\ applied'[m] = Append(applied[m], h)
        BY <2>3, <3>4 DEF Apply, TypeOK
      <4>2. applied[m] \in Seq(Created)
        BY DEF TypeOK, Created
      <4>3. /\ Len(applied[m]) \in Nat
            /\ DOMAIN applied[m] = 1..Len(applied[m])
            /\ DOMAIN applied'[m] = 1..(Len(applied[m]) + 1)
            /\ \A i \in 1..Len(applied[m]) : applied'[m][i] = applied[m][i]
            /\ applied'[m][Len(applied[m]) + 1] = h
        BY <3>1, <4>1, <4>2, AppendSet, SeqSet
      <4>4. Cardinality(Places(m, k)) \in Nat /\ IsFiniteSet(Places(m, k))
        BY PlacesFinite
      <4>5. CASE k = h
        <5>1. Places(m, k)' = Places(m, k) \cup {Len(applied[m]) + 1}
          BY <4>3, <4>5 DEF Places
        <5>2. PICK old, new : old = Places(m, k) /\ new = Places(m, k)'
          OBVIOUS
        <5>3. Cardinality(new) \in Nat /\ Cardinality(new) <= Cardinality(old) + 1
          <6>1. /\ new = old \cup {Len(applied[m]) + 1}
                /\ IsFiniteSet(old) /\ Cardinality(old) \in Nat
            BY <4>4, <5>1, <5>2
          <6>2. \A x : Cardinality(old \cup {x}) =
                         IF x \in old THEN Cardinality(old) ELSE Cardinality(old) + 1
            BY <6>1, FS_AddElement
          <6>3. Cardinality(new) = Cardinality(old) \/ Cardinality(new) = Cardinality(old) + 1
            BY <6>1, <6>2, Zenon
          <6> QED
            BY <6>1, <6>3
        <5>4. ~Recorded(m, k)
          BY <3>1, <4>1, <4>5 DEF Recorded, StageSound, Ignored
        <5>5. Recorded(m, k)'
          BY <3>2, <4>1, <4>5 DEF Recorded, TypeOK
        <5>6. Cardinality(old) <= crashes
          BY <1>s, <5>2, <5>4 DEF ReapplyAt
        <5>7. Cardinality(new) <= 1 + crashes'
          BY <1>c, <2>a, <4>4, <5>2, <5>3, <5>6
        <5> QED
          BY <5>2, <5>5, <5>7 DEF ReapplyAt
      <4>6. CASE k # h
        <5>1. Places(m, k)' = Places(m, k)
          BY <4>3, <4>6 DEF Places
        <5>2. Recorded(m, k)' <=> Recorded(m, k)
          BY <3>1, <3>2, <4>6 DEF Recorded, Stored, TypeOK
        <5> QED
          BY <1>s, <2>a, <5>1, <5>2 DEF ReapplyAt
      <4> QED
        BY <4>5, <4>6
    <3> QED
      BY <3>3, <3>4
  <2>4. CASE Store(n, h)
    <3>1. h \in Created /\ applied' = applied
      BY <2>4, AtDoes DEF Store
    <3>2. Stored(n)' = Stored(n) \cup {h}
      BY <2>4, <3>1, StoredDoes DEF Store
    <3>3. Recorded(m, k) => Recorded(m, k)'
      BY <1>g, <2>4, <3>2 DEF Recorded, Store, TypeOK
    <3> QED
      BY <1>s, <1>c, <2>a, <3>1, <3>3, ReapplyKept
  <2> QED
    BY <1>4, <2>1, <2>2, <2>3, <2>4 DEF HandleEvent
<1>5. ASSUME NEW n \in Nodes, NEW r \in resumed[n], Resume(n, r) PROVE ReapplyAt(m, k)'
  BY <1>5, <1>k DEF Resume, bounds
<1>6. ASSUME NEW n \in Nodes, NEW o \in Nodes, Disconnect(n, o) \/ ReceiveEvent(n, o)
      PROVE  ReapplyAt(m, k)'
  BY <1>6, <1>k DEF Disconnect, ReceiveEvent, durable, bounds
<1>7. CASE UNCHANGED <<created, events, unhandled, since, applied, up, prevHash, signing,
                       handlers, crashes>>
  BY <1>7, <1>k DEF handlers
<1> QED
  BY <1>1, <1>2, <1>3, <1>4, <1>5, <1>6, <1>7, Steps

-----------------------------------------------------------------------------
(* The theorems *)

LEMMA InitIInv == Init => IInv
<1> SUFFICES ASSUME Init PROVE IInv
  OBVIOUS
<1>1. Len(created) = 0 /\ created = <<>> /\ Created = {}
  BY EmptySeq DEF Init, Created
<1>2. /\ \A n \in Nodes : events[n] = <<>> /\ applied[n] = <<>> /\ unhandled[n] = {}
      /\ \A n \in Nodes : signing[n] = {} /\ resumed[n] = {} /\ prevHash[n] = 0
      /\ \A n \in Nodes : lock[n] = Unlocked /\ stage[n] = Unstarted
      /\ \A n \in Nodes : since[n] = (IF n \in Late THEN 0 ELSE 1) /\ up[n] = (n \notin Late)
  BY DEF Init
<1>3. /\ \A h \in Events : Unlocked[h] = <<>> /\ Unstarted[h] = "check"
      /\ Unlocked \in [Events -> Seq(Calls)]
      /\ Unstarted \in [Events -> {"check", "park", "apply", "store", "next"}]
  BY EmptySeq DEF Unlocked, Unstarted
<1>4. \A n \in Nodes : Stored(n) = {} /\ DOMAIN events[n] = {} /\ DOMAIN applied[n] = {}
  BY <1>2, EmptySeq DEF Stored, ToSet
<1>5. Types
  <2>1. /\ created \in Seq([origin : Active, prev : {0} \cup Events])
        /\ Len(created) <= Len(Kind)
    BY <1>1, EventsNat, EmptySeq
  <2>2. /\ events \in [Nodes -> Seq(1..Len(created))]
        /\ applied \in [Nodes -> Seq(1..Len(created))]
    BY EmptySeq DEF Init
  <2>3. /\ unhandled \in [Nodes -> SUBSET (1..Len(created))]
        /\ since \in [Nodes -> Nat] /\ initialized \in [Nodes -> BOOLEAN]
        /\ up \in [Nodes -> BOOLEAN]
        /\ startup \in [Nodes -> {"init", "resolve", "done"}]
        /\ asking \in [Nodes -> SUBSET Nodes]
        /\ signing \in [Nodes -> SUBSET (1..Len(created))]
        /\ resumed \in [Nodes -> SUBSET [event : 1..Len(created), peer : SUBSET Nodes]]
        /\ links \subseteq Wires
    BY DEF Init
  <2>4. prevHash \in [Nodes -> 0..Len(created)]
    BY <1>1 DEF Init
  <2>5. /\ lock \in [Nodes -> [Events -> Seq(Calls)]]
        /\ stage \in [Nodes -> [Events -> {"check", "park", "apply", "store", "next"}]]
    BY <1>3 DEF Init
  <2>6. drops \in 0..MaxDrops /\ crashes \in 0..MaxCrashes
    BY BoundsNat DEF Init
  <2> QED
    BY <2>1, <2>2, <2>3, <2>4, <2>5, <2>6 DEF Types
<1>6. ChainSound
  BY <1>1 DEF ChainSound
<1>7. OwnSound /\ DownSound
  <2>1. ASSUME NEW n \in Nodes PROVE since[n] = 0 => ~up[n]
    <3>1. CASE n \in Late
      BY <3>1 DEF Init
    <3>2. CASE n \notin Late
      BY <3>2 DEF Init
    <3> QED
      BY <3>1, <3>2
  <2> QED
    BY <1>2, <2>1 DEF OwnSound, DownSound
<1>8. StageSound
  BY <1>2, <1>3 DEF StageSound
<1>9. StoredSound /\ KnownSound
  BY <1>2, <1>3, <1>4 DEF StoredSound, KnownSound
<1>10. ChanSound
  BY EmptyIn DEF Init, Silent, ChanSound
<1>11. StoredOnce /\ StoredInOrder /\ AppliedInOrder
  BY <1>4 DEF StoredOnce, StoredInOrder, AppliedInOrder, IsInjective
<1>12. ReapplyBound
  <2>1. \A n \in Nodes, h \in Events : Places(n, h) = {}
    BY <1>4 DEF Places
  <2>2. Cardinality({}) = 0 /\ crashes = 0
    BY FS_EmptySet DEF Init
  <2> QED
    BY <2>1, <2>2 DEF ReapplyBound
<1>13. TypeOK
  BY <1>5, <1>9, <1>10, TypesComplete
<1> QED
  BY <1>6, <1>7, <1>8, <1>9, <1>10, <1>11, <1>12, <1>13 DEF IInv

LEMMA StepIInv == IInv /\ [Step]_vars => IInv'
<1> SUFFICES ASSUME IInv, [Step]_vars PROVE IInv'
  OBVIOUS
<1>1. /\ TypeOK /\ ChainSound /\ OwnSound /\ DownSound /\ StageSound /\ StoredSound
      /\ KnownSound /\ ChanSound
      /\ StoredOnce /\ StoredInOrder /\ AppliedInOrder /\ ReapplyBound
  BY DEF IInv
<1>2. ChainSound' /\ OwnSound'
  BY <1>1, ChainStep, OwnStep
<1>3. DownSound' /\ StageSound'
  BY <1>1, DownStep, StageStep
<1>4. StoredSound' /\ KnownSound'
  BY <1>1, StoredStep, KnownStep
<1>5. ChanSound'
  BY <1>1, <1>4, ChanStep
<1>6. Types'
  BY <1>1, TypesStep
<1>7. TypeOK'
  <2>1. (Types /\ KnownSound /\ ChanSound => TypeOK)'
    BY TypesComplete, PTL
  <2> QED
    BY <1>4, <1>5, <1>6, <2>1
<1>8. StoredOnce' /\ StoredInOrder'
  BY <1>1, StoredOnceStep, StoredInOrderStep
<1>9. AppliedInOrder' /\ ReapplyBound'
  BY <1>1, <1>7, AppliedInOrderStep, ReapplyStep
<1> QED
  BY <1>2, <1>3, <1>4, <1>5, <1>7, <1>8, <1>9 DEF IInv

\* The inductive invariant holds in every state of every matcher.
THEOREM Invariant == Spec => []IInv
  BY InitIInv, StepIInv, PTL DEF Spec

\* The variables keep their types: above all, no lock, parked event or message is
\* about an event that nobody has created.
THEOREM TypeCorrect == Spec => []TypeOK
<1>1. IInv => TypeOK
  BY DEF IInv
<1> QED
  BY <1>1, Invariant, PTL

\* No node stores an event twice, however often it arrives: handleEventUnderLock
\* looks it up under the lock on its hash.
THEOREM NeverStoredTwice == Spec => []StoredOnce
<1>1. IInv => StoredOnce
  BY DEF IInv
<1> QED
  BY <1>1, Invariant, PTL

\* Every node stores the events of the others in the order of their chains,
\* from its first start on.
THEOREM StoredInChainOrder == Spec => []StoredInOrder
<1>1. IInv => StoredInOrder
  BY DEF IInv
<1> QED
  BY <1>1, Invariant, PTL

\* Every node applies the events of the others in the order of their chains.
THEOREM AppliedInChainOrder == Spec => []AppliedInOrder
<1>1. IInv => AppliedInOrder
  BY DEF IInv
<1> QED
  BY <1>1, Invariant, PTL

\* A node applies an event at most once more than it has crashed.
THEOREM ReapplyBounded == Spec => []ReappliedOnlyAfterCrash
<1>1. IInv => ReappliedOnlyAfterCrash
  <2> SUFFICES ASSUME IInv, NEW n \in Nodes, NEW h \in Events
               PROVE  Cardinality(Places(n, h)) <= 1 + crashes
    BY DEF ReappliedOnlyAfterCrash, Places
  <2>1. TypeOK /\ ReapplyBound
    BY DEF IInv
  <2>2. Cardinality(Places(n, h)) \in Nat /\ crashes \in Nat
    BY <2>1, PlacesFinite, BoundsNat DEF TypeOK
  <2> QED
    BY <2>1, <2>2 DEF ReapplyBound
<1> QED
  BY <1>1, Invariant, PTL

\* What anybody has stored or parked of an event, its origin has stored: it can
\* be requested from there for ever.
THEOREM OriginHasIt == Spec => []PublishedFirst
<1>1. IInv => PublishedFirst
  BY DEF IInv, KnownSound, PublishedFirst, Published
<1> QED
  BY <1>1, Invariant, PTL

====
