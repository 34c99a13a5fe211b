---------------------------- MODULE Replication ----------------------------
(***************************************************************************)
(* Replication of orders, cancels and trades between matchers              *)
(* (replication.js).  Every matcher signs the events that it originates    *)
(* and chains them by prev_event_hash; events travel between connected     *)
(* peers, and each node stores and applies the events of every origin in   *)
(* the order of its chain.  An event that arrives before its predecessor   *)
(* is parked in unhandled_events while the predecessor is requested.       *)
(*                                                                         *)
(* An event is its number, in the order in which the events are created:   *)
(* the number stands for event_hash and for ts.  One action is what a node *)
(* does between two awaits that other handlers can tell apart.  The first  *)
(* copy of the order book (initFromPeers) is reduced to its flag.          *)
(***************************************************************************)
EXTENDS Integers, Sequences, FiniteSets, SequencesExt

CONSTANTS
    Nodes,       \* the matchers' wallets
    Wires,       \* the pairs of nodes that connect
    Late,        \* those that have never been started when the others run
    Active,      \* those whose users and trades give rise to events
    Kind,        \* the types of the events: "order", "cancel" or "trade"
    Bad,         \* the <<node, event>> whose payload fails validation there
    Unpaired,    \* the <<node, event>> about a new order with no quote asset of that node
    MaxDrops,    \* bound: connections that are lost
    MaxCrashes   \* bound: crashes, of all nodes together

Events == 1..Len(Kind)

ASSUME ReplicationAssumption ==
    /\ Wires \subseteq {{n, m} : n, m \in Nodes}
    /\ Late \subseteq Nodes
    /\ Active \subseteq Nodes
    /\ Kind \in Seq({"order", "cancel", "trade"})
    /\ Bad \subseteq Nodes \X Events
    /\ Unpaired \subseteq {p \in (Nodes \X Events) \ Bad : Kind[p[2]] # "cancel"}
    /\ {MaxDrops, MaxCrashes} \subseteq Nat

VARIABLES
    created,     \* the events: [origin, prev]; prev is 0 in the first of a chain
    \* durable, per node: MongoDB
    events,      \* the collection events, in the order of _id
    unhandled,   \* the collection unhandled_events
    since,       \* status.since: the number of the next event then, 0 if no status
    initialized, \* status.initialized
    applied,     \* (history) the payloads handed to the backend, in order
    \* memory, per node
    up,          \* the process is running
    startup,     \* what start() has yet to do: "init", "resolve" or "done"
    asking,      \* peers that requestUnresolvedEventsFromAllPeers has yet to ask
    prevHash,    \* prev_event_hash
    signing,     \* events that createAndBroadcastEvent is signing
    lock,        \* per event: the calls of handleEventUnderLock, the first has the lock
    stage,       \* per event: how far the call with the lock is
    resumed,     \* calls of handleEventUnderLock for parked events, before deleteOne
    \* the network
    links,       \* connected pairs of nodes
    chan,        \* per ordered pair: messages on the way
    drops,
    crashes

durable == <<events, unhandled, since, initialized, applied>>
tasks == <<startup, asking, prevHash, signing>>
handlers == <<lock, stage, resumed>>
network == <<links, chan>>
bounds == <<drops, crashes>>
vars == <<created, durable, up, tasks, handlers, network, bounds>>

Origin(h) == created[h].origin
Prev(h) == created[h].prev
Stored(n) == ToSet(events[n])
\* assocWsPeers: the peers whose `service' message has arrived
Peers(n) == {m \in Nodes : {n, m} \in links}

\* assocLastEventHashes
LastEvents(n) == {h \in Stored(n) :
    \E i \in DOMAIN events[n] :
        events[n][i] = h /\ \A j \in (i + 1)..Len(events[n]) :
                                Origin(events[n][j]) # Origin(h)}

\* The last of its own events that a node has stored, 0 if there is none
LastOwn(n) ==
    LET own == {h \in LastEvents(n) : Origin(h) = n}
    IN  IF own = {} THEN 0 ELSE CHOOSE h \in own : TRUE

Unlocked == [h \in Events |-> <<>>]
Unstarted == [h \in Events |-> "check"]
Silent == [p \in Nodes \X Nodes |-> <<>>]

Init ==
    /\ created = <<>>
    /\ events = [n \in Nodes |-> <<>>]
    /\ unhandled = [n \in Nodes |-> {}]
    /\ since = [n \in Nodes |-> IF n \in Late THEN 0 ELSE 1]
    /\ initialized = [n \in Nodes |-> n \notin Late]
    /\ applied = [n \in Nodes |-> <<>>]
    /\ up = [n \in Nodes |-> n \notin Late]
    /\ startup = [n \in Nodes |-> "done"]
    /\ asking = [n \in Nodes |-> {}]
    /\ prevHash = [n \in Nodes |-> 0]
    /\ signing = [n \in Nodes |-> {}]
    /\ lock = [n \in Nodes |-> Unlocked]
    /\ stage = [n \in Nodes |-> Unstarted]
    /\ resumed = [n \in Nodes |-> {}]
    /\ links = {}
    /\ chan = Silent
    /\ drops = 0
    /\ crashes = 0

-----------------------------------------------------------------------------
(* Messages and the lock on an event *)

Msg(type, about) == [type |-> type, about |-> about]

\* n sends msg to every peer in ms.
SendTo(n, ms, msg) ==
    [p \in Nodes \X Nodes |->
        IF p[1] = n /\ p[2] \in ms THEN Append(chan[p], msg) ELSE chan[p]]

\* requestEvent, for every event of hs in turn
Request(n, ms, hs) ==
    [p \in Nodes \X Nodes |->
        IF p[1] = n /\ p[2] \in ms
        THEN chan[p] \o [i \in 1..Len(hs) |-> Msg("get", {hs[i]})]
        ELSE chan[p]]

\* A call of handleEventUnderLock: why it is made, and the connection it came
\* on, the empty set once that is closed.
Call(via, peer) == [via |-> via, peer |-> peer]

Handle(n, h, call) == lock' = [lock EXCEPT ![n][h] = Append(@, call)]

\* The call with the lock on h has come to stage s.
At(n, h, s) == up[n] /\ lock[n][h] # <<>> /\ stage[n][h] = s

Finish(n, h) ==
    /\ lock' = [lock EXCEPT ![n][h] = Tail(@)]
    /\ stage' = [stage EXCEPT ![n][h] = "check"]

-----------------------------------------------------------------------------
(* createAndBroadcastEvent *)

Create_BroadcastsAtOnce(n) ==    \* mutant: the broadcast does not wait for insertOne
    /\ up[n]
    /\ n \in Active
    /\ Len(created) < Len(Kind)
    /\ created' = Append(created, [origin |-> n, prev |-> prevHash[n]])
    /\ prevHash' = [prevHash EXCEPT ![n] = Len(created')]
    /\ signing' = [signing EXCEPT ![n] = @ \cup {Len(created')}]
    /\ chan' = SendTo(n, Peers(n), Msg("event", {Len(created')}))
    /\ UNCHANGED <<durable, up, startup, asking, handlers, links, bounds>>

Create(n) ==
    /\ up[n]
    /\ n \in Active
    /\ Len(created) < Len(Kind)
    /\ created' = Append(created, [origin |-> n, prev |-> prevHash[n]])
    /\ prevHash' = [prevHash EXCEPT ![n] = Len(created')]
    /\ signing' = [signing EXCEPT ![n] = @ \cup {Len(created')}]
    /\ UNCHANGED <<durable, up, startup, asking, handlers, network, bounds>>

\* The signature is ready: the event is inserted, then broadcast.  Two
\* signatures in progress may complete in either order.
Publish(n, h) ==
    /\ up[n]
    /\ h \in signing[n]
    /\ signing' = [signing EXCEPT ![n] = @ \ {h}]
    /\ events' = [events EXCEPT ![n] = Append(@, h)]
    /\ chan' = SendTo(n, Peers(n), Msg("event", {h}))
    /\ UNCHANGED <<created, unhandled, since, initialized, applied, up, startup, asking,
                   prevHash, handlers, links, bounds>>

-----------------------------------------------------------------------------
(* Connections *)

\* Both sides greet each other as odex peers and say what they know.
Connect(n, m) ==
    /\ up[n] /\ up[m]
    /\ n # m
    /\ {n, m} \in Wires \ links
    /\ links' = links \cup {{n, m}}
    /\ chan' = [chan EXCEPT ![<<n, m>>] = <<Msg("last", LastEvents(n))>>,
                            ![<<m, n>>] = <<Msg("last", LastEvents(m))>>]
    /\ UNCHANGED <<created, durable, up, tasks, handlers, bounds>>

\* The connections in `lost' close: what is on its way is lost, and handlers
\* keep a connection that they can no longer send on.
Close(lost) ==
    /\ links' = links \ lost
    /\ chan' = [p \in Nodes \X Nodes |-> IF {p[1], p[2]} \in lost THEN <<>> ELSE chan[p]]

Without(n, peer, lost) == {m \in peer : {n, m} \notin lost}

Detached(lost) == [n \in Nodes |-> [h \in Events |->
    [i \in 1..Len(lock[n][h]) |->
        Call(lock[n][h][i].via, Without(n, lock[n][h][i].peer, lost))]]]

DetachedResumed(lost) == [n \in Nodes |->
    {[r EXCEPT !.peer = Without(n, r.peer, lost)] : r \in resumed[n]}]

Disconnect(n, m) ==
    /\ {n, m} \in links
    /\ drops < MaxDrops
    /\ drops' = drops + 1
    /\ Close({{n, m}})
    /\ lock' = Detached({{n, m}})
    /\ resumed' = DetachedResumed({{n, m}})
    /\ UNCHANGED <<created, durable, up, tasks, stage, crashes>>

-----------------------------------------------------------------------------
(* custom_justsaying and custom_request *)

\* n takes the next message from m.
Take(m, n, msg) ==
    /\ up[n]
    /\ chan[<<m, n>>] # <<>>
    /\ msg = Head(chan[<<m, n>>])

Rest(m, n) == [chan EXCEPT ![<<m, n>>] = Tail(@)]

Answer(m, n, msg) ==
    [chan EXCEPT ![<<m, n>>] = Tail(@), ![<<n, m>>] = Append(@, msg)]

\* signed_event, or the response to get_event
ReceiveEvent(n, m) ==
    /\ \E h \in Events :
        \/ /\ Take(m, n, Msg("event", {h}))
           /\ Handle(n, h, Call("push", {m}))
        \/ /\ Take(m, n, Msg("reply", {h}))
           /\ Handle(n, h, Call("request", {m}))
    /\ chan' = Rest(m, n)
    /\ UNCHANGED <<created, durable, up, tasks, stage, resumed, links, bounds>>

\* { error: "event not found" }
ReceiveError(n, m) ==
    /\ Take(m, n, Msg("reply", {}))
    /\ chan' = Rest(m, n)
    /\ UNCHANGED <<created, durable, up, tasks, handlers, links, bounds>>

\* last_known_event_hashes
ReceiveLast(n, m) ==
    /\ \E hs \in SUBSET Events :
        /\ Take(m, n, Msg("last", hs))
        /\ LET unknown == SetToSeq(hs \ Stored(n))
           IN  chan' = [Rest(m, n) EXCEPT ![<<n, m>>] =
                            @ \o [i \in 1..Len(unknown) |-> Msg("get", {unknown[i]})]]
    /\ UNCHANGED <<created, durable, up, tasks, handlers, links, bounds>>

\* get_event
ReceiveGet(n, m) ==
    /\ \E h \in Events :
        /\ Take(m, n, Msg("get", {h}))
        /\ chan' = Answer(m, n, Msg("reply", {h} \cap Stored(n)))
    /\ UNCHANGED <<created, durable, up, tasks, handlers, links, bounds>>

-----------------------------------------------------------------------------
(* handleEvent, under the lock on the event *)

\* mutant: the first event of a chain is not told apart
PrevKnown_NoFirst(n, h) == Prev(h) \in Stored(n)

\* mutant: a parked predecessor counts as known
PrevKnown_Parked(n, h) == Prev(h) = 0 \/ Prev(h) \in Stored(n) \cup unhandled[n]

PrevKnown(n, h) == Prev(h) = 0 \/ Prev(h) \in Stored(n)

\* mutant: the lookup in `events' is missing
Ignored_OwnOnly(n, h) == Origin(h) = n

\* The event is not worth handling: it is our own, or we have it.
Ignored(n, h) == Origin(h) = n \/ h \in Stored(n)

Ignore(n, h) ==
    /\ At(n, h, "check")
    /\ Ignored(n, h)
    /\ Finish(n, h)
    /\ UNCHANGED <<created, durable, up, tasks, resumed, network, bounds>>

Check_SinceExclusive(n, h) ==    \* mutant: event.ts > since
    /\ At(n, h, "check")
    /\ ~Ignored(n, h)
    /\ stage' = [stage EXCEPT ![n][h] = IF ~PrevKnown(n, h) /\ h > since[n]
                                        THEN "park" ELSE "apply"]
    /\ UNCHANGED <<created, durable, up, tasks, lock, resumed, network, bounds>>

\* The checks that come before the switch on the type of the event
Check(n, h) ==
    /\ At(n, h, "check")
    /\ ~Ignored(n, h)
    /\ stage' = [stage EXCEPT ![n][h] = IF ~PrevKnown(n, h) /\ h >= since[n]
                                        THEN "park" ELSE "apply"]
    /\ UNCHANGED <<created, durable, up, tasks, lock, resumed, network, bounds>>

Park_NoRequest(n, h) ==    \* mutant: the predecessor is not requested
    /\ At(n, h, "park")
    /\ unhandled' = [unhandled EXCEPT ![n] = @ \cup {h}]
    /\ Finish(n, h)
    /\ UNCHANGED <<created, events, since, initialized, applied, up, tasks, resumed,
                   network, bounds>>

Park(n, h) ==
    /\ At(n, h, "park")
    /\ unhandled' = [unhandled EXCEPT ![n] = @ \cup {h}]
    /\ chan' = Request(n, Head(lock[n][h]).peer, <<Prev(h)>>)
    /\ Finish(n, h)
    /\ UNCHANGED <<created, events, since, initialized, applied, up, tasks, resumed,
                   links, bounds>>

\* A bad order or trade is stored all the same.
Apply(n, h) ==
    /\ At(n, h, "apply")
    /\ <<n, h>> \notin Unpaired
    /\ <<n, h>> \notin Bad \/ Kind[h] # "cancel"
    /\ applied' = IF <<n, h>> \in Bad THEN applied
                  ELSE [applied EXCEPT ![n] = Append(@, h)]
    /\ stage' = [stage EXCEPT ![n][h] = "store"]
    /\ UNCHANGED <<created, events, unhandled, since, initialized, up, tasks, lock, resumed,
                   network, bounds>>

\* A bad cancel is not stored.
RejectCancel(n, h) ==
    /\ At(n, h, "apply")
    /\ <<n, h>> \in Bad /\ Kind[h] = "cancel"
    /\ Finish(n, h)
    /\ UNCHANGED <<created, durable, up, tasks, resumed, network, bounds>>

Store(n, h) ==
    /\ At(n, h, "store")
    /\ events' = [events EXCEPT ![n] = Append(@, h)]
    /\ stage' = [stage EXCEPT ![n][h] = "next"]
    /\ UNCHANGED <<created, unhandled, since, initialized, applied, up, tasks, lock, resumed,
                   network, bounds>>

\* The parked events that were waiting for this one
Next(n, h) ==
    /\ At(n, h, "next")
    /\ LET call == Head(lock[n][h])
       IN  /\ resumed' = [resumed EXCEPT ![n] = @ \cup
                {[event |-> k, peer |-> call.peer] : k \in {k \in unhandled[n] : Prev(k) = h}}]
           /\ chan' = IF call.via = "push" /\ <<n, h>> \notin Bad
                      THEN SendTo(n, Peers(n) \ call.peer, Msg("event", {h}))
                      ELSE chan
    /\ Finish(n, h)
    /\ UNCHANGED <<created, durable, up, tasks, links, bounds>>

Resume(n, r) ==
    /\ up[n]
    /\ r \in resumed[n]
    /\ resumed' = [resumed EXCEPT ![n] = @ \ {r}]
    /\ unhandled' = [unhandled EXCEPT ![n] = @ \ {r.event}]
    /\ Handle(n, r.event, Call("next", r.peer))
    /\ UNCHANGED <<created, events, since, initialized, applied, up, tasks, stage,
                   network, bounds>>

-----------------------------------------------------------------------------
(* start *)

Crash(n) ==
    /\ up[n]
    /\ crashes < MaxCrashes
    /\ crashes' = crashes + 1
    /\ up' = [up EXCEPT ![n] = FALSE]
    /\ startup' = [startup EXCEPT ![n] = "done"]
    /\ asking' = [asking EXCEPT ![n] = {}]
    /\ prevHash' = [prevHash EXCEPT ![n] = 0]
    /\ signing' = [signing EXCEPT ![n] = {}]
    /\ LET lost == {{n, m} : m \in Peers(n)}
       IN  /\ Close(lost)
           /\ lock' = [Detached(lost) EXCEPT ![n] = Unlocked]
           /\ resumed' = [DetachedResumed(lost) EXCEPT ![n] = {}]
    /\ stage' = [stage EXCEPT ![n] = Unstarted]
    /\ UNCHANGED <<created, durable, drops>>

\* handleSignedOrder throws where nobody catches, getPair having found no quote
\* asset: the process ends and the event is not stored.
ApplyThrows(n, h) ==
    /\ At(n, h, "apply")
    /\ <<n, h>> \in Unpaired
    /\ Crash(n)

Start(n) ==
    /\ ~up[n]
    /\ up' = [up EXCEPT ![n] = TRUE]
    /\ prevHash' = [prevHash EXCEPT ![n] = LastOwn(n)]
    /\ since' = [since EXCEPT ![n] = IF @ = 0 THEN Len(created) + 1 ELSE @]
    /\ startup' = [startup EXCEPT ![n] = IF initialized[n] THEN "resolve" ELSE "init"]
    /\ UNCHANGED <<created, events, unhandled, initialized, applied, asking, signing,
                   handlers, network, bounds>>

\* A node that has no peers yet asks nobody, and does not ask again before its
\* next start.  A peer may also fail to answer.
InitFromPeers(n) ==
    /\ up[n]
    /\ startup[n] = "init"
    /\ startup' = [startup EXCEPT ![n] = "done"]
    /\ \/ UNCHANGED initialized
       \/ Peers(n) # {} /\ initialized' = [initialized EXCEPT ![n] = TRUE]
    /\ UNCHANGED <<created, events, unhandled, since, applied, up, asking, prevHash,
                   signing, handlers, network, bounds>>

RequestUnresolvedEventsFromAllPeers(n) ==
    /\ up[n]
    /\ startup[n] = "resolve"
    /\ Peers(n) # {}
    /\ startup' = [startup EXCEPT ![n] = "done"]
    /\ asking' = [asking EXCEPT ![n] = Peers(n)]
    /\ UNCHANGED <<created, durable, up, prevHash, signing, handlers, network, bounds>>

\* The predecessors that requestUnresolvedEvents asks for, the latest first: it
\* stops at the first parked event whose predecessor is parked too.
Unresolved(n) ==
    LET asked == {h \in unhandled[n] :
                    \A k \in unhandled[n] : k >= h => Prev(k) \notin unhandled[n]}
        latestFirst == {s \in [1..Cardinality(asked) -> asked] :
                           \A i, j \in DOMAIN s : i < j => s[i] > s[j]}
    IN  {[i \in DOMAIN s |-> Prev(s[i])] : s \in latestFirst}

RequestUnresolvedEvents(n, m) ==
    /\ up[n]
    /\ m \in asking[n]
    /\ asking' = [asking EXCEPT ![n] = @ \ {m}]
    /\ \E hs \in Unresolved(n) : chan' = Request(n, {m} \cap Peers(n), hs)
    /\ UNCHANGED <<created, durable, up, startup, prevHash, signing, handlers, links, bounds>>

-----------------------------------------------------------------------------
HandleEvent(n, h) ==
    \/ Ignore(n, h) \/ Check(n, h) \/ Park(n, h) \/ Apply(n, h)
    \/ RejectCancel(n, h) \/ Store(n, h) \/ Next(n, h)

Receive(n, m) ==
    ReceiveEvent(n, m) \/ ReceiveError(n, m) \/ ReceiveLast(n, m) \/ ReceiveGet(n, m)

Advance(n) ==
    \/ \E h \in Events : Publish(n, h) \/ HandleEvent(n, h) \/ ApplyThrows(n, h)
    \/ \E r \in resumed[n] : Resume(n, r)
    \/ \E m \in Nodes : Receive(n, m) \/ RequestUnresolvedEvents(n, m)
    \/ InitFromPeers(n)
    \/ RequestUnresolvedEventsFromAllPeers(n)

Step ==
    \E n \in Nodes :
        \/ Create(n) \/ Crash(n) \/ Start(n)
        \/ \E m \in Nodes : Connect(n, m) \/ Disconnect(n, m)
        \/ Advance(n)

Spec == Init /\ [][Step]_vars

\* Handlers run to their end, a process that is down is restarted, and peers
\* find each other again.
FairSpec ==
    /\ Spec
    /\ \A n \in Nodes : WF_vars(Advance(n)) /\ WF_vars(Start(n))
    /\ \A n, m \in Nodes : WF_vars(Connect(n, m))

-----------------------------------------------------------------------------
(* Properties *)

Calls == [via : {"push", "request", "next"}, peer : SUBSET Nodes]
Messages ==
    [type : {"event", "last", "get", "reply"}, about : SUBSET Events]

\* The variables keep their types, and whatever a node knows has been created.
TypeOK ==
    /\ created \in Seq([origin : Active, prev : {0} \cup Events])
    /\ Len(created) <= Len(Kind)
    /\ events \in [Nodes -> Seq(1..Len(created))]
    /\ unhandled \in [Nodes -> SUBSET (1..Len(created))]
    /\ since \in [Nodes -> Nat]
    /\ initialized \in [Nodes -> BOOLEAN]
    /\ applied \in [Nodes -> Seq(1..Len(created))]
    /\ up \in [Nodes -> BOOLEAN]
    /\ startup \in [Nodes -> {"init", "resolve", "done"}]
    /\ asking \in [Nodes -> SUBSET Nodes]
    /\ prevHash \in [Nodes -> 0..Len(created)]
    /\ signing \in [Nodes -> SUBSET (1..Len(created))]
    /\ lock \in [Nodes -> [Events -> Seq(Calls)]]
    /\ \A n \in Nodes : \A h \in Events : lock[n][h] # <<>> => h <= Len(created)
    /\ stage \in [Nodes -> [Events -> {"check", "park", "apply", "store", "next"}]]
    /\ resumed \in [Nodes -> SUBSET [event : 1..Len(created), peer : SUBSET Nodes]]
    /\ links \subseteq Wires
    /\ chan \in [Nodes \X Nodes -> Seq(Messages)]
    /\ drops \in 0..MaxDrops
    /\ crashes \in 0..MaxCrashes

\* An event is stored once: a second insertOne would throw under the lock,
\* which would then never be released.
StoredOnce == \A n \in Nodes : IsInjective(events[n])

\* A foreign event that is newer than the node's first start is stored after
\* its predecessor, by whichever way and in whichever order the two arrived.
StoredInOrder ==
    \A n \in Nodes : \A i \in DOMAIN events[n] :
        LET h == events[n][i]
        IN  Origin(h) # n /\ h >= since[n] /\ Prev(h) # 0
                => \E j \in 1..(i - 1) : events[n][j] = Prev(h)

\* The backend sees an order before the cancel and the trades that follow it in
\* the chain of their origin, also after crashes between applying and storing.
AppliedInOrder ==
    \A n \in Nodes : \A i \in DOMAIN applied[n] :
        LET h == applied[n][i]
        IN  h >= since[n] /\ Prev(h) # 0 /\ <<n, Prev(h)>> \notin Bad
                => Prev(h) \in ToSet(SubSeq(applied[n], 1, i - 1))

\* Only a crash between applying and storing makes the node apply an event again.
ReappliedOnlyAfterCrash ==
    \A n \in Nodes, h \in Events :
        Cardinality({i \in DOMAIN applied[n] : applied[n][i] = h}) <= 1 + crashes

\* What others keep of an event survives at its origin: an event that reaches
\* a peer can be requested from its origin for ever.
PublishedFirst ==
    \A n \in Nodes : \A h \in Stored(n) \cup unhandled[n] : h \in Stored(Origin(h))

\* n has the predecessor of a parked event, which thus could be handled.
Wakeable(n) == {k \in unhandled[n] \ Stored(n) : Prev(k) \in Stored(n)}

\* A node's own events are stored in the order of their chain, without a gap.
OwnChainInOrder(n) ==
    LET own == SelectSeq(events[n], LAMBDA h : Origin(h) = n)
    IN  \A i \in DOMAIN own : Prev(own[i]) = IF i = 1 THEN 0 ELSE own[i - 1]

\* n fails on an event whenever it is delivered, and cannot keep running.
Looping(n) == \E h \in 1..Len(created) : <<n, h>> \in Unpaired /\ h \notin Stored(n)

\* h and its predecessors
Chain(h) == {k \in 1..h : Origin(k) = Origin(h)}

\* In the end a node has what the matchers that it connects to have published in
\* its time, unless, in the chain of that very event: an earlier one, or the event, is
\* parked for good though its predecessor is there; or is a cancel that fails
\* validation at the node, which is not stored; or the chain was broken at its
\* origin by signatures that completed in the wrong order; or one of the two
\* nodes ends and restarts for ever over an order without a pair.  A node that is not
\* connected to the origin may miss events that others have (only pushed events
\* are forwarded): nothing is promised to it.
Replicated ==
    <>[] \A n, o \in Nodes :
        {n, o} \in Wires =>
            \A h \in {h \in Stored(o) : Origin(h) = o} :
                \/ h \in Stored(n)
                \/ h < since[n]
                \/ Chain(h) \cap Wakeable(n) # {}
                \/ \E k \in Chain(h) : Kind[k] = "cancel" /\ <<n, k>> \in Bad
                \/ ~OwnChainInOrder(o)
                \/ Looping(n) \/ Looping(o)
=============================================================================
