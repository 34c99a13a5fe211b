--------------------------- MODULE OrderBookSync ---------------------------
(***************************************************************************)
(* How a new matcher gets the order book and the trades of a peer          *)
(* (replication.js): initFromPeers copies the open orders and the settled  *)
(* trades once, while the peer's events since the start are applied, and   *)
(* the backend of the new node answers to both in its own time.            *)
(*                                                                         *)
(* The peer is reduced to what it answers and announces, and to what its   *)
(* crashes keep from its backend or from the others.  Its events come one  *)
(* by one and in order, as module Replication shows (which also has the    *)
(* orders that end the process, as the node knows no pair for them), and   *)
(* each trade once, as TradeQueue shows of a patient backend.  An order is *)
(* open in its full size until its first trade; a trade has one maker and  *)
(* is its pair of orders.                                                  *)
(***************************************************************************)
EXTENDS Integers, Sequences, FiniteSets, SequencesExt

CONSTANTS
    Orders,      \* the orders at the peer
    Size,        \* their sizes
    Pairs,       \* the <<taker, maker>> that match
    Refused,     \* orders that fail validation at the new node
    Mispriced,   \* pairs that match only because the peer's backend has rounded their prices
    MaxEvents,   \* bound: events of the peer
    MaxCrashes   \* bound: crashes of the new node, and things that crashes of the peer spoil

ASSUME SyncAssumption ==
    /\ IsFiniteSet(Orders)
    /\ Size \in [Orders -> Nat \ {0}]
    /\ Pairs \subseteq {p \in Orders \X Orders : p[1] # p[2]}
    /\ Refused \subseteq Orders
    /\ Mispriced \subseteq Pairs
    /\ {MaxEvents, MaxCrashes} \subseteq Nat

VARIABLES
    \* the peer
    source,      \* its collection orders
    pending,     \* its trades that are matched, not yet announced
    settled,     \* its trades with the status SUCCESS or COMMITTED
    recovered,   \* those that it found after a crash, and announced as PENDING and without a unit
    log,         \* what it had to announce: its chain of events ...
    untold,      \* ... but for those at these positions, which a crash kept from the chain
    \* the new node: MongoDB
    book,        \* orders
    trades,      \* trades
    next,        \* the position in log of the event to handle, 0 before the first start
    initialized, \* status.initialized
    \* the new node: memory
    up,
    copy,        \* initFromPeers: its stage, the orders and the trades yet to be copied
    handling,    \* the event being handled: its stage, and the order that it is about
    toBackend,   \* the new_order and cancel_order that the backend has yet to take
    \* history and bound
    excused,     \* <<order, reason>> why the node may show the order differently, and
                 \* <<trade, reason>> why it may not have the trade
    crashes

peer == <<source, pending, settled, recovered, log, untold>>
vars == <<peer, book, trades, next, initialized, up, copy, handling, toBackend, excused,
          crashes>>

Entry(status, left) == [status |-> status, left |-> left]
Absent == Entry("none", 0)
Open(o) == Entry("OPEN", Size[o])
Live(e) == e.status \in {"OPEN", "PARTIAL_FILLED"}
Filled(left) == Entry(IF left = 0 THEN "FILLED" ELSE "PARTIAL_FILLED", left)

Event(type, orders, entries) == [type |-> type, orders |-> orders, entries |-> entries]

NoCopy == [stage |-> "off", orders |-> <<>>, trades |-> {}]
Idle == [stage |-> "idle", k |-> 1]

Excuse(os, why) == excused \cup (os \X {why})

\* The trade of an event, and its orders
Party(e) == {e.orders} \cup ToSet(e.orders)

Init ==
    /\ source = [o \in Orders |-> Absent]
    /\ pending = <<>>
    /\ settled = {}
    /\ recovered = {}
    /\ log = <<>>
    /\ untold = {}
    /\ book = [o \in Orders |-> Absent]
    /\ trades = {}
    /\ next = 0
    /\ initialized = FALSE
    /\ up = FALSE
    /\ copy = NoCopy
    /\ handling = Idle
    /\ toBackend = <<>>
    /\ excused = {}
    /\ crashes = 0

-----------------------------------------------------------------------------
(* The peer *)

Room == Len(log) + Len(pending) < MaxEvents

\* An order or a cancel is handed to the backend of the peer and to its chain, and a
\* trade is recorded as sent and handed to the chain.  A crash may keep it from the
\* chain ("untold") or from the backend ("unheard"); a trade that was sent but not
\* recorded is announced after the crash ("recovered").
Announce(e, fate, late) ==
    /\ fate # "done" => crashes < MaxCrashes
    /\ crashes' = IF fate = "done" THEN crashes ELSE crashes + 1
    /\ log' = Append(log, e)
    /\ untold' = IF fate = "untold" THEN untold \cup {Len(log) + 1} ELSE untold
    /\ excused' = Excuse(late, "announced late") \cup
                    (IF fate \in {"untold", "unheard"} THEN Party(e) \X {"crash"} ELSE {})

SourceOrder(o, fate) ==
    /\ Room
    /\ source[o] = Absent
    /\ source' = IF fate = "unheard" THEN source ELSE [source EXCEPT ![o] = Open(o)]
    /\ Announce(Event("order", <<o>>, <<>>), fate, {})
    /\ UNCHANGED <<pending, settled, recovered, book, trades, next, initialized, up, copy,
                   handling, toBackend>>

SourceCancel(o, fate) ==
    /\ Room
    /\ Live(source[o])
    /\ source' = IF fate = "unheard" THEN source ELSE [source EXCEPT ![o].status = "CANCELLED"]
    /\ Announce(Event("cancel", <<o>>, <<>>), fate, {})
    /\ UNCHANGED <<pending, settled, recovered, book, trades, next, initialized, up, copy,
                   handling, toBackend>>

\* The entries of the orders, as the match left them, go with the trade.
SourceMatch(p) ==
    /\ Room
    /\ Live(source[p[1]]) /\ Live(source[p[2]])
    /\ LET lefts == {source[p[1]].left, source[p[2]].left}
           amount == CHOOSE x \in lefts : \A y \in lefts : x <= y
           after == [i \in 1..2 |-> Filled(source[p[i]].left - amount)]
       IN  /\ source' = [source EXCEPT ![p[1]] = after[1], ![p[2]] = after[2]]
           /\ pending' = Append(pending, Event("trade", p, after))
    /\ UNCHANGED <<settled, recovered, log, untold, book, trades, next, initialized, up, copy,
                   handling, toBackend, excused, crashes>>

\* The trade queue announces a trade once it is sent: a cancel may have come
\* in between, and the entries that the trade carries are from before it.
SourceAnnounces(fate) ==
    /\ pending # <<>>
    /\ LET e == Head(pending)
           late == {e.orders[i] : i \in {j \in 1..2 : Live(e.entries[j]) /\
                                         source[e.orders[j]].status = "CANCELLED"}}
       IN  /\ settled' = settled \cup {e.orders}
           /\ recovered' = IF fate = "recovered" THEN recovered \cup {e.orders} ELSE recovered
           /\ Announce(e, fate, late)
    /\ pending' = Tail(pending)
    /\ UNCHANGED <<source, book, trades, next, initialized, up, copy, handling, toBackend>>

-----------------------------------------------------------------------------
(* start *)

\* On its first start the node takes events from the one that the peer names as
\* its last.
Start ==
    /\ ~up
    /\ up' = TRUE
    /\ \/ next > 0 /\ next' = next
       \/ next = 0 /\ untold = 1..Len(log) /\ next' = 1
       \/ /\ next = 0 /\ next' \in 1..Len(log) \ untold
          /\ next'..Len(log) \ untold = {next'}
    /\ copy' = IF initialized THEN NoCopy ELSE [NoCopy EXCEPT !.stage = "ask"]
    /\ UNCHANGED <<peer, book, trades, initialized, handling, toBackend, excused, crashes>>

\* Orders that were on the way to the backend are lost, unless the copy, which is
\* not done, is made again.
Crash ==
    /\ up
    /\ crashes < MaxCrashes
    /\ crashes' = crashes + 1
    /\ up' = FALSE
    /\ copy' = NoCopy
    /\ handling' = Idle
    /\ toBackend' = <<>>
    /\ excused' = Excuse({m.order : m \in {m \in ToSet(toBackend) :
                                            initialized \/ m.type = "cancel"}}, "crash")
    /\ UNCHANGED <<peer, book, trades, next, initialized>>

-----------------------------------------------------------------------------
(* initFromPeers *)

Copying(stage) == up /\ copy.stage = stage

\* The last, if the order was lost at the peer and came again
Position(o) == Max({i \in 1..Len(log) : log[i].type = "order" /\ log[i].orders = <<o>>})

\* The orders of S, the oldest first
OldestFirst(S) == {s \in Surjection(1..Cardinality(S), S) :
    \A i, j \in DOMAIN s : i < j => Position(s[i]) < Position(s[j])}

\* The peer's first answer: the status of partly filled orders is misspelt.
InitFromPeers ==
    /\ Copying("ask")
    /\ LET open == {o \in Orders : source[o].status = "OPEN"}
           part == {o \in Orders : source[o].status = "PARTIAL_FILLED"}
       IN  /\ \E os \in OldestFirst(open) :
                  copy' = [copy EXCEPT !.stage = "answer", !.orders = os]
           /\ excused' = Excuse(part, "partly filled")
    /\ UNCHANGED <<peer, book, trades, next, initialized, up, handling, toBackend, crashes>>

TradesSince(k) == {log[i].orders : i \in {j \in k..Len(log) : log[j].type = "trade"}}

\* The peer also gives its settled trades of the last week.  Trades are announced in
\* the order of their creation.
ReceiveInit ==
    /\ Copying("answer")
    /\ \E k \in 1..(Len(log) + 1) :
          /\ copy' = [copy EXCEPT !.stage = "find", !.trades = TradesSince(k)]
          /\ excused' = Excuse(settled \ TradesSince(k), "older than a week")
    /\ UNCHANGED <<peer, book, trades, next, initialized, up, handling, toBackend, crashes>>

\* No peer is connected a second after the start, or the connection closes: the
\* node does not ask again before its next start.
InitFails ==
    /\ Copying("ask") \/ Copying("answer")
    /\ copy' = NoCopy
    /\ UNCHANGED <<peer, book, trades, next, initialized, up, handling, toBackend, excused,
                   crashes>>

Message(type, o) == [type |-> type, order |-> o]

CopyOrder_Anyway ==    \* mutant: the lookup of the existing order is missing
    /\ Copying("find")
    /\ copy.orders # <<>>
    /\ LET o == Head(copy.orders)
       IN  IF o \notin Refused
           THEN /\ toBackend' = Append(toBackend, Message("new", o))
                /\ copy' = [copy EXCEPT !.stage = "upsert"]
                /\ UNCHANGED excused
           ELSE /\ copy' = [copy EXCEPT !.orders = <<>>]
                /\ excused' = Excuse(ToSet(copy.orders), "aborted")
                /\ UNCHANGED toBackend
    /\ UNCHANGED <<peer, book, trades, next, initialized, up, handling, crashes>>

\* handleInitialOrders: an order that the node has is left alone, one that fails
\* validation ends the copying of orders.
CopyOrder ==
    /\ Copying("find")
    /\ copy.orders # <<>>
    /\ LET o == Head(copy.orders)
       IN  \/ /\ book[o] # Absent
              /\ copy' = [copy EXCEPT !.orders = Tail(@)]
              /\ UNCHANGED <<toBackend, excused>>
           \/ /\ book[o] = Absent
              /\ o \notin Refused
              /\ toBackend' = Append(toBackend, Message("new", o))
              /\ copy' = [copy EXCEPT !.stage = "upsert"]
              /\ UNCHANGED excused
           \/ /\ book[o] = Absent
              /\ o \in Refused
              /\ copy' = [copy EXCEPT !.orders = <<>>]
              /\ excused' = Excuse(ToSet(copy.orders), "aborted")
              /\ UNCHANGED toBackend
    /\ UNCHANGED <<peer, book, trades, next, initialized, up, handling, crashes>>

UpsertOrder ==
    /\ Copying("upsert")
    /\ LET o == Head(copy.orders) IN book' = [book EXCEPT ![o] = Open(o)]
    /\ copy' = [copy EXCEPT !.stage = "find", !.orders = Tail(@)]
    /\ UNCHANGED <<peer, trades, next, initialized, up, handling, toBackend, excused, crashes>>

CopyTrades_FlagFirst ==    \* mutant: initialized is set before the trades are there
    /\ Copying("find")
    /\ copy.orders = <<>>
    /\ initialized' = TRUE
    /\ copy' = [copy EXCEPT !.stage = "flag"]
    /\ UNCHANGED <<peer, book, trades, next, up, handling, toBackend, excused, crashes>>

\* handleInitialTrades
CopyTrades ==
    /\ Copying("find")
    /\ copy.orders = <<>>
    /\ trades' = trades \cup copy.trades
    /\ copy' = [copy EXCEPT !.stage = "flag"]
    /\ UNCHANGED <<peer, book, next, initialized, up, handling, toBackend, excused, crashes>>

SetInitialized ==
    /\ Copying("flag")
    /\ initialized' = TRUE
    /\ copy' = NoCopy
    /\ UNCHANGED <<peer, book, trades, next, up, handling, toBackend, excused, crashes>>

\* The copy has looked the order up and found none, and has yet to write it.
BeingCopied(o) == copy.stage = "upsert" /\ o = Head(copy.orders)

\* The copy has the order from the peer, and has yet to look it up.
ToBeCopied(o) == o \in ToSet(copy.orders) /\ ~BeingCopied(o)

-----------------------------------------------------------------------------
(* handleEvent *)

Handling(stage) == up /\ handling.stage = stage
Current == log[next]
Then(stage, k) == handling' = [stage |-> stage, k |-> k]
Fail(why) == Then("store", 1) /\ excused' = Excuse(Party(Current), why)

Arrives(type) ==
    /\ Handling("idle")
    /\ next \in 1..Len(log) \ untold
    /\ Current.type = type

\* The chain goes on after what a crash of the peer kept from it.
NotInChain ==
    /\ Handling("idle")
    /\ next \in 1..Len(log) /\ next \in untold
    /\ next' = next + 1
    /\ UNCHANGED <<peer, book, trades, initialized, up, copy, handling, toBackend, excused, crashes>>

HandleOrder ==
    /\ Arrives("order")
    /\ LET o == Current.orders[1]
       IN  IF o \in Refused
           THEN excused' = Excuse({o}, "refused") /\ UNCHANGED toBackend
           ELSE toBackend' = Append(toBackend, Message("new", o)) /\ UNCHANGED excused
    /\ Then("store", 1)
    /\ UNCHANGED <<peer, book, trades, next, initialized, up, copy, crashes>>

HandleCancel ==
    /\ Arrives("cancel")
    /\ toBackend' = Append(toBackend, Message("cancel", Current.orders[1]))
    /\ Then("store", 1)
    /\ UNCHANGED <<peer, book, trades, next, initialized, up, copy, excused, crashes>>

HandleTrade ==
    /\ Arrives("trade")
    /\ Then("read", 1)
    /\ UNCHANGED <<peer, book, trades, next, initialized, up, copy, toBackend, excused, crashes>>

ReadOrAddOrder_Known ==    \* mutant: an order that is not there is not added
    /\ Handling("read") /\ handling.k <= 2
    /\ Then("read", handling.k + 1)
    /\ UNCHANGED <<peer, book, trades, next, initialized, up, copy, toBackend, excused, crashes>>

\* executeReplicatedTrade wants the taker order, then the maker order.
ReadOrAddOrder ==
    /\ Handling("read") /\ handling.k <= 2
    /\ ~(handling.k = 2 /\ Current.orders \in Mispriced)
    /\ LET o == Current.orders[handling.k]
       IN  \/ /\ book[o] # Absent
              /\ Then("read", handling.k + 1)
              /\ UNCHANGED <<toBackend, excused>>
           \/ /\ book[o] = Absent
              /\ o \notin Refused
              /\ toBackend' = Append(toBackend, Message("new", o))
              /\ Then("wait", handling.k)
              /\ UNCHANGED excused
           \/ /\ book[o] = Absent
              /\ o \in Refused
              /\ Fail("refused")
              /\ UNCHANGED toBackend
    /\ UNCHANGED <<peer, book, trades, next, initialized, up, copy, crashes>>

ReadOrderWithRetries ==
    /\ Handling("wait")
    /\ IF book[Current.orders[handling.k]] # Absent
       THEN Then("read", handling.k + 1) /\ UNCHANGED excused
       ELSE \* the backend has not inserted it in ten seconds
            Fail("gave up")
    /\ UNCHANGED <<peer, book, trades, next, initialized, up, copy, toBackend, crashes>>

\* A trade may fail when its orders are there: their prices are compared once more
\* after the taker's order, and its unit and status after the maker's.
RefuseTrade ==
    /\ Handling("read")
    /\ \/ handling.k = 2 /\ Current.orders \in Mispriced /\ Fail("refused")
       \/ handling.k = 3 /\ Current.orders \in recovered /\ Fail("no unit")
    /\ UNCHANGED <<peer, book, trades, next, initialized, up, copy, toBackend, crashes>>

\* The orders get the state that they had at the peer when they were matched.
ExecuteReplicatedTrade ==
    /\ Handling("read") /\ handling.k = 3
    /\ Current.orders \notin recovered
    /\ book' = [book EXCEPT ![Current.orders[1]] = Current.entries[1],
                            ![Current.orders[2]] = Current.entries[2]]
    /\ excused' = Excuse({o \in ToSet(Current.orders) : BeingCopied(o)}, "copied over")
    /\ Then("insert", 1)
    /\ UNCHANGED <<peer, trades, next, initialized, up, copy, toBackend, crashes>>

InsertTrades ==
    /\ Handling("insert")
    /\ trades' = trades \cup {Current.orders}
    /\ Then("store", 1)
    /\ UNCHANGED <<peer, book, next, initialized, up, copy, toBackend, excused, crashes>>

\* A refused order or trade is stored all the same.
Store ==
    /\ Handling("store")
    /\ next' = next + 1
    /\ handling' = Idle
    /\ UNCHANGED <<peer, book, trades, initialized, up, copy, toBackend, excused, crashes>>

-----------------------------------------------------------------------------
(* The backend of the new node *)

BackendInserts(o) ==
    /\ toBackend # <<>> /\ Head(toBackend) = Message("new", o)
    /\ toBackend' = Tail(toBackend)
    /\ book' = IF book[o] = Absent THEN [book EXCEPT ![o] = Open(o)] ELSE book
    /\ UNCHANGED <<peer, trades, next, initialized, up, copy, handling, excused, crashes>>

BackendCancels(o) ==
    /\ toBackend # <<>> /\ Head(toBackend) = Message("cancel", o)
    /\ toBackend' = Tail(toBackend)
    /\ book' = IF Live(book[o]) THEN [book EXCEPT ![o].status = "CANCELLED"] ELSE book
    /\ excused' = IF book[o] = Absent /\ ToBeCopied(o) THEN Excuse({o}, "cancelled before")
                  ELSE IF BeingCopied(o) THEN Excuse({o}, "copied over")
                  ELSE excused
    /\ UNCHANGED <<peer, trades, next, initialized, up, copy, handling, crashes>>

-----------------------------------------------------------------------------
Peer ==
    \/ \E o \in Orders, fate \in {"done", "untold", "unheard"} :
          SourceOrder(o, fate) \/ SourceCancel(o, fate)
    \/ \E p \in Pairs : SourceMatch(p)
    \/ \E fate \in {"done", "untold", "recovered"} : SourceAnnounces(fate)

Copy ==
    \/ InitFromPeers \/ ReceiveInit \/ InitFails
    \/ CopyOrder \/ UpsertOrder \/ CopyTrades \/ SetInitialized

HandleEvent ==
    \/ NotInChain \/ HandleOrder \/ HandleCancel \/ HandleTrade
    \/ ReadOrAddOrder \/ ReadOrderWithRetries
    \/ RefuseTrade \/ ExecuteReplicatedTrade \/ InsertTrades \/ Store

Backend == \E o \in Orders : BackendInserts(o) \/ BackendCancels(o)

Next == Peer \/ Start \/ Crash \/ Copy \/ HandleEvent \/ Backend

Spec == Init /\ [][Next]_vars

-----------------------------------------------------------------------------
(* Properties *)

Entries == [status : {"none", "OPEN", "PARTIAL_FILLED", "FILLED", "CANCELLED"}, left : Nat]

\* The variables keep their types; the node follows the log, has the orders of a
\* trade before it updates them, waits only for orders that the backend has yet to
\* insert, and copies only while it is not initialized.
TypeOK ==
    /\ source \in [Orders -> Entries] /\ book \in [Orders -> Entries]
    /\ settled \subseteq Pairs /\ trades \subseteq settled
    /\ next \in 0..(Len(log) + 1)
    /\ handling.stage # "idle" => up /\ next \in 1..Len(log)
    /\ copy.stage # "off" => up /\ ~initialized
    /\ handling.stage = "read" =>
           \A i \in 1..(handling.k - 1) : book[Current.orders[i]] # Absent
    /\ handling.stage = "wait" =>
           LET o == Current.orders[handling.k]
           IN  book[o] # Absent \/ Message("new", o) \in ToSet(toBackend)

\* The node has been initialized, and has nothing left to do.
Quiet ==
    /\ up /\ initialized
    /\ handling = Idle /\ next = Len(log) + 1
    /\ copy = NoCopy
    /\ toBackend = <<>>
    /\ pending = <<>>

Reasons == {"announced late", "partly filled", "cancelled before", "copied over", "aborted",
            "refused", "no unit", "gave up", "crash"}

\* Once a new node has the order book and all events, it shows an order as live
\* exactly if it is live at its matcher, and with the same amount left, unless:
\* the order was cancelled between a match and its announcement; it was partly
\* filled when the book was read; it was cancelled or traded while it was being
\* copied; it, or an order before it in the copy, failed validation; the backend
\* was slow to insert it; the trade failed validation, or was announced without its
\* unit; or a crash of the node or of its peer lost it on the way to a backend or to
\* the other matchers.  (replication.js:73-131, 274-290, 312-436)
BookAgrees ==
    Quiet =>
        \A o \in Orders :
            \/ \E why \in Reasons : <<o, why>> \in excused
            \/ IF Live(source[o]) THEN book[o] = source[o] ELSE ~Live(book[o])

TradeReasons == {"older than a week", "refused", "no unit", "gave up", "crash"}

\* Then it also has every trade that the peer has settled, but for those that were
\* older than a week when it asked for the book, that failed validation (or an order
\* of theirs), that were announced without their unit or, after a crash, not at all,
\* and those whose orders were not inserted in time.  (replication.js:134-174, 312-423,
\* 517-522)
TradesComplete ==
    Quiet =>
        \A t \in settled \ trades : \E why \in TradeReasons : <<t, why>> \in excused
============================================================================
