------------------------ MODULE OrderBookSync_proofs ------------------------
(***************************************************************************)
(* What a new matcher shows once it has the order book of a peer and all   *)
(* its events: for any orders, sizes and matches, any interleaving of the  *)
(* copy, the events and the backend, and any number of crashes of either,  *)
(* the orders and trades of the peer, but for those with one of the named  *)
(* excuses.                                                                *)
(***************************************************************************)
EXTENDS OrderBookSync, SequenceTheorems, FiniteSetTheorems, WellFoundedInduction, TLAPS

\* What an event says about an order
IsOrder(e, o) == e.type = "order" /\ e.orders = <<o>>
IsCancel(e, o) == e.type = "cancel" /\ e.orders = <<o>>
IsTrade(e, o) == e.type = "trade" /\ (e.orders[1] = o \/ e.orders[2] = o)
News(e, o) == IsCancel(e, o) \/ IsTrade(e, o)

\* What a trade leaves of an order
Left(e, o) == IF e.orders[1] = o THEN e.entries[1] ELSE e.entries[2]

Forgiven(o) == \E why \in Reasons : <<o, why>> \in excused
Lost(t) == \E why \in TradeReasons : <<t, why>> \in excused

New(o) == Message("new", o)
Cancelling(o) == Message("cancel", o)

\* The node has handled the k-th event of the log, or started behind it.
Done(k) == k < next \/ (k = next /\ handling.stage \in {"insert", "store"})

\* The peer has told the node its open orders, then its trades.
Asked == initialized \/ copy.stage \notin {"off", "ask"}
Answered == initialized \/ copy.stage \in {"find", "upsert", "flag"}

-----------------------------------------------------------------------------
(* The inductive invariant *)

Remainders == [status : {"PARTIAL_FILLED", "FILLED"}, left : Nat]
Matched == [type : {"trade"}, orders : Pairs, entries : [1..2 -> Remainders]]
Announced == [type : {"order", "cancel"}, orders : {<<o>> : o \in Orders}, entries : {<<>>}]
                \cup Matched
Stages == {"idle", "read", "wait", "insert", "store"}
Messages == [type : {"new", "cancel"}, order : Orders]

Types ==
    /\ source \in [Orders -> Entries] /\ book \in [Orders -> Entries]
    /\ pending \in Seq(Matched) /\ log \in Seq(Announced)
    /\ settled \subseteq Pairs /\ trades \subseteq settled
    /\ next \in 0..(Len(log) + 1)
    /\ initialized \in BOOLEAN /\ up \in BOOLEAN
    /\ copy \in [stage : {"off", "ask", "answer", "find", "upsert", "flag"},
                 orders : Seq(Orders), trades : SUBSET Pairs]
    /\ handling \in [stage : Stages, k : 1..3]
    /\ toBackend \in Seq(Messages)

\* Where the node is in the log and in the copy
PlaceSound ==
    /\ ~up => copy = NoCopy /\ handling = Idle /\ toBackend = <<>>
    /\ next = 0 => ~up /\ ~initialized /\ book = [o \in Orders |-> Absent]
    /\ handling.stage # "idle" => up /\ next \in 1..Len(log)
    /\ handling.stage \in {"read", "wait", "insert"} => Current.type = "trade"
    /\ handling.stage = "wait" => handling.k <= 2
    /\ copy.stage # "off" => up /\ ~initialized
    /\ copy.stage \in {"off", "ask", "flag"} => copy.orders = <<>>
    /\ copy.stage = "upsert" => copy.orders # <<>>
    /\ copy.trades \subseteq settled
    /\ \A k \in 1..Len(log) : log[k].type = "trade" => log[k].orders \in settled

\* The orders of a trade are there when it changes them.
OrdersSound ==
    /\ handling.stage \in {"read", "wait"} =>
           \A i \in 1..(handling.k - 1) : book[Current.orders[i]] # Absent
    /\ handling.stage = "wait" =>
           LET o == Current.orders[handling.k]
           IN  book[o] # Absent \/ New(o) \in ToSet(toBackend)

\* The entry of an order that was left as e by its last match
Reflects(o, e) ==
    source[o] = e \/ (Live(e) /\ source[o] = [e EXCEPT !.status = "CANCELLED"])

\* The peer has the orders of its events, and announces an order before its news.
Recorded(o) ==
    /\ source[o] # Absent <=> \E k \in 1..Len(log) : IsOrder(log[k], o)
    /\ \A k \in 1..Len(log) : News(log[k], o) => source[o] # Absent
    /\ \A i \in 1..Len(pending) : IsTrade(pending[i], o) => source[o] # Absent
    /\ \A j, k \in 1..Len(log) : IsOrder(log[k], o) /\ News(log[j], o) => k < j
    /\ source[o].status = "CANCELLED" <=> \E k \in 1..Len(log) : IsCancel(log[k], o)

\* A trade that is announced after a cancel of the order was matched before it,
\* and left the order live.
LateTrades(o) ==
    /\ Live(source[o]) \/ source[o].status = "CANCELLED" =>
           \A i \in 1..Len(pending) :
               IsTrade(pending[i], o) => Live(Left(pending[i], o))
    /\ \A j, k \in 1..Len(log) : j < k /\ IsCancel(log[j], o) /\ IsTrade(log[k], o)
           => <<o, "announced late">> \in excused

\* No later event of the sequence is a trade of the order.
LastTrade(s, o, k) == \A j \in (k + 1)..Len(s) : ~IsTrade(s[j], o)

\* The order is as its last match has left it.
LastMatch(o) ==
    /\ \A i \in 1..Len(pending) :
           IsTrade(pending[i], o) /\ LastTrade(pending, o, i) => Reflects(o, Left(pending[i], o))
    /\ LastTrade(pending, o, 0) =>
           /\ \A k \in 1..Len(log) :
                  IsTrade(log[k], o) /\ LastTrade(log, o, k) => Reflects(o, Left(log[k], o))
           /\ LastTrade(log, o, 0) => source[o] = Absent \/ Reflects(o, Open(o))

\* The collection of the peer and what it has announced, but for what its crashes
\* have kept from its backend or from the others
Sourced(o) == Recorded(o) /\ LateTrades(o) /\ LastMatch(o)
SourceSound == \A o \in Orders : Forgiven(o) \/ Sourced(o)

\* What an event that did not get into the chain is about is excused.
UntoldSound ==
    \A k \in untold :
        /\ k \in 1..Len(log)
        /\ \A o \in Orders :
               IsOrder(log[k], o) \/ News(log[k], o) => <<o, "crash">> \in excused
        /\ log[k].type = "trade" => <<log[k].orders, "crash">> \in excused

\* What the node has of an order comes from the peer.
KnownSound ==
    \A o \in Orders :
        /\ book[o] # Absent \/ New(o) \in ToSet(toBackend) \/ o \in ToSet(copy.orders)
               => source[o] # Absent \/ Forgiven(o)
        /\ (\A k \in 1..Len(log) : ~News(log[k], o)) => book[o] \in {Absent, Open(o)}
        /\ Cancelling(o) \in ToSet(toBackend) => \E k \in 1..Len(log) : IsCancel(log[k], o)

\* The node shows the order as gone, and will not show it again.
Dead(o) ==
    /\ ~Live(book[o])
    /\ ~BeingCopied(o)
    /\ book[o] = Absent => New(o) \notin ToSet(toBackend) /\ o \notin ToSet(copy.orders)

\* The backend is going to cancel it, and nothing brings it back afterwards.
DeadSoon(o) ==
    \E i \in 1..Len(toBackend) :
        /\ toBackend[i] = Cancelling(o)
        /\ book[o] = Absent /\ ~BeingCopied(o) =>
               \A j \in (i + 1)..Len(toBackend) : toBackend[j] # New(o)

\* The node shows what a match has left of it, unless it has not yet asked.
Shown(o, e) ==
    \/ book[o] = e /\ ~BeingCopied(o)
    \/ ~Asked /\ book[o] = Absent /\ New(o) \notin ToSet(toBackend)

\* k is the last news of an order, and the node has handled it.
LastNews(o, k) ==
    /\ Done(k) /\ News(log[k], o)
    /\ \A j \in (k + 1)..Len(log) : ~News(log[j], o)
    /\ LastTrade(pending, o, 0)

\* After it the order is not live.
Final(e, o) == IsCancel(e, o) \/ (IsTrade(e, o) /\ ~Live(Left(e, o)))

\* The node shows what the news say of the order.
Follows(o, e) ==
    \/ Forgiven(o)
    \/ Final(e, o) /\ (Dead(o) \/ DeadSoon(o))
    \/ ~Final(e, o) /\ Shown(o, Left(e, o))

NewsSound ==
    \A o \in Orders : \A k \in 1..Len(log) : LastNews(o, k) => Follows(o, log[k])

\* The node has handled the order, and there is no news of it.
Untouched(o) ==
    /\ \E k \in 1..Len(log) : Done(k) /\ IsOrder(log[k], o)
    /\ \A k \in 1..Len(log) : ~News(log[k], o)
    /\ LastTrade(pending, o, 0)

OpenSound ==
    \A o \in Orders :
        Asked /\ Untouched(o) =>
            \/ Forgiven(o)
            \/ book[o] = Open(o) \/ New(o) \in ToSet(toBackend) \/ o \in ToSet(copy.orders)

\* A settled trade that the node does not have is one that it is going to get.
TradesSound ==
    \A t \in settled :
        \/ t \in trades
        \/ Lost(t)
        \/ ~Answered
        \/ copy.stage \in {"find", "upsert"} /\ t \in copy.trades
        \/ \E k \in 1..Len(log) : /\ log[k].type = "trade" /\ log[k].orders = t
                                  /\ k >= next
                                  /\ k = next => handling.stage # "store"

IInv ==
    /\ Types /\ PlaceSound /\ OrdersSound /\ SourceSound /\ UntoldSound /\ KnownSound
    /\ NewsSound /\ OpenSound /\ TradesSound

-----------------------------------------------------------------------------
(* Sequences, events and matches *)

LEMMA SeqSet ==
    ASSUME NEW S, NEW s \in Seq(S)
    PROVE  /\ Len(s) \in Nat /\ DOMAIN s = 1..Len(s)
           /\ \A i \in 1..Len(s) : s[i] \in S
           /\ ToSet(s) \subseteq S
           /\ \A x : x \in ToSet(s) <=> \E i \in 1..Len(s) : s[i] = x
  BY LenProperties, ElementOfSeq DEF ToSet

LEMMA AppendSet ==
    ASSUME NEW S, NEW s \in Seq(S), NEW e \in S
    PROVE  /\ Append(s, e) \in Seq(S)
           /\ Len(Append(s, e)) = Len(s) + 1
           /\ \A i \in 1..Len(s) : Append(s, e)[i] = s[i]
           /\ Append(s, e)[Len(s) + 1] = e
           /\ ToSet(Append(s, e)) = ToSet(s) \cup {e}
<1>1. /\ Append(s, e) \in Seq(S)
      /\ Len(Append(s, e)) = Len(s) + 1
      /\ Len(s) \in Nat
      /\ \A i \in 1..Len(s) : Append(s, e)[i] = s[i]
      /\ Append(s, e)[Len(s) + 1] = e
  BY AppendProperties, LenProperties
<1>2. DOMAIN s = 1..Len(s) /\ DOMAIN Append(s, e) = 1..(Len(s) + 1)
  BY <1>1, SeqSet
<1>3. ToSet(Append(s, e)) = ToSet(s) \cup {e}
  BY <1>1, <1>2 DEF ToSet
<1> QED
  BY <1>1, <1>2, <1>3

LEMMA TailSet ==
    ASSUME NEW S, NEW s \in Seq(S), s # <<>>
    PROVE  /\ Head(s) \in S /\ Tail(s) \in Seq(S)
           /\ Len(s) \in Nat /\ Len(s) >= 1 /\ Head(s) = s[1]
           /\ Len(Tail(s)) = Len(s) - 1
           /\ \A i \in 1..(Len(s) - 1) : Tail(s)[i] = s[i + 1]
           /\ ToSet(s) = {Head(s)} \cup ToSet(Tail(s))
<1>1. /\ Head(s) \in S /\ Tail(s) \in Seq(S)
      /\ Len(s) \in Nat /\ Len(s) >= 1 /\ Head(s) = s[1]
      /\ Len(Tail(s)) = Len(s) - 1
      /\ \A i \in 1..(Len(s) - 1) : Tail(s)[i] = s[i + 1]
  BY HeadTailProperties, LenProperties, EmptySeq
<1>2. /\ DOMAIN s = 1..Len(s) /\ DOMAIN Tail(s) = 1..(Len(s) - 1)
  BY <1>1, SeqSet
<1>3. ASSUME NEW x \in ToSet(s) PROVE x \in {Head(s)} \cup ToSet(Tail(s))
  <2>1. PICK i \in 1..Len(s) : s[i] = x
    BY <1>2, <1>3 DEF ToSet
  <2>2. CASE i = 1
    BY <1>1, <2>1, <2>2
  <2>3. CASE i # 1
    <3>1. i - 1 \in 1..(Len(s) - 1) /\ Tail(s)[i - 1] = x
      BY <1>1, <2>1, <2>3
    <3> QED
      BY <1>2, <3>1 DEF ToSet
  <2> QED
    BY <2>2, <2>3
<1>4. ASSUME NEW x \in {Head(s)} \cup ToSet(Tail(s)) PROVE x \in ToSet(s)
  <2>1. CASE x = Head(s)
    BY <1>1, <1>2, <2>1 DEF ToSet
  <2>2. CASE x \in ToSet(Tail(s))
    <3>1. PICK i \in 1..(Len(s) - 1) : Tail(s)[i] = x
      BY <1>2, <2>2 DEF ToSet
    <3>2. i + 1 \in 1..Len(s) /\ s[i + 1] = x
      BY <1>1, <3>1
    <3> QED
      BY <1>2, <3>2 DEF ToSet
  <2> QED
    BY <1>4, <2>1, <2>2
<1> QED
  BY <1>1, <1>3, <1>4

LEMMA NoneIn == ToSet(<<>>) = {} /\ Len(<<>>) = 0
  BY EmptySeq DEF ToSet

LEMMA PairSet ==
    ASSUME NEW p \in Pairs
    PROVE  /\ p[1] \in Orders /\ p[2] \in Orders /\ p[1] # p[2]
           /\ p = <<p[1], p[2]>>
           /\ ToSet(p) = {p[1], p[2]}
<1>1. p \in Orders \X Orders /\ p[1] # p[2]
  BY SyncAssumption
<1>2. p = <<p[1], p[2]>>
  BY <1>1
<1>3. DOMAIN <<p[1], p[2]>> = 1..2
  OBVIOUS
<1>4. ToSet(<<p[1], p[2]>>) = {p[1], p[2]}
  BY <1>3 DEF ToSet
<1> QED
  BY <1>1, <1>2, <1>4

LEMMA SizeNat == \A o \in Orders : Size[o] \in Nat /\ Open(o) \in Entries /\ Open(o) # Absent
  BY SyncAssumption DEF Open, Absent, Entry, Entries

LEMMA AbsentIs == Absent \in Entries /\ ~Live(Absent)
  BY DEF Absent, Entry, Entries, Live

\* The kinds of events
LEMMA EventKinds ==
    ASSUME NEW e \in Announced
    PROVE  \/ \E o \in Orders : IsOrder(e, o) /\ e.orders[1] = o
           \/ \E o \in Orders : IsCancel(e, o) /\ e.orders[1] = o
           \/ e.type = "trade" /\ e \in Matched
  BY DEF Announced, Matched, IsOrder, IsCancel

LEMMA TradeKind ==
    ASSUME NEW e \in Matched
    PROVE  /\ e \in Announced /\ e.type = "trade" /\ e.orders \in Pairs
           /\ e.entries[1] \in Remainders /\ e.entries[2] \in Remainders
           /\ \A o : Left(e, o) \in Remainders
  BY DEF Announced, Matched, Left

LEMMA RemaindersAre ==
    ASSUME NEW e \in Remainders
    PROVE  /\ e \in Entries /\ e # Absent /\ e.status # "CANCELLED" /\ e.status # "OPEN"
           /\ Live(e) <=> e.status = "PARTIAL_FILLED"
           /\ ~Live(e) <=> e.status = "FILLED"
  BY DEF Remainders, Entries, Absent, Entry, Live

\* The event that the node handles
LEMMA CurrentIs ==
    ASSUME Types, next \in 1..Len(log)
    PROVE  /\ Current \in Announced
           /\ Current.type = "trade" => Current \in Matched /\ Current.orders \in Pairs
           /\ Current.type # "trade" => \E o \in Orders : Current.orders = <<o>>
                                                         /\ Current.orders[1] = o
<1>1. Current \in Announced
  BY ElementOfSeq DEF Types, Current
<1> QED
  BY <1>1 DEF Announced, Matched

LEMMA OldestFirstIs ==
    ASSUME NEW S \in SUBSET Orders, NEW s \in OldestFirst(S)
    PROVE  s \in Seq(Orders) /\ ToSet(s) = S
<1>1. IsFiniteSet(S)
  BY SyncAssumption, FS_Subset
<1>2. Cardinality(S) \in Nat
  BY <1>1, FS_CardinalityType
<1>3. s \in [1..Cardinality(S) -> S] /\ \A x \in S : \E i \in 1..Cardinality(S) : s[i] = x
  BY DEF OldestFirst, Surjection
<1>4. s \in Seq(Orders)
  BY <1>2, <1>3
<1>5. ToSet(s) = S
  BY <1>3 DEF ToSet
<1> QED
  BY <1>4, <1>5

-----------------------------------------------------------------------------
(* Types *)

LEMMA MessagesAre ==
    ASSUME NEW o \in Orders
    PROVE  /\ New(o) \in Messages /\ Cancelling(o) \in Messages
           /\ \A n \in Orders : New(o) # Cancelling(n)
           /\ \A n \in Orders : New(o) = New(n) => o = n
           /\ \A n \in Orders : Cancelling(o) = Cancelling(n) => o = n
  BY DEF New, Cancelling, Message, Messages

\* The amounts that a match leaves
LEMMA MatchDoes ==
    ASSUME Types, NEW p \in Pairs, SourceMatch(p)
    PROVE  \E after \in [1..2 -> Remainders] :
              /\ Live(source[p[1]]) /\ Live(source[p[2]])
              /\ source' = [source EXCEPT ![p[1]] = after[1], ![p[2]] = after[2]]
              /\ Event("trade", p, after) \in Matched
              /\ pending' = Append(pending, Event("trade", p, after))
<1> DEFINE lefts == {source[p[1]].left, source[p[2]].left}
           amount == CHOOSE x \in lefts : \A y \in lefts : x <= y
           after == [i \in 1..2 |-> Filled(source[p[i]].left - amount)]
<1>1. lefts \subseteq Nat /\ \E x \in lefts : \A y \in lefts : x <= y
  <2>1. source[p[1]].left \in Nat /\ source[p[2]].left \in Nat
    BY PairSet DEF Types, Entries
  <2>2. source[p[1]].left <= source[p[2]].left \/ source[p[2]].left <= source[p[1]].left
    BY <2>1
  <2> QED
    BY <2>1, <2>2
<1>2. amount \in lefts /\ \A y \in lefts : amount <= y
  BY <1>1
<1>3. /\ Live(source[p[1]]) /\ Live(source[p[2]])
      /\ source' = [source EXCEPT ![p[1]] = after[1], ![p[2]] = after[2]]
      /\ pending' = Append(pending, Event("trade", p, after))
  BY DEF SourceMatch
<1> HIDE DEF amount
<1>4. \A i \in 1..2 : source[p[i]].left - amount \in Nat
  BY <1>1, <1>2
<1>5. \A n \in Nat : Filled(n) \in Remainders
  BY DEF Filled, Entry, Remainders
<1>6. after \in [1..2 -> Remainders]
  BY <1>4, <1>5
<1>7. Event("trade", p, after) \in Matched
  BY <1>6 DEF Event, Matched
<1> HIDE DEF after
<1> QED
  BY <1>3, <1>6, <1>7

LEMMA OrderEvents ==
    ASSUME NEW o \in Orders
    PROVE  /\ Event("order", <<o>>, <<>>) \in Announced
           /\ IsOrder(Event("order", <<o>>, <<>>), o)
           /\ Event("cancel", <<o>>, <<>>) \in Announced
           /\ IsCancel(Event("cancel", <<o>>, <<>>), o)
  BY DEF Event, Announced, IsOrder, IsCancel

LEMMA OneSet == \A x : ToSet(<<x>>) = {x}
<1>1. \A x : DOMAIN <<x>> = 1..1
  OBVIOUS
<1> QED
  BY <1>1 DEF ToSet

\* What an announcement adds to the log and to the excuses
LEMMA AnnounceDoes ==
    ASSUME NEW e, NEW fate, NEW late, Announce(e, fate, late)
    PROVE  /\ log' = Append(log, e)
           /\ excused \subseteq excused'
           /\ \A x \in late : <<x, "announced late">> \in excused'
           /\ fate \in {"untold", "unheard"} =>
                  \A x \in Party(e) : <<x, "crash">> \in excused'
           /\ untold' = IF fate = "untold" THEN untold \cup {Len(log) + 1} ELSE untold
  BY DEF Announce, Excuse

\* What the peer says has been settled
LEMMA TradesSinceIs ==
    ASSUME Types, PlaceSound, NEW k \in 1..(Len(log) + 1)
    PROVE  TradesSince(k) \subseteq settled
<1>1. Len(log) \in Nat
  BY LenProperties DEF Types
<1>2. \A j \in k..Len(log) : j \in 1..Len(log)
  BY <1>1
<1> QED
  BY <1>2 DEF TradesSince, PlaceSound

\* What a trade that fails leaves behind
Failed == \E why \in {"refused", "no unit", "gave up"} : excused' = Excuse(Party(Current), why)

LEMMA FailedExcuses ==
    ASSUME Failed
    PROVE  /\ \A o \in ToSet(Current.orders) : Forgiven(o)'
           /\ \A t : t = Current.orders => Lost(t)'
<1>1. PICK why \in {"refused", "no unit", "gave up"} : excused' = Excuse(Party(Current), why)
  BY DEF Failed
<1>2. why \in Reasons /\ why \in TradeReasons
  BY DEF Reasons, TradeReasons
<1>3. \A x \in Party(Current) : <<x, why>> \in excused'
  BY <1>1 DEF Excuse
<1>4. ToSet(Current.orders) \subseteq Party(Current) /\ Current.orders \in Party(Current)
  BY DEF Party
<1> QED
  BY <1>2, <1>3, <1>4 DEF Forgiven, Lost

\* A step of the new node leaves the peer alone, and a step of the peer the node.
LEMMA PeerRests ==
    ASSUME Start \/ Crash \/ Copy \/ HandleEvent \/ Backend \/ UNCHANGED vars
    PROVE  UNCHANGED peer /\ excused \subseteq excused'
<1>1. CASE Start \/ Crash
  BY <1>1 DEF Start, Crash, Excuse
<1>2. CASE Copy
  BY <1>2 DEF Copy, InitFromPeers, ReceiveInit, InitFails, CopyOrder, UpsertOrder, CopyTrades,
              SetInitialized, Excuse
<1>3. CASE HandleEvent
  BY <1>3 DEF HandleEvent, NotInChain, HandleOrder, HandleCancel, HandleTrade, ReadOrAddOrder,
              ReadOrderWithRetries, RefuseTrade, ExecuteReplicatedTrade, InsertTrades, Store,
              Fail, Excuse
<1>4. CASE Backend
  BY <1>4 DEF Backend, BackendInserts, BackendCancels, Excuse
<1>5. CASE UNCHANGED vars
  BY <1>5 DEF vars
<1> QED
  BY <1>1, <1>2, <1>3, <1>4, <1>5

LEMMA NodeRests ==
    ASSUME Peer
    PROVE  UNCHANGED <<book, trades, next, initialized, up, copy, handling, toBackend>>
  BY DEF Peer, SourceOrder, SourceCancel, SourceMatch, SourceAnnounces

\* The chain of the peer only grows.
LEMMA LogGrows ==
    ASSUME Types, [Next]_vars
    PROVE  /\ log' \in Seq(Announced) /\ pending' \in Seq(Matched)
           /\ Len(log) \in Nat /\ Len(log') \in Nat /\ Len(log) <= Len(log')
           /\ \A k \in 1..Len(log) : log'[k] = log[k]
           /\ excused \subseteq excused'
           /\ settled \subseteq settled'
<1>t. log \in Seq(Announced) /\ pending \in Seq(Matched) /\ Len(log) \in Nat
  BY LenProperties DEF Types
<1>1. ASSUME NEW o \in Orders, NEW fate, SourceOrder(o, fate) \/ SourceCancel(o, fate)
      PROVE  /\ pending' = pending /\ settled' = settled /\ excused \subseteq excused'
             /\ \E e \in Announced : log' = Append(log, e)
  BY <1>1, OrderEvents, AnnounceDoes DEF SourceOrder, SourceCancel
<1>2. ASSUME NEW p \in Pairs, SourceMatch(p)
      PROVE  /\ log' = log /\ settled' = settled /\ excused' = excused
             /\ \E e \in Matched : pending' = Append(pending, e)
  BY <1>2, MatchDoes DEF SourceMatch
<1>3. CASE \E fate : SourceAnnounces(fate)
  <2>1. /\ Head(pending) \in Matched /\ pending' = Tail(pending) /\ pending' \in Seq(Matched)
        /\ log' = Append(log, Head(pending))
        /\ settled \subseteq settled' /\ excused \subseteq excused'
    BY <1>3, <1>t, TailSet, AnnounceDoes DEF SourceAnnounces
  <2>2. Head(pending) \in Announced
    BY <2>1, TradeKind
  <2> QED
    BY <1>t, <2>1, <2>2, AppendSet
<1>4. ASSUME Start \/ Crash \/ Copy \/ HandleEvent \/ Backend \/ UNCHANGED vars
      PROVE  UNCHANGED peer /\ excused \subseteq excused'
  BY <1>4, PeerRests
<1>5. CASE \E o \in Orders : \E fate : SourceOrder(o, fate) \/ SourceCancel(o, fate)
  BY <1>t, <1>1, <1>5, AppendSet
<1>6. CASE \E p \in Pairs : SourceMatch(p)
  BY <1>t, <1>2, <1>6, AppendSet
<1>7. CASE UNCHANGED peer /\ excused \subseteq excused'
  BY <1>t, <1>7 DEF peer
<1> QED
  BY <1>3, <1>4, <1>5, <1>6, <1>7 DEF Next, Peer

LEMMA TypesStep ==
    ASSUME Types, PlaceSound, [Next]_vars
    PROVE  Types'
<1>l. /\ log' \in Seq(Announced) /\ pending' \in Seq(Matched)
      /\ Len(log) \in Nat /\ Len(log') \in Nat /\ Len(log) <= Len(log')
  BY LogGrows
<1>n. next \in 0..(Len(log') + 1)
  BY <1>l DEF Types
<1>1. ASSUME NEW o \in Orders, NEW fate, SourceOrder(o, fate) PROVE Types'
  <2>1. source' \in [Orders -> Entries]
    BY <1>1, SizeNat DEF SourceOrder, Types
  <2> QED
    BY <1>l, <1>n, <1>1, <2>1 DEF SourceOrder, Types
<1>2. ASSUME NEW o \in Orders, NEW fate, SourceCancel(o, fate) PROVE Types'
  <2>1. source' \in [Orders -> Entries]
    BY <1>2 DEF SourceCancel, Types, Entries
  <2> QED
    BY <1>l, <1>n, <1>2, <2>1 DEF SourceCancel, Types
<1>3. ASSUME NEW p \in Pairs, SourceMatch(p) PROVE Types'
  <2>1. PICK after \in [1..2 -> Remainders] :
           source' = [source EXCEPT ![p[1]] = after[1], ![p[2]] = after[2]]
    BY <1>3, MatchDoes
  <2>2. after[1] \in Entries /\ after[2] \in Entries
    BY <2>1, RemaindersAre
  <2>3. source' \in [Orders -> Entries]
    BY <2>1, <2>2 DEF Types
  <2> QED
    BY <1>l, <1>n, <1>3, <2>3 DEF SourceMatch, Types
<1>4. CASE \E fate : SourceAnnounces(fate)
  <2>1. Head(pending).orders \in Pairs
    BY <1>4, TailSet, TradeKind DEF SourceAnnounces, Types
  <2>2. settled' \subseteq Pairs /\ trades' \subseteq settled'
    BY <1>4, <2>1 DEF SourceAnnounces, Types
  <2> QED
    BY <1>l, <1>n, <1>4, <2>2 DEF SourceAnnounces, Types
<1>5. CASE Start
  <2>1. next' \in 0..(Len(log') + 1)
    BY <1>l, <1>n, <1>5 DEF Start
  <2>2. copy' \in [stage : {"off", "ask", "answer", "find", "upsert", "flag"},
                   orders : Seq(Orders), trades : SUBSET Pairs]
    BY <1>5, EmptySeq DEF Start, NoCopy
  <2> QED
    BY <1>l, <1>5, <2>1, <2>2 DEF Start, Types, peer
<1>6. CASE Crash
  <2>1. copy' \in [stage : {"off", "ask", "answer", "find", "upsert", "flag"},
                   orders : Seq(Orders), trades : SUBSET Pairs]
    BY <1>6, EmptySeq DEF Crash, NoCopy
  <2>2. /\ handling' \in [stage : Stages, k : 1..3]
        /\ toBackend' \in Seq(Messages)
    BY <1>6, EmptySeq DEF Crash, Idle, Stages
  <2> QED
    BY <1>l, <1>6, <2>1, <2>2 DEF Crash, Types, peer
<1>c. ASSUME NEW o \in Orders
      PROVE  /\ Append(toBackend, New(o)) \in Seq(Messages)
             /\ Append(toBackend, Cancelling(o)) \in Seq(Messages)
  <2>1. toBackend \in Seq(Messages)
    BY DEF Types
  <2> QED
    BY <2>1, MessagesAre, AppendProperties
<1>7. CASE Copy
  <2>h. copy.orders # <<>> => Head(copy.orders) \in Orders /\ Tail(copy.orders) \in Seq(Orders)
    BY TailSet DEF Types
  <2>1. CASE InitFromPeers
    <3>1. PICK os \in Seq(Orders) :
             copy' = [copy EXCEPT !.stage = "answer", !.orders = os]
      BY <2>1, OldestFirstIs DEF InitFromPeers
    <3> QED
      BY <1>l, <2>1, <3>1 DEF InitFromPeers, Types, peer
  <2>2. CASE ReceiveInit
    <3>1. PICK k \in 1..(Len(log) + 1) :
             copy' = [copy EXCEPT !.stage = "find", !.trades = TradesSince(k)]
      BY <2>2 DEF ReceiveInit
    <3>2. TradesSince(k) \in SUBSET Pairs
      BY <3>1, TradesSinceIs DEF Types
    <3> QED
      BY <1>l, <2>2, <3>1, <3>2 DEF ReceiveInit, Types, peer
  <2>7. CASE InitFails
    <3>1. copy' \in [stage : {"off", "ask", "answer", "find", "upsert", "flag"},
                     orders : Seq(Orders), trades : SUBSET Pairs]
      BY <2>7, EmptySeq DEF InitFails, NoCopy
    <3> QED
      BY <1>l, <2>7, <3>1 DEF InitFails, Types, peer
  <2>3. CASE CopyOrder
    <3>1. copy' \in [stage : {"off", "ask", "answer", "find", "upsert", "flag"},
                     orders : Seq(Orders), trades : SUBSET Pairs]
      BY <2>3, <2>h, EmptySeq DEF CopyOrder, Types
    <3>2. toBackend' \in Seq(Messages)
      BY <2>3, <2>h, <1>c DEF CopyOrder, Types, New
    <3> QED
      BY <1>l, <2>3, <3>1, <3>2 DEF CopyOrder, Types, peer
  <2>4. CASE UpsertOrder
    <3>1. copy.orders # <<>>
      BY <2>4 DEF UpsertOrder, Copying, PlaceSound
    <3>2. book' \in [Orders -> Entries]
      BY <2>4, <2>h, <3>1, SizeNat DEF UpsertOrder, Types
    <3> QED
      BY <1>l, <2>4, <2>h, <3>1, <3>2 DEF UpsertOrder, Types, peer
  <2>5. CASE CopyTrades
    BY <1>l, <2>5 DEF CopyTrades, Types, PlaceSound, peer
  <2>6. CASE SetInitialized
    BY <1>l, <2>6, EmptySeq DEF SetInitialized, NoCopy, Types, peer
  <2> QED
    BY <1>7, <2>1, <2>2, <2>3, <2>4, <2>5, <2>6, <2>7 DEF Copy
<1>s. \A stage \in Stages, k \in 1..3 : Then(stage, k) => handling' \in [stage : Stages, k : 1..3]
  BY DEF Then
<1>8. CASE HandleEvent
  <2>c. next \in 1..Len(log) => /\ Current.orders[1] \in Orders
                                /\ Current.type = "trade" =>
                                      /\ Current.orders[2] \in Orders
                                      /\ Current.entries[1] \in Entries
                                      /\ Current.entries[2] \in Entries
    BY CurrentIs, TradeKind, RemaindersAre, PairSet
  <2>d. handling.stage \in {"read", "wait", "insert"} =>
           next \in 1..Len(log) /\ Current.type = "trade"
    BY DEF PlaceSound
  <2>1. CASE HandleOrder \/ HandleCancel \/ HandleTrade
    <3>1. handling' \in [stage : Stages, k : 1..3]
      BY <2>1 DEF HandleOrder, HandleCancel, HandleTrade, Then, Stages
    <3>2. toBackend' \in Seq(Messages)
      BY <2>1, <2>c, <1>c DEF HandleOrder, HandleCancel, HandleTrade, Arrives, Types, New,
                              Cancelling
    <3> QED
      BY <1>l, <2>1, <3>1, <3>2 DEF HandleOrder, HandleCancel, HandleTrade, Types, peer
  <2>2. CASE ReadOrAddOrder
    <3>1. handling.k \in 1..2 /\ handling.k + 1 \in 1..3
      BY <2>2 DEF ReadOrAddOrder, Types
    <3>2. handling' \in [stage : Stages, k : 1..3]
      BY <2>2, <3>1 DEF ReadOrAddOrder, Fail, Then, Stages
    <3>3. Current.orders[handling.k] \in Orders
      BY <2>2, <2>c, <2>d, <3>1 DEF ReadOrAddOrder, Handling
    <3>4. toBackend' \in Seq(Messages)
      BY <2>2, <3>3, <1>c DEF ReadOrAddOrder, Types, New
    <3> QED
      BY <1>l, <2>2, <3>2, <3>4 DEF ReadOrAddOrder, Types, peer
  <2>3. CASE ReadOrderWithRetries
    <3>1. handling.k \in 1..2 /\ handling.k + 1 \in 1..3
      <4>1. handling.k <= 2 /\ handling.k \in 1..3
        BY <2>3 DEF ReadOrderWithRetries, Handling, PlaceSound, Types
      <4> QED
        BY <4>1
    <3>2. handling' \in [stage : Stages, k : 1..3]
      <4>1. Then("read", handling.k + 1) \/ Then("store", 1)
        BY <2>3 DEF ReadOrderWithRetries, Fail
      <4>2. "read" \in Stages /\ "store" \in Stages /\ 1 \in 1..3
        BY DEF Stages
      <4> QED
        BY <1>s, <3>1, <4>1, <4>2
    <3> QED
      BY <1>l, <2>3, <3>2 DEF ReadOrderWithRetries, Types, peer
  <2>4. CASE ExecuteReplicatedTrade
    <3>1. handling' \in [stage : Stages, k : 1..3]
      <4>1. Then("insert", 1)
        BY <2>4 DEF ExecuteReplicatedTrade
      <4>2. "insert" \in Stages /\ 1 \in 1..3
        BY DEF Stages
      <4> QED
        BY <1>s, <4>1, <4>2
    <3>2. book' \in [Orders -> Entries]
      BY <2>4, <2>c, <2>d DEF ExecuteReplicatedTrade, Handling, Types
    <3> QED
      BY <1>l, <2>4, <3>1, <3>2 DEF ExecuteReplicatedTrade, Types, peer
  <2>5. CASE InsertTrades
    <3>1. handling' \in [stage : Stages, k : 1..3]
      BY <2>5 DEF InsertTrades, Then, Stages
    <3>2. trades' \subseteq settled'
      BY <2>5, <2>d DEF InsertTrades, Handling, PlaceSound, Types, Current, peer
    <3> QED
      BY <1>l, <2>5, <3>1, <3>2 DEF InsertTrades, Types, peer
  <2>6. CASE Store
    <3>1. handling' \in [stage : Stages, k : 1..3]
      BY <2>6 DEF Store, Idle, Stages
    <3>2. next' \in 0..(Len(log') + 1)
      BY <2>6, <1>l DEF Store, Handling, PlaceSound, peer
    <3> QED
      BY <1>l, <2>6, <3>1, <3>2 DEF Store, Types, peer
  <2>7. CASE NotInChain
    <3>1. next' \in 0..(Len(log') + 1)
      BY <2>7, <1>l DEF NotInChain, peer
    <3> QED
      BY <1>l, <2>7, <3>1 DEF NotInChain, Types, peer
  <2>8. CASE RefuseTrade
    <3>1. handling' \in [stage : Stages, k : 1..3]
      <4>1. Then("store", 1)
        BY <2>8 DEF RefuseTrade, Fail
      <4>2. "store" \in Stages /\ 1 \in 1..3
        BY DEF Stages
      <4> QED
        BY <1>s, <4>1, <4>2
    <3> QED
      BY <1>l, <2>8, <3>1 DEF RefuseTrade, Types, peer
  <2> QED
    BY <1>8, <2>1, <2>2, <2>3, <2>4, <2>5, <2>6, <2>7, <2>8 DEF HandleEvent
<1>9. CASE Backend
  <2>1. ASSUME NEW o \in Orders, BackendInserts(o) PROVE Types'
    <3>1. toBackend' \in Seq(Messages)
      BY <2>1, TailSet DEF BackendInserts, Types
    <3>2. book' \in [Orders -> Entries]
      BY <2>1, SizeNat DEF BackendInserts, Types
    <3> QED
      BY <1>l, <2>1, <3>1, <3>2 DEF BackendInserts, Types, peer
  <2>2. ASSUME NEW o \in Orders, BackendCancels(o) PROVE Types'
    <3>1. toBackend' \in Seq(Messages)
      BY <2>2, TailSet DEF BackendCancels, Types
    <3>2. book' \in [Orders -> Entries]
      BY <2>2 DEF BackendCancels, Types, Entries
    <3> QED
      BY <1>l, <2>2, <3>1, <3>2 DEF BackendCancels, Types, peer
  <2> QED
    BY <1>9, <2>1, <2>2 DEF Backend
<1>10. CASE UNCHANGED vars
  BY <1>10 DEF vars, peer, Types
<1> QED
  BY <1>1, <1>2, <1>3, <1>4, <1>5, <1>6, <1>7, <1>8, <1>9, <1>10 DEF Next, Peer

-----------------------------------------------------------------------------
(* The peer *)

LEMMA AppendTrades ==
    ASSUME NEW S, NEW s \in Seq(S), NEW e \in S, NEW o
    PROVE  /\ \A i \in 0..Len(s) :
                  LastTrade(Append(s, e), o, i) <=> LastTrade(s, o, i) /\ ~IsTrade(e, o)
           /\ LastTrade(Append(s, e), o, Len(s) + 1)
<1>1. /\ Len(Append(s, e)) = Len(s) + 1 /\ Len(s) \in Nat
      /\ \A i \in 1..Len(s) : Append(s, e)[i] = s[i]
      /\ Append(s, e)[Len(s) + 1] = e
  BY AppendSet, LenProperties
<1> HIDE DEF IsTrade
<1> QED
  BY <1>1 DEF LastTrade

LEMMA TailTrades ==
    ASSUME NEW S, NEW s \in Seq(S), s # <<>>, NEW o
    PROVE  /\ \A i \in 1..Len(Tail(s)) :
                  /\ i + 1 \in 1..Len(s) /\ Tail(s)[i] = s[i + 1]
                  /\ LastTrade(Tail(s), o, i) <=> LastTrade(s, o, i + 1)
           /\ LastTrade(s, o, 1) <=> LastTrade(Tail(s), o, 0)
           /\ LastTrade(s, o, 0) <=> LastTrade(Tail(s), o, 0) /\ ~IsTrade(Head(s), o)
<1>1. /\ Len(s) \in Nat /\ Len(s) >= 1 /\ Len(Tail(s)) = Len(s) - 1
      /\ \A i \in 1..(Len(s) - 1) : Tail(s)[i] = s[i + 1]
      /\ Head(s) = s[1]
  BY TailSet
<1>2. ASSUME NEW i \in 0..Len(Tail(s))
      PROVE  LastTrade(Tail(s), o, i) <=> LastTrade(s, o, i + 1)
  <2>1. ASSUME LastTrade(Tail(s), o, i), NEW j \in (i + 2)..Len(s) PROVE ~IsTrade(s[j], o)
    <3>1. j - 1 \in (i + 1)..Len(Tail(s)) /\ Tail(s)[j - 1] = s[j]
      BY <1>1
    <3> QED
      BY <2>1, <3>1 DEF LastTrade
  <2>2. ASSUME LastTrade(s, o, i + 1), NEW j \in (i + 1)..Len(Tail(s))
        PROVE  ~IsTrade(Tail(s)[j], o)
    <3>1. j + 1 \in (i + 1 + 1)..Len(s) /\ Tail(s)[j] = s[j + 1]
      BY <1>1
    <3> QED
      BY <2>2, <3>1 DEF LastTrade
  <2>3. (i + 1) + 1 = i + 2
    BY <1>1
  <2> QED
    BY <2>1, <2>2, <2>3 DEF LastTrade
<1>3. LastTrade(s, o, 1) <=> LastTrade(Tail(s), o, 0)
  BY <1>1, <1>2
<1>4. LastTrade(s, o, 0) <=> LastTrade(s, o, 1) /\ ~IsTrade(s[1], o)
  BY <1>1 DEF LastTrade
<1> QED
  BY <1>1, <1>2, <1>3, <1>4

\* Events that are not about an order leave what is known of it.
LEMMA OtherOrder ==
    ASSUME NEW o \in Orders, Recorded(o), LateTrades(o), LastMatch(o),
           source'[o] = source[o], excused \subseteq excused',
           Len(log) \in Nat, Len(log') \in Nat, Len(log) <= Len(log'),
           \A k \in 1..Len(log) : log'[k] = log[k],
           \A k \in (Len(log) + 1)..Len(log') : ~IsOrder(log'[k], o) /\ ~News(log'[k], o),
           \A i \in 1..Len(pending') : IsTrade(pending'[i], o) =>
               \E h \in 1..Len(pending) :
                   /\ pending'[i] = pending[h]
                   /\ LastTrade(pending', o, i) => LastTrade(pending, o, h),
           LastTrade(pending', o, 0) => LastTrade(pending, o, 0)
    PROVE  Recorded(o)' /\ LateTrades(o)' /\ LastMatch(o)'
<1>1. /\ \A k \in 1..Len(log') : IsOrder(log'[k], o) \/ News(log'[k], o)
                                     => k \in 1..Len(log) /\ log'[k] = log[k]
      /\ \A k \in 1..Len(log) : k \in 1..Len(log') /\ log'[k] = log[k]
  <2> HIDE DEF IsOrder, News
  <2> QED
    OBVIOUS
<1>2. \A k : (IsCancel(log'[k], o) \/ IsTrade(log'[k], o)) <=> News(log'[k], o)
  BY DEF News
<1>3. \A k : (IsCancel(log[k], o) \/ IsTrade(log[k], o)) <=> News(log[k], o)
  BY DEF News
<1>4. Recorded(o)'
  <2>1. (source[o] # Absent <=> \E k \in 1..Len(log) : IsOrder(log[k], o))'
    BY <1>1 DEF Recorded
  <2>2. (\A k \in 1..Len(log) : News(log[k], o) => source[o] # Absent)'
    BY <1>1 DEF Recorded
  <2>3. (\A i \in 1..Len(pending) : IsTrade(pending[i], o) => source[o] # Absent)'
    BY DEF Recorded
  <2>4. (\A j, k \in 1..Len(log) : IsOrder(log[k], o) /\ News(log[j], o) => k < j)'
    BY <1>1 DEF Recorded
  <2>5. (source[o].status = "CANCELLED" <=> \E k \in 1..Len(log) : IsCancel(log[k], o))'
    BY <1>1, <1>2, <1>3 DEF Recorded
  <2> QED
    BY <2>1, <2>2, <2>3, <2>4, <2>5 DEF Recorded
<1>5. LateTrades(o)'
  <2>1. (Live(source[o]) \/ source[o].status = "CANCELLED" =>
           \A i \in 1..Len(pending) :
               IsTrade(pending[i], o) => Live(Left(pending[i], o)))'
    BY DEF LateTrades
  <2>2. (\A j, k \in 1..Len(log) : j < k /\ IsCancel(log[j], o) /\ IsTrade(log[k], o)
           => <<o, "announced late">> \in excused)'
    BY <1>1, <1>2 DEF LateTrades
  <2> QED
    BY <2>1, <2>2 DEF LateTrades
<1>6. LastMatch(o)'
  <2>1. (\A i \in 1..Len(pending) :
           IsTrade(pending[i], o) /\ LastTrade(pending, o, i) => Reflects(o, Left(pending[i], o)))'
    BY DEF LastMatch, Reflects
  <2>2. \A k \in 1..Len(log) : LastTrade(log', o, k) => LastTrade(log, o, k)
    BY DEF LastTrade
  <2>3. LastTrade(log', o, 0) => LastTrade(log, o, 0)
    BY DEF LastTrade
  <2>4. (LastTrade(pending, o, 0) =>
           \A k \in 1..Len(log) :
              IsTrade(log[k], o) /\ LastTrade(log, o, k) => Reflects(o, Left(log[k], o)))'
    BY <1>1, <1>2, <2>2 DEF LastMatch, Reflects
  <2>5. (LastTrade(pending, o, 0) =>
           (LastTrade(log, o, 0) => source[o] = Absent \/ Reflects(o, Open(o))))'
    BY <2>3 DEF LastMatch, Reflects
  <2> QED
    BY <2>1, <2>4, <2>5 DEF LastMatch
<1> QED
  BY <1>4, <1>5, <1>6

LEMMA SourceOrderSound ==
    ASSUME Types, Types', SourceSound, NEW n \in Orders, NEW fate, SourceOrder(n, fate)
    PROVE  SourceSound'
<1> DEFINE e == Event("order", <<n>>, <<>>)
<1>1. /\ source[n] = Absent /\ log' = Append(log, e)
      /\ source' = IF fate = "unheard" THEN source ELSE [source EXCEPT ![n] = Open(n)]
      /\ pending' = pending /\ excused \subseteq excused'
      /\ fate = "unheard" => <<n, "crash">> \in excused'
  <2>1. n \in Party(e)
    BY OneSet DEF Party, Event
  <2> QED
    BY <2>1, AnnounceDoes DEF SourceOrder
<1>f. \A o : Forgiven(o) => Forgiven(o)'
  BY <1>1 DEF Forgiven
<1>2. /\ Len(log) \in Nat /\ Len(log') = Len(log) + 1
      /\ \A k \in 1..Len(log) : log'[k] = log[k]
      /\ log'[Len(log) + 1] = e
  BY <1>1, AppendSet, OrderEvents, LenProperties DEF Types
<1>3. IsOrder(e, n) /\ \A o \in Orders : ~News(e, o) /\ (IsOrder(e, o) => o = n)
  BY DEF Event, IsOrder, News, IsCancel, IsTrade
<1> HIDE DEF e
<1>4. \A o \in Orders : o # n => source'[o] = source[o]
  BY <1>1 DEF Types
<1>5. ASSUME NEW o \in Orders, o # n, ~Forgiven(o)
      PROVE  Recorded(o)' /\ LateTrades(o)' /\ LastMatch(o)'
  <2>1. Recorded(o) /\ LateTrades(o) /\ LastMatch(o)
    BY <1>5 DEF SourceSound, Sourced
  <2>2. \A k \in (Len(log) + 1)..Len(log') : ~IsOrder(log'[k], o) /\ ~News(log'[k], o)
    BY <1>2, <1>3, <1>5
  <2> QED
    BY <1>1, <1>2, <1>4, <1>5, <2>1, <2>2, OtherOrder
<1>6. ASSUME ~Forgiven(n), fate # "unheard"
      PROVE  Recorded(n)' /\ LateTrades(n)' /\ LastMatch(n)'
  <2>1. Recorded(n)
    BY <1>6 DEF SourceSound, Sourced
  <2>2. \A k \in 1..Len(log') : ~News(log'[k], n)
    BY <1>1, <1>2, <1>3, <2>1 DEF Recorded
  <2>3. \A k \in 1..Len(log') : ~IsCancel(log'[k], n) /\ ~IsTrade(log'[k], n)
    BY <2>2 DEF News
  <2>4. \A i \in 1..Len(pending') : ~IsTrade(pending'[i], n)
    BY <1>1, <2>1 DEF Recorded
  <2>5. source'[n] = Open(n) /\ Open(n) # Absent /\ Open(n).status = "OPEN"
    BY <1>1, <1>6, SizeNat DEF Types, Open, Entry
  <2>6. IsOrder(log'[Len(log) + 1], n) /\ Len(log) + 1 \in 1..Len(log')
    BY <1>2, <1>3
  <2>7. Recorded(n)'
    BY <2>2, <2>3, <2>4, <2>5, <2>6 DEF Recorded
  <2>8. LateTrades(n)' /\ LastMatch(n)'
    BY <2>3, <2>4, <2>5 DEF LateTrades, LastMatch, Reflects
  <2> QED
    BY <2>7, <2>8
<1>7. fate = "unheard" => Forgiven(n)'
  BY <1>1 DEF Forgiven, Reasons
<1> QED
  BY <1>f, <1>5, <1>6, <1>7 DEF SourceSound, Sourced

LEMMA SourceCancelSound ==
    ASSUME Types, Types', SourceSound, NEW n \in Orders, NEW fate, SourceCancel(n, fate)
    PROVE  SourceSound'
<1> DEFINE e == Event("cancel", <<n>>, <<>>)
<1>1. /\ Live(source[n]) /\ log' = Append(log, e)
      /\ source' = IF fate = "unheard" THEN source
                   ELSE [source EXCEPT ![n].status = "CANCELLED"]
      /\ pending' = pending /\ excused \subseteq excused'
      /\ fate = "unheard" => <<n, "crash">> \in excused'
  <2>1. n \in Party(e)
    BY OneSet DEF Party, Event
  <2> QED
    BY <2>1, AnnounceDoes DEF SourceCancel
<1>f. \A o : Forgiven(o) => Forgiven(o)'
  BY <1>1 DEF Forgiven
<1>2. /\ Len(log) \in Nat /\ Len(log') = Len(log) + 1
      /\ \A k \in 1..Len(log) : log'[k] = log[k]
      /\ log'[Len(log) + 1] = e
  BY <1>1, AppendSet, OrderEvents, LenProperties DEF Types
<1>3. /\ IsCancel(e, n)
      /\ \A o \in Orders : ~IsTrade(e, o) /\ ~IsOrder(e, o) /\ (IsCancel(e, o) => o = n)
  BY DEF Event, IsOrder, IsCancel, IsTrade
<1> HIDE DEF e
<1>4. \A o \in Orders : o # n => source'[o] = source[o]
  BY <1>1 DEF Types
<1>5. ASSUME NEW o \in Orders, o # n, ~Forgiven(o)
      PROVE  Recorded(o)' /\ LateTrades(o)' /\ LastMatch(o)'
  <2>1. Recorded(o) /\ LateTrades(o) /\ LastMatch(o)
    BY <1>5 DEF SourceSound, Sourced
  <2>2. \A k \in (Len(log) + 1)..Len(log') : ~IsOrder(log'[k], o) /\ ~News(log'[k], o)
    BY <1>2, <1>3, <1>5 DEF News
  <2> QED
    BY <1>1, <1>2, <1>4, <1>5, <2>1, <2>2, OtherOrder
<1>6. ASSUME ~Forgiven(n), fate # "unheard"
      PROVE  Recorded(n)' /\ LateTrades(n)' /\ LastMatch(n)'
  <2>1. Recorded(n) /\ LateTrades(n) /\ LastMatch(n)
    BY <1>6 DEF SourceSound, Sourced
  <2>2. /\ source[n] # Absent /\ source[n].status # "CANCELLED"
        /\ source'[n] = [source[n] EXCEPT !.status = "CANCELLED"]
        /\ source'[n].status = "CANCELLED" /\ source'[n] # Absent
    BY <1>1, <1>6 DEF Types, Entries, Live, Absent, Entry
  <2>3. \A k \in 1..Len(log') : IsOrder(log'[k], n) \/ IsTrade(log'[k], n)
                                    => k \in 1..Len(log) /\ log'[k] = log[k]
    BY <1>2, <1>3
  <2>4. /\ \A k \in 1..Len(log) : k \in 1..Len(log') /\ log'[k] = log[k]
        /\ \A k \in 1..Len(log') : k \in 1..Len(log) \/ k = Len(log) + 1
    BY <1>2
  <2>5. Len(log) + 1 \in 1..Len(log') /\ IsCancel(log'[Len(log) + 1], n)
    BY <1>2, <1>3
  <2>6. Recorded(n)'
    <3>1. (source[n] # Absent <=> \E k \in 1..Len(log) : IsOrder(log[k], n))'
      BY <2>1, <2>2, <2>4 DEF Recorded
    <3>2. (\A j, k \in 1..Len(log) : IsOrder(log[k], n) /\ News(log[j], n) => k < j)'
      <4> SUFFICES ASSUME NEW j \in 1..Len(log'), NEW k \in 1..Len(log'),
                          IsOrder(log'[k], n), News(log'[j], n)
                   PROVE  k < j
        OBVIOUS
      <4>1. k \in 1..Len(log) /\ log'[k] = log[k]
        BY <2>3
      <4>2. CASE j \in 1..Len(log)
        BY <2>1, <2>4, <4>1, <4>2 DEF Recorded
      <4>3. CASE j = Len(log) + 1
        BY <1>2, <4>1, <4>3
      <4> QED
        BY <2>4, <4>2, <4>3
    <3> QED
      BY <1>1, <2>1, <2>2, <2>5, <3>1, <3>2 DEF Recorded
  <2>7. LateTrades(n)'
    <3>1. \A i \in 1..Len(pending) : IsTrade(pending[i], n) => Live(Left(pending[i], n))
      BY <1>1, <2>1 DEF LateTrades
    <3>2. ASSUME NEW j \in 1..Len(log'), NEW k \in 1..Len(log'), j < k,
                 IsCancel(log'[j], n), IsTrade(log'[k], n)
          PROVE  <<n, "announced late">> \in excused'
      <4>1. k \in 1..Len(log) /\ log'[k] = log[k] /\ j \in 1..Len(log)
        BY <1>2, <2>3, <3>2
      <4>2. log'[j] = log[j]
        BY <2>4, <4>1
      <4> QED
        BY <1>1, <2>1, <3>2, <4>1, <4>2 DEF LateTrades
    <3> QED
      BY <1>1, <3>1, <3>2 DEF LateTrades
  <2>8. \A x : Reflects(n, x) => Reflects(n, x)'
    BY <1>1, <2>2 DEF Reflects
  <2>9. /\ \A k \in 1..Len(log) : LastTrade(log', n, k) => LastTrade(log, n, k)
        /\ LastTrade(log', n, 0) => LastTrade(log, n, 0)
    BY <1>2, <2>4 DEF LastTrade
  <2>10. LastMatch(n)'
    BY <1>1, <2>1, <2>2, <2>3, <2>8, <2>9 DEF LastMatch
  <2> QED
    BY <2>6, <2>7, <2>10
<1>7. fate = "unheard" => Forgiven(n)'
  BY <1>1 DEF Forgiven, Reasons
<1> QED
  BY <1>f, <1>5, <1>6, <1>7 DEF SourceSound, Sourced

LEMMA SourceMatchSound ==
    ASSUME Types, Types', SourceSound, NEW p \in Pairs, SourceMatch(p)
    PROVE  SourceSound'
<1>1. PICK after \in [1..2 -> Remainders] :
         /\ Live(source[p[1]]) /\ Live(source[p[2]])
         /\ source' = [source EXCEPT ![p[1]] = after[1], ![p[2]] = after[2]]
         /\ Event("trade", p, after) \in Matched
         /\ pending' = Append(pending, Event("trade", p, after))
  BY MatchDoes
<1> DEFINE e == Event("trade", p, after)
<1>2. log' = log /\ excused' = excused /\ Len(log) \in Nat
  BY LenProperties DEF SourceMatch, Types
<1>f. \A o : Forgiven(o) => Forgiven(o)'
  BY <1>2 DEF Forgiven
<1>3. /\ Len(pending) \in Nat /\ Len(pending') = Len(pending) + 1
      /\ \A i \in 1..Len(pending) : pending'[i] = pending[i]
      /\ pending'[Len(pending) + 1] = e
      /\ \A o : \A i \in 0..Len(pending) :
            LastTrade(pending', o, i) <=> LastTrade(pending, o, i) /\ ~IsTrade(e, o)
  <2>1. pending \in Seq(Matched) /\ e \in Matched /\ pending' = Append(pending, e)
    BY <1>1 DEF Types
  <2> HIDE DEF e
  <2>2. Len(pending) \in Nat
    BY <2>1, LenProperties
  <2>3. /\ Len(pending') = Len(pending) + 1
        /\ \A i \in 1..Len(pending) : pending'[i] = pending[i]
        /\ pending'[Len(pending) + 1] = e
    BY <2>1, AppendSet
  <2>4. \A o : \A i \in 0..Len(pending) :
            LastTrade(pending', o, i) <=> LastTrade(pending, o, i) /\ ~IsTrade(e, o)
    BY <2>1, AppendTrades
  <2> QED
    BY <2>2, <2>3, <2>4
<1>4. ASSUME NEW o \in Orders
      PROVE  /\ o \notin {p[1], p[2]} => ~IsTrade(e, o) /\ source'[o] = source[o]
             /\ o \in {p[1], p[2]} => /\ IsTrade(e, o) /\ Left(e, o) = source'[o]
                                      /\ Live(source[o]) /\ source'[o] \in Remainders
  BY <1>1, PairSet DEF Event, IsTrade, Left, Types
<1> HIDE DEF e
<1>5. ASSUME NEW o \in Orders, o \notin {p[1], p[2]}, ~Forgiven(o)
      PROVE  Recorded(o)' /\ LateTrades(o)' /\ LastMatch(o)'
  <2>1. Recorded(o) /\ LateTrades(o) /\ LastMatch(o)
    BY <1>5 DEF SourceSound, Sourced
  <2>2. LastTrade(pending', o, 0) => LastTrade(pending, o, 0)
    BY <1>3
  <2>3. ASSUME NEW i \in 1..Len(pending'), IsTrade(pending'[i], o)
        PROVE  \E h \in 1..Len(pending) :
                   /\ pending'[i] = pending[h]
                   /\ LastTrade(pending', o, i) => LastTrade(pending, o, h)
    <3>1. i \in 1..Len(pending)
      BY <1>3, <1>4, <1>5, <2>3
    <3> QED
      BY <1>3, <3>1
  <2> QED
    BY <1>2, <1>4, <1>5, <2>1, <2>2, <2>3, OtherOrder
<1>6. ASSUME NEW o \in Orders, o \in {p[1], p[2]}, ~Forgiven(o)
      PROVE  Recorded(o)' /\ LateTrades(o)' /\ LastMatch(o)'
  <2>1. Recorded(o) /\ LateTrades(o) /\ LastMatch(o)
    BY <1>6 DEF SourceSound, Sourced
  <2>2. IsTrade(e, o) /\ Left(e, o) = source'[o] /\ Live(source[o])
    BY <1>4, <1>6
  <2>3. /\ source'[o] # Absent /\ source'[o].status # "CANCELLED"
        /\ source[o] # Absent /\ source[o].status # "CANCELLED"
    BY <1>4, <1>6, RemaindersAre, AbsentIs DEF Live
  <2>4. Recorded(o)'
    BY <1>2, <2>1, <2>3 DEF Recorded
  <2>5. LateTrades(o)'
    <3>1. ASSUME Live(source'[o]), NEW i \in 1..Len(pending'), IsTrade(pending'[i], o)
          PROVE  Live(Left(pending'[i], o))
      <4>1. CASE i \in 1..Len(pending)
        BY <1>3, <2>1, <2>2, <3>1, <4>1 DEF LateTrades
      <4>2. CASE i = Len(pending) + 1
        BY <1>3, <2>2, <3>1, <4>2
      <4> QED
        BY <1>3, <4>1, <4>2
    <3> QED
      BY <1>2, <2>1, <2>3, <3>1 DEF LateTrades
  <2>6. LastMatch(o)'
    <3>1. ~LastTrade(pending', o, 0)
      BY <1>3, <2>2
    <3>2. ASSUME NEW i \in 1..Len(pending'), LastTrade(pending', o, i)
          PROVE  Reflects(o, Left(pending[i], o))'
      <4>1. i = Len(pending) + 1
        BY <1>3, <2>2, <3>2
      <4> QED
        BY <1>3, <2>2, <4>1 DEF Reflects
    <3> QED
      BY <3>1, <3>2 DEF LastMatch
  <2> QED
    BY <2>4, <2>5, <2>6
<1> QED
  BY <1>f, <1>5, <1>6 DEF SourceSound, Sourced

LEMMA SourceAnnouncesSound ==
    ASSUME Types, Types', SourceSound, NEW fate, SourceAnnounces(fate)
    PROVE  SourceSound'
<1>p. pending \in Seq(Matched) /\ pending # <<>>
  BY DEF Types, SourceAnnounces
<1>1. PICK e \in Matched :
         /\ e = Head(pending) /\ e = pending[1] /\ 1 \in 1..Len(pending)
         /\ pending' = Tail(pending) /\ source' = source /\ log' = Append(log, e)
  <2>1. Head(pending) \in Matched /\ Head(pending) = pending[1] /\ 1 \in 1..Len(pending)
    BY <1>p, TailSet
  <2> QED
    BY <2>1, AnnounceDoes DEF SourceAnnounces
<1>2. e \in Matched /\ e = pending[1] /\ 1 \in 1..Len(pending)
  BY <1>1
<1>3. /\ Len(log) \in Nat /\ Len(log') = Len(log) + 1
      /\ \A k \in 1..Len(log) : log'[k] = log[k]
      /\ log'[Len(log) + 1] = e
  <2>1. log \in Seq(Announced)
    BY DEF Types
  <2>2. e \in Announced
    BY <1>2, TradeKind
  <2>3. Len(log) \in Nat
    BY <2>1, LenProperties
  <2> QED
    BY <1>1, <2>1, <2>2, <2>3, AppendSet
<1>4. \A o : /\ \A i \in 1..Len(pending') :
                    /\ i + 1 \in 1..Len(pending) /\ pending'[i] = pending[i + 1]
                    /\ LastTrade(pending', o, i) <=> LastTrade(pending, o, i + 1)
             /\ LastTrade(pending, o, 1) <=> LastTrade(pending', o, 0)
             /\ LastTrade(pending, o, 0) <=> LastTrade(pending', o, 0) /\ ~IsTrade(e, o)
  BY <1>p, <1>1, TailTrades
<1>5. \A o : ~IsOrder(e, o) /\ ~IsCancel(e, o)
  BY <1>2, TradeKind DEF IsOrder, IsCancel
<1>6. ASSUME NEW o \in Orders, IsTrade(e, o), Live(Left(e, o)), source[o].status = "CANCELLED"
      PROVE  <<o, "announced late">> \in excused'
  <2>1. PICK i \in 1..2 : /\ o = e.orders[i] /\ Live(e.entries[i])
                          /\ source[e.orders[i]].status = "CANCELLED"
    BY <1>6 DEF IsTrade, Left
  <2>2. \A x \in {e.orders[h] : h \in {j \in 1..2 : Live(e.entries[j]) /\
                              source[e.orders[j]].status = "CANCELLED"}} :
           <<x, "announced late">> \in excused'
    BY <1>1, AnnounceDoes DEF SourceAnnounces
  <2> QED
    BY <2>1, <2>2
<1>7. excused \subseteq excused'
  BY AnnounceDoes DEF SourceAnnounces
<1>f. \A o : Forgiven(o) => Forgiven(o)'
  BY <1>7 DEF Forgiven
<1>8. ASSUME NEW o \in Orders, ~IsTrade(e, o), ~Forgiven(o)
      PROVE  Recorded(o)' /\ LateTrades(o)' /\ LastMatch(o)'
  <2>1. Recorded(o) /\ LateTrades(o) /\ LastMatch(o)
    BY <1>8 DEF SourceSound, Sourced
  <2>2. \A k \in (Len(log) + 1)..Len(log') : ~IsOrder(log'[k], o) /\ ~News(log'[k], o)
    BY <1>3, <1>5, <1>8 DEF News
  <2>3. LastTrade(pending', o, 0) => LastTrade(pending, o, 0)
    BY <1>4, <1>8
  <2>4. \A i \in 1..Len(pending') : IsTrade(pending'[i], o) =>
            \E h \in 1..Len(pending) :
                /\ pending'[i] = pending[h]
                /\ LastTrade(pending', o, i) => LastTrade(pending, o, h)
    BY <1>4
  <2>5. Len(log') \in Nat /\ Len(log) <= Len(log') /\ source'[o] = source[o]
    BY <1>1, <1>3
  <2> QED
    BY <1>3, <1>7, <2>1, <2>2, <2>3, <2>4, <2>5, OtherOrder
<1>9. ASSUME NEW o \in Orders, IsTrade(e, o), ~Forgiven(o)
      PROVE  Recorded(o)' /\ LateTrades(o)' /\ LastMatch(o)'
  <2>1. Recorded(o) /\ LateTrades(o) /\ LastMatch(o)
    BY <1>9 DEF SourceSound, Sourced
  <2>2. source[o] # Absent
    BY <1>2, <1>9, <2>1 DEF Recorded
  <2>3. \A k \in 1..Len(log') : IsOrder(log'[k], o) \/ IsCancel(log'[k], o)
                                    => k \in 1..Len(log) /\ log'[k] = log[k]
    BY <1>3, <1>5
  <2>4. /\ \A k \in 1..Len(log) : k \in 1..Len(log') /\ log'[k] = log[k]
        /\ \A k \in 1..Len(log') : k \in 1..Len(log) \/ k = Len(log) + 1
    BY <1>3
  <2>5. Recorded(o)'
    <3>1. (source[o] # Absent <=> \E k \in 1..Len(log) : IsOrder(log[k], o))'
      BY <1>1, <2>1, <2>2, <2>4 DEF Recorded
    <3>2. ASSUME NEW j \in 1..Len(log'), NEW k \in 1..Len(log'),
                 IsOrder(log'[k], o), News(log'[j], o)
          PROVE  k < j
      <4>1. k \in 1..Len(log) /\ log'[k] = log[k]
        BY <2>3, <3>2
      <4>2. CASE j \in 1..Len(log)
        BY <2>1, <2>4, <3>2, <4>1, <4>2 DEF Recorded
      <4>3. CASE j = Len(log) + 1
        BY <1>3, <4>1, <4>3
      <4> QED
        BY <2>4, <4>2, <4>3
    <3>3. (source[o].status = "CANCELLED" <=> \E k \in 1..Len(log) : IsCancel(log[k], o))'
      BY <1>1, <2>1, <2>3, <2>4 DEF Recorded
    <3> QED
      BY <1>1, <2>2, <3>1, <3>2, <3>3 DEF Recorded
  <2>6. LateTrades(o)'
    <3>1. ASSUME NEW j \in 1..Len(log'), NEW k \in 1..Len(log'), j < k,
                 IsCancel(log'[j], o), IsTrade(log'[k], o)
          PROVE  <<o, "announced late">> \in excused'
      <4>1. j \in 1..Len(log) /\ log'[j] = log[j]
        BY <2>3, <3>1
      <4>2. CASE k \in 1..Len(log)
        BY <1>7, <2>1, <2>4, <3>1, <4>1, <4>2 DEF LateTrades
      <4>3. CASE k = Len(log) + 1
        <5>1. source[o].status = "CANCELLED"
          BY <2>1, <3>1, <4>1 DEF Recorded
        <5>2. Live(Left(e, o))
          BY <1>2, <1>9, <2>1, <5>1 DEF LateTrades
        <5> QED
          BY <1>6, <1>9, <5>1, <5>2
      <4> QED
        BY <2>4, <4>2, <4>3
    <3>2. (Live(source[o]) \/ source[o].status = "CANCELLED" =>
              \A i \in 1..Len(pending) :
                  IsTrade(pending[i], o) => Live(Left(pending[i], o)))'
      BY <1>1, <1>4, <2>1 DEF LateTrades
    <3> QED
      BY <3>1, <3>2 DEF LateTrades
  <2>7. LastMatch(o)'
    <3>1. ASSUME NEW i \in 1..Len(pending'), IsTrade(pending'[i], o), LastTrade(pending', o, i)
          PROVE  Reflects(o, Left(pending'[i], o))
      <4>1. /\ i + 1 \in 1..Len(pending) /\ pending'[i] = pending[i + 1]
            /\ LastTrade(pending, o, i + 1)
        BY <1>4, <3>1
      <4> QED
        BY <2>1, <3>1, <4>1 DEF LastMatch
    <3>2. LastTrade(pending', o, 0) => Reflects(o, Left(e, o))
      BY <1>2, <1>4, <1>9, <2>1 DEF LastMatch
    <3>3. ASSUME NEW k \in 1..Len(log'), LastTrade(log', o, k) PROVE log'[k] = e
      BY <1>3, <1>9, <3>3 DEF LastTrade
    <3>4. ~LastTrade(log', o, 0)
      BY <1>3, <1>9 DEF LastTrade
    <3> QED
      BY <1>1, <3>1, <3>2, <3>3, <3>4 DEF LastMatch, Reflects
  <2> QED
    BY <2>5, <2>6, <2>7
<1> QED
  BY <1>f, <1>8, <1>9 DEF SourceSound, Sourced

LEMMA SourceStep ==
    ASSUME Types, Types', SourceSound, [Next]_vars
    PROVE  SourceSound'
<1>1. CASE Peer
  BY <1>1, SourceOrderSound, SourceCancelSound, SourceMatchSound, SourceAnnouncesSound DEF Peer
<1>2. CASE Start \/ Crash \/ Copy \/ HandleEvent \/ Backend \/ UNCHANGED vars
  <2>1. UNCHANGED <<source, pending, log>> /\ excused \subseteq excused'
    BY <1>2, PeerRests DEF peer
  <2> QED
    BY <2>1 DEF SourceSound, Sourced, Forgiven, Recorded, LateTrades, LastMatch, Reflects
<1> QED
  BY <1>1, <1>2 DEF Next

\* What a crash of the peer keeps from the chain
LEMMA UntoldStep ==
    ASSUME Types, Types', UntoldSound, [Next]_vars
    PROVE  UntoldSound'
<1>l. /\ Len(log) \in Nat /\ Len(log') \in Nat /\ Len(log) <= Len(log')
      /\ \A k \in 1..Len(log) : log'[k] = log[k]
      /\ excused \subseteq excused'
  BY LogGrows
<1>1. ASSUME untold' = untold PROVE UntoldSound'
  <2>1. ASSUME NEW k \in untold
        PROVE  /\ k \in 1..Len(log')
               /\ \A o \in Orders :
                      IsOrder(log'[k], o) \/ News(log'[k], o) => <<o, "crash">> \in excused'
               /\ log'[k].type = "trade" => <<log'[k].orders, "crash">> \in excused'
    <3>1. k \in 1..Len(log) /\ log'[k] = log[k]
      BY <1>l DEF UntoldSound
    <3> QED
      BY <1>l, <3>1 DEF UntoldSound
  <2> QED
    BY <1>1, <2>1 DEF UntoldSound
<1>2. ASSUME NEW e \in Announced, log' = Append(log, e), untold' = untold \cup {Len(log) + 1},
             \A x \in Party(e) : <<x, "crash">> \in excused'
      PROVE  UntoldSound'
  <2>1. /\ Len(log') = Len(log) + 1 /\ log'[Len(log) + 1] = e
    BY <1>2, AppendSet DEF Types
  <2>2. e.orders \in Party(e) /\ ToSet(e.orders) \subseteq Party(e)
    BY DEF Party
  <2>3. ASSUME NEW o \in Orders, IsOrder(e, o) \/ News(e, o) PROVE <<o, "crash">> \in excused'
    <3>1. CASE e.orders = <<o>>
      BY <1>2, <2>2, <3>1, OneSet
    <3>2. CASE IsTrade(e, o)
      <4>1. e.orders \in Pairs
        BY <3>2 DEF Announced, Matched, IsTrade
      <4>2. o \in ToSet(e.orders)
        BY <3>2, <4>1, PairSet DEF IsTrade
      <4> QED
        BY <1>2, <2>2, <4>2
    <3> QED
      BY <2>3, <3>1, <3>2 DEF IsOrder, News, IsCancel
  <2>4. <<e.orders, "crash">> \in excused'
    BY <1>2, <2>2
  <2>5. ASSUME NEW k \in untold'
        PROVE  /\ k \in 1..Len(log')
               /\ \A o \in Orders :
                      IsOrder(log'[k], o) \/ News(log'[k], o) => <<o, "crash">> \in excused'
               /\ log'[k].type = "trade" => <<log'[k].orders, "crash">> \in excused'
    <3>1. CASE k \in untold
      <4>1. k \in 1..Len(log) /\ log'[k] = log[k]
        BY <1>l, <3>1 DEF UntoldSound
      <4> QED
        BY <1>l, <3>1, <4>1 DEF UntoldSound
    <3>2. CASE k = Len(log) + 1
      BY <1>l, <2>1, <2>3, <2>4, <3>2
    <3> QED
      BY <1>2, <3>1, <3>2
  <2> QED
    BY <2>5 DEF UntoldSound
<1>3. ASSUME NEW o \in Orders, NEW fate, SourceOrder(o, fate) \/ SourceCancel(o, fate)
      PROVE  UntoldSound'
  <2>1. PICK e \in Announced : Announce(e, fate, {})
    BY <1>3, OrderEvents DEF SourceOrder, SourceCancel
  <2> QED
    BY <1>1, <1>2, <2>1, AnnounceDoes
<1>4. ASSUME NEW fate, SourceAnnounces(fate) PROVE UntoldSound'
  <2>1. pending \in Seq(Matched) /\ pending # <<>>
    BY <1>4 DEF SourceAnnounces, Types
  <2>2. PICK e \in Announced : e = Head(pending)
    BY <2>1, TailSet, TradeKind
  <2>3. PICK late : Announce(e, fate, late)
    BY <1>4, <2>2 DEF SourceAnnounces
  <2> QED
    BY <1>1, <1>2, <2>3, AnnounceDoes
<1>5. ASSUME NEW p \in Pairs, SourceMatch(p) PROVE UntoldSound'
  BY <1>1, <1>5 DEF SourceMatch
<1>6. CASE Start \/ Crash \/ Copy \/ HandleEvent \/ Backend \/ UNCHANGED vars
  BY <1>1, <1>6, PeerRests DEF peer
<1> QED
  BY <1>3, <1>4, <1>5, <1>6 DEF Next, Peer

-----------------------------------------------------------------------------
(* What the steps of the node do *)

LEMMA InitFromPeersDoes ==
    ASSUME Types, InitFromPeers
    PROVE  /\ up /\ copy.stage = "ask"
           /\ copy'.stage = "answer" /\ copy'.trades = copy.trades
           /\ copy'.orders \in Seq(Orders)
           /\ ToSet(copy'.orders) = {o \in Orders : source[o].status = "OPEN"}
           /\ excused' = Excuse({o \in Orders : source[o].status = "PARTIAL_FILLED"},
                                "partly filled")
           /\ UNCHANGED <<book, trades, next, initialized, up, handling, toBackend>>
<1> DEFINE open == {o \in Orders : source[o].status = "OPEN"}
<1>1. PICK os \in OldestFirst(open) :
         copy' = [copy EXCEPT !.stage = "answer", !.orders = os]
  BY DEF InitFromPeers
<1>2. os \in Seq(Orders) /\ ToSet(os) = open
  BY <1>1, OldestFirstIs
<1>3. copy'.stage = "answer" /\ copy'.orders = os /\ copy'.trades = copy.trades
  BY <1>1 DEF Types
<1>4. /\ up /\ copy.stage = "ask"
      /\ excused' = Excuse({o \in Orders : source[o].status = "PARTIAL_FILLED"},
                           "partly filled")
      /\ UNCHANGED <<book, trades, next, initialized, up, handling, toBackend>>
  BY DEF InitFromPeers, Copying
<1> QED
  BY <1>2, <1>3, <1>4

LEMMA ReceiveInitDoes ==
    ASSUME Types, PlaceSound, ReceiveInit
    PROVE  /\ up /\ copy.stage = "answer"
           /\ copy'.stage = "find" /\ copy'.orders = copy.orders
           /\ copy'.trades \subseteq settled
           /\ \A t \in settled : t \in copy'.trades \/ <<t, "older than a week">> \in excused'
           /\ UNCHANGED <<book, trades, next, initialized, up, handling, toBackend>>
<1>1. PICK k \in 1..(Len(log) + 1) :
         /\ copy' = [copy EXCEPT !.stage = "find", !.trades = TradesSince(k)]
         /\ excused' = Excuse(settled \ TradesSince(k), "older than a week")
  BY DEF ReceiveInit
<1>2. TradesSince(k) \subseteq settled
  BY <1>1, TradesSinceIs
<1>3. /\ copy'.stage = "find" /\ copy'.orders = copy.orders
      /\ copy'.trades = TradesSince(k)
  BY <1>1 DEF Types
<1> QED
  BY <1>1, <1>2, <1>3 DEF ReceiveInit, Copying, Excuse

LEMMA InitFailsDoes ==
    ASSUME InitFails
    PROVE  /\ up /\ copy.stage \in {"ask", "answer"} /\ copy' = NoCopy
           /\ copy'.stage = "off" /\ copy'.orders = <<>> /\ copy'.trades = {}
           /\ UNCHANGED <<book, trades, next, initialized, up, handling, toBackend, excused>>
  BY DEF InitFails, Copying, NoCopy

LEMMA CopyOrderDoes ==
    ASSUME Types, CopyOrder
    PROVE  \E n \in Orders :
              /\ up /\ copy.stage = "find" /\ copy.orders # <<>> /\ n = Head(copy.orders)
              /\ copy'.trades = copy.trades
              /\ UNCHANGED <<book, trades, next, initialized, up, handling>>
              /\ \/ /\ book[n] # Absent
                    /\ copy'.stage = "find" /\ copy'.orders = Tail(copy.orders)
                    /\ UNCHANGED <<toBackend, excused>>
                 \/ /\ book[n] = Absent
                    /\ copy'.stage = "upsert" /\ copy'.orders = copy.orders
                    /\ toBackend' = Append(toBackend, New(n))
                    /\ UNCHANGED excused
                 \/ /\ book[n] = Absent
                    /\ copy'.stage = "find" /\ copy'.orders = <<>>
                    /\ excused' = Excuse(ToSet(copy.orders), "aborted")
                    /\ UNCHANGED toBackend
<1> DEFINE n == Head(copy.orders)
<1>1. /\ up /\ copy.stage = "find" /\ copy.orders # <<>>
      /\ UNCHANGED <<book, trades, next, initialized, up, handling>>
  BY DEF CopyOrder, Copying
<1>2. n \in Orders
  BY <1>1, TailSet DEF Types
<1>3. \A s, os : /\ [copy EXCEPT !.stage = s].stage = s
                 /\ [copy EXCEPT !.stage = s].orders = copy.orders
                 /\ [copy EXCEPT !.stage = s].trades = copy.trades
                 /\ [copy EXCEPT !.orders = os].stage = copy.stage
                 /\ [copy EXCEPT !.orders = os].orders = os
                 /\ [copy EXCEPT !.orders = os].trades = copy.trades
  BY DEF Types
<1>4. CASE book[n] # Absent
  <2>1. copy' = [copy EXCEPT !.orders = Tail(copy.orders)] /\ UNCHANGED <<toBackend, excused>>
    BY <1>4 DEF CopyOrder
  <2> QED
    BY <1>1, <1>2, <1>3, <1>4, <2>1
<1>5. CASE book[n] = Absent /\ n \notin Refused
  <2>1. /\ copy' = [copy EXCEPT !.stage = "upsert"]
        /\ toBackend' = Append(toBackend, New(n)) /\ UNCHANGED excused
    BY <1>5 DEF CopyOrder, New
  <2> QED
    BY <1>1, <1>2, <1>3, <1>5, <2>1
<1>6. CASE book[n] = Absent /\ n \in Refused
  <2>1. /\ copy' = [copy EXCEPT !.orders = <<>>]
        /\ excused' = Excuse(ToSet(copy.orders), "aborted") /\ UNCHANGED toBackend
    BY <1>6 DEF CopyOrder
  <2> QED
    BY <1>1, <1>2, <1>3, <1>6, <2>1
<1> QED
  BY <1>4, <1>5, <1>6

LEMMA UpsertOrderDoes ==
    ASSUME Types, PlaceSound, UpsertOrder
    PROVE  \E n \in Orders :
              /\ up /\ copy.stage = "upsert" /\ copy.orders # <<>> /\ n = Head(copy.orders)
              /\ copy'.stage = "find" /\ copy'.orders = Tail(copy.orders)
              /\ copy'.trades = copy.trades
              /\ book'[n] = Open(n) /\ \A o \in Orders : o # n => book'[o] = book[o]
              /\ UNCHANGED <<trades, next, initialized, up, handling, toBackend, excused>>
<1>1. /\ up /\ copy.stage = "upsert"
      /\ book' = [book EXCEPT ![Head(copy.orders)] = Open(Head(copy.orders))]
      /\ copy' = [copy EXCEPT !.stage = "find", !.orders = Tail(copy.orders)]
      /\ UNCHANGED <<trades, next, initialized, up, handling, toBackend, excused>>
  BY DEF UpsertOrder, Copying
<1>2. copy.orders # <<>> /\ Head(copy.orders) \in Orders
  BY <1>1, TailSet DEF PlaceSound, Types
<1>3. copy'.stage = "find" /\ copy'.orders = Tail(copy.orders) /\ copy'.trades = copy.trades
  BY <1>1 DEF Types
<1>4. /\ book'[Head(copy.orders)] = Open(Head(copy.orders))
      /\ \A o \in Orders : o # Head(copy.orders) => book'[o] = book[o]
  BY <1>1, <1>2 DEF Types
<1> QED
  BY <1>1, <1>2, <1>3, <1>4

LEMMA CopyTradesDoes ==
    ASSUME Types, CopyTrades
    PROVE  /\ up /\ copy.stage = "find" /\ copy.orders = <<>>
           /\ copy'.stage = "flag" /\ copy'.orders = <<>> /\ copy'.trades = copy.trades
           /\ trades' = trades \cup copy.trades
           /\ UNCHANGED <<book, next, initialized, up, handling, toBackend, excused>>
<1>1. copy' = [copy EXCEPT !.stage = "flag"]
  BY DEF CopyTrades
<1> QED
  BY <1>1 DEF CopyTrades, Copying, Types

LEMMA SetInitializedDoes ==
    ASSUME SetInitialized
    PROVE  /\ up /\ copy.stage = "flag" /\ initialized' /\ copy' = NoCopy
           /\ copy'.stage = "off" /\ copy'.orders = <<>> /\ copy'.trades = {}
           /\ UNCHANGED <<book, trades, next, up, handling, toBackend, excused>>
  BY DEF SetInitialized, Copying, NoCopy

LEMMA HandleOrderDoes ==
    ASSUME Types, HandleOrder
    PROVE  \E n \in Orders :
              /\ up /\ handling.stage = "idle" /\ next \in 1..Len(log) /\ IsOrder(Current, n)
              /\ handling' = [stage |-> "store", k |-> 1]
              /\ \/ excused' = Excuse({n}, "refused") /\ UNCHANGED toBackend
                 \/ toBackend' = Append(toBackend, New(n)) /\ UNCHANGED excused
              /\ UNCHANGED <<book, trades, next, initialized, up, copy>>
<1>1. /\ up /\ handling.stage = "idle" /\ next \in 1..Len(log) /\ Current.type = "order"
      /\ handling' = [stage |-> "store", k |-> 1]
      /\ UNCHANGED <<book, trades, next, initialized, up, copy>>
  BY DEF HandleOrder, Arrives, Handling, Then
<1>2. PICK n \in Orders : Current.orders = <<n>> /\ Current.orders[1] = n
  BY <1>1, CurrentIs
<1>3. CASE n \in Refused
  <2>1. excused' = Excuse({n}, "refused") /\ UNCHANGED toBackend
    BY <1>2, <1>3 DEF HandleOrder
  <2> QED
    BY <1>1, <1>2, <2>1 DEF IsOrder
<1>4. CASE n \notin Refused
  <2>1. toBackend' = Append(toBackend, New(n)) /\ UNCHANGED excused
    BY <1>2, <1>4 DEF HandleOrder, New
  <2> QED
    BY <1>1, <1>2, <2>1 DEF IsOrder
<1> QED
  BY <1>3, <1>4

LEMMA HandleCancelDoes ==
    ASSUME Types, HandleCancel
    PROVE  \E n \in Orders :
              /\ up /\ handling.stage = "idle" /\ next \in 1..Len(log) /\ IsCancel(Current, n)
              /\ handling' = [stage |-> "store", k |-> 1]
              /\ toBackend' = Append(toBackend, Cancelling(n))
              /\ UNCHANGED <<book, trades, next, initialized, up, copy, excused>>
<1>1. /\ up /\ handling.stage = "idle" /\ next \in 1..Len(log) /\ Current.type = "cancel"
      /\ handling' = [stage |-> "store", k |-> 1]
      /\ toBackend' = Append(toBackend, Cancelling(Current.orders[1]))
      /\ UNCHANGED <<book, trades, next, initialized, up, copy, excused>>
  BY DEF HandleCancel, Arrives, Handling, Then, Cancelling
<1>2. PICK n \in Orders : Current.orders = <<n>> /\ Current.orders[1] = n
  BY <1>1, CurrentIs
<1> QED
  BY <1>1, <1>2 DEF IsCancel

LEMMA HandleTradeDoes ==
    ASSUME HandleTrade
    PROVE  /\ up /\ handling.stage = "idle" /\ next \in 1..Len(log) /\ Current.type = "trade"
           /\ handling' = [stage |-> "read", k |-> 1]
           /\ UNCHANGED <<book, trades, next, initialized, up, copy, toBackend, excused>>
  BY DEF HandleTrade, Arrives, Handling, Then

LEMMA NotInChainDoes ==
    ASSUME NotInChain
    PROVE  /\ up /\ handling.stage = "idle"
           /\ next \in 1..Len(log) /\ next \in untold /\ next' = next + 1
           /\ UNCHANGED <<book, trades, initialized, up, copy, handling, toBackend, excused>>
  BY DEF NotInChain, Handling

LEMMA RefuseTradeDoes ==
    ASSUME RefuseTrade
    PROVE  /\ up /\ handling.stage = "read"
           /\ handling' = [stage |-> "store", k |-> 1] /\ Failed
           /\ UNCHANGED <<book, trades, next, initialized, up, copy, toBackend>>
  BY DEF RefuseTrade, Handling, Fail, Then, Failed

\* The trade that the node reads the orders of
LEMMA TradeAtHand ==
    ASSUME Types, PlaceSound, handling.stage \in {"read", "wait", "insert"}
    PROVE  /\ next \in 1..Len(log) /\ Current \in Matched /\ Current.orders \in Pairs
           /\ Current.type = "trade"
           /\ ToSet(Current.orders) = {Current.orders[1], Current.orders[2]}
           /\ \A i \in 1..2 : Current.orders[i] \in Orders /\ IsTrade(Current, Current.orders[i])
           /\ \A o : IsTrade(Current, o) <=> o \in ToSet(Current.orders)
<1>1. next \in 1..Len(log) /\ Current.type = "trade"
  BY DEF PlaceSound
<1>2. Current \in Matched /\ Current.orders \in Pairs
  BY <1>1, CurrentIs
<1>3. /\ ToSet(Current.orders) = {Current.orders[1], Current.orders[2]}
      /\ Current.orders[1] \in Orders /\ Current.orders[2] \in Orders
  BY <1>2, PairSet
<1> QED
  BY <1>1, <1>2, <1>3 DEF IsTrade

LEMMA ReadOrAddOrderDoes ==
    ASSUME Types, PlaceSound, ReadOrAddOrder
    PROVE  \E n \in Orders :
              /\ up /\ handling.stage = "read" /\ handling.k \in 1..2
              /\ n = Current.orders[handling.k] /\ IsTrade(Current, n)
              /\ UNCHANGED <<book, trades, next, initialized, up, copy>>
              /\ \/ /\ book[n] # Absent
                    /\ handling' = [stage |-> "read", k |-> handling.k + 1]
                    /\ UNCHANGED <<toBackend, excused>>
                 \/ /\ book[n] = Absent
                    /\ handling' = [stage |-> "wait", k |-> handling.k]
                    /\ toBackend' = Append(toBackend, New(n))
                    /\ UNCHANGED excused
                 \/ /\ book[n] = Absent
                    /\ handling' = [stage |-> "store", k |-> 1]
                    /\ Failed
                    /\ UNCHANGED toBackend
<1> DEFINE n == Current.orders[handling.k]
<1>1. /\ up /\ handling.stage = "read" /\ handling.k <= 2
      /\ UNCHANGED <<book, trades, next, initialized, up, copy>>
  BY DEF ReadOrAddOrder, Handling
<1>2. handling.k \in 1..2
  BY <1>1 DEF Types
<1>3. n \in Orders /\ IsTrade(Current, n)
  BY <1>1, <1>2, TradeAtHand
<1>4. CASE book[n] # Absent
  <2>1. /\ handling' = [stage |-> "read", k |-> handling.k + 1]
        /\ UNCHANGED <<toBackend, excused>>
    BY <1>4 DEF ReadOrAddOrder, Then
  <2> QED
    BY <1>1, <1>2, <1>3, <1>4, <2>1
<1>5. CASE book[n] = Absent /\ n \notin Refused
  <2>1. /\ handling' = [stage |-> "wait", k |-> handling.k]
        /\ toBackend' = Append(toBackend, New(n)) /\ UNCHANGED excused
    BY <1>5 DEF ReadOrAddOrder, Then, New
  <2> QED
    BY <1>1, <1>2, <1>3, <1>5, <2>1
<1>6. CASE book[n] = Absent /\ n \in Refused
  <2>1. /\ handling' = [stage |-> "store", k |-> 1]
        /\ Failed /\ UNCHANGED toBackend
    BY <1>6 DEF ReadOrAddOrder, Fail, Failed, Then
  <2> QED
    BY <1>1, <1>2, <1>3, <1>6, <2>1
<1> QED
  BY <1>4, <1>5, <1>6

LEMMA ReadOrderWithRetriesDoes ==
    ASSUME Types, PlaceSound, ReadOrderWithRetries
    PROVE  \E n \in Orders :
              /\ up /\ handling.stage = "wait" /\ handling.k \in 1..2
              /\ n = Current.orders[handling.k] /\ IsTrade(Current, n)
              /\ UNCHANGED <<book, trades, next, initialized, up, copy, toBackend>>
              /\ \/ /\ book[n] # Absent
                    /\ handling' = [stage |-> "read", k |-> handling.k + 1]
                    /\ UNCHANGED excused
                 \/ /\ book[n] = Absent
                    /\ handling' = [stage |-> "store", k |-> 1]
                    /\ Failed
<1> DEFINE n == Current.orders[handling.k]
<1>1. /\ up /\ handling.stage = "wait"
      /\ UNCHANGED <<book, trades, next, initialized, up, copy, toBackend>>
  BY DEF ReadOrderWithRetries, Handling
<1>2. handling.k \in 1..2
  <2>1. handling.k \in 1..3 /\ handling.k <= 2
    BY <1>1 DEF Types, PlaceSound
  <2> QED
    BY <2>1
<1>3. n \in Orders /\ IsTrade(Current, n)
  BY <1>1, <1>2, TradeAtHand
<1>4. CASE book[n] # Absent
  <2>1. Then("read", handling.k + 1) /\ UNCHANGED excused
    BY <1>4 DEF ReadOrderWithRetries
  <2> QED
    BY <1>1, <1>2, <1>3, <1>4, <2>1 DEF Then
<1>5. CASE book[n] = Absent
  <2>1. Then("store", 1) /\ Failed
    BY <1>5 DEF ReadOrderWithRetries, Fail, Failed
  <2> QED
    BY <1>1, <1>2, <1>3, <1>5, <2>1 DEF Then
<1> QED
  BY <1>4, <1>5

LEMMA ExecuteReplicatedTradeDoes ==
    ASSUME Types, PlaceSound, ExecuteReplicatedTrade
    PROVE  /\ up /\ handling.stage = "read" /\ handling.k = 3
           /\ \A o \in Orders : IF IsTrade(Current, o) THEN book'[o] = Left(Current, o)
                                ELSE book'[o] = book[o]
           /\ \A o \in Orders : IsTrade(Current, o) /\ BeingCopied(o)
                                    => <<o, "copied over">> \in excused'
           /\ handling' = [stage |-> "insert", k |-> 1]
           /\ UNCHANGED <<trades, next, initialized, up, copy, toBackend>>
<1>1. /\ up /\ handling.stage = "read" /\ handling.k = 3
      /\ book' = [book EXCEPT ![Current.orders[1]] = Current.entries[1],
                              ![Current.orders[2]] = Current.entries[2]]
      /\ excused' = Excuse({o \in ToSet(Current.orders) : BeingCopied(o)}, "copied over")
      /\ UNCHANGED <<trades, next, initialized, up, copy, toBackend>>
  BY DEF ExecuteReplicatedTrade, Handling
<1>2. handling' = [stage |-> "insert", k |-> 1]
  BY DEF ExecuteReplicatedTrade, Then
<1>3. /\ Current.orders[1] \in Orders /\ Current.orders[2] \in Orders
      /\ Current.orders[1] # Current.orders[2] /\ Current.type = "trade"
      /\ \A o : IsTrade(Current, o) <=> o \in ToSet(Current.orders)
  BY <1>1, TradeAtHand, PairSet
<1>4. \A o \in Orders : IF IsTrade(Current, o) THEN book'[o] = Left(Current, o)
                        ELSE book'[o] = book[o]
  BY <1>1, <1>3 DEF Types, IsTrade, Left
<1>5. \A o \in Orders : IsTrade(Current, o) /\ BeingCopied(o) => <<o, "copied over">> \in excused'
  BY <1>1, <1>3 DEF Excuse
<1> QED
  BY <1>1, <1>2, <1>4, <1>5

LEMMA InsertTradesDoes ==
    ASSUME InsertTrades
    PROVE  /\ up /\ handling.stage = "insert"
           /\ handling' = [stage |-> "store", k |-> 1]
           /\ trades' = trades \cup {Current.orders}
           /\ UNCHANGED <<book, next, initialized, up, copy, toBackend, excused>>
  BY DEF InsertTrades, Handling, Then

LEMMA StoreDoes ==
    ASSUME Store
    PROVE  /\ up /\ handling.stage = "store"
           /\ handling' = [stage |-> "idle", k |-> 1] /\ next' = next + 1
           /\ UNCHANGED <<book, trades, initialized, up, copy, toBackend, excused>>
  BY DEF Store, Handling, Idle

LEMMA BackendInsertsDoes ==
    ASSUME Types, NEW n \in Orders, BackendInserts(n)
    PROVE  /\ toBackend # <<>> /\ Head(toBackend) = New(n) /\ toBackend' = Tail(toBackend)
           /\ book'[n] = IF book[n] = Absent THEN Open(n) ELSE book[n]
           /\ \A o \in Orders : o # n => book'[o] = book[o]
           /\ UNCHANGED <<trades, next, initialized, up, copy, handling, excused>>
  BY DEF BackendInserts, New, Types

LEMMA BackendCancelsDoes ==
    ASSUME Types, NEW n \in Orders, BackendCancels(n)
    PROVE  /\ toBackend # <<>> /\ Head(toBackend) = Cancelling(n) /\ toBackend' = Tail(toBackend)
           /\ ~Live(book'[n])
           /\ book'[n] = Absent <=> book[n] = Absent
           /\ \A o \in Orders : o # n => book'[o] = book[o]
           /\ book[n] = Absent /\ ToBeCopied(n) => <<n, "cancelled before">> \in excused'
           /\ BeingCopied(n) => <<n, "copied over">> \in excused'
           /\ UNCHANGED <<trades, next, initialized, up, copy, handling>>
<1>1. /\ toBackend # <<>> /\ Head(toBackend) = Cancelling(n) /\ toBackend' = Tail(toBackend)
      /\ book' = IF Live(book[n]) THEN [book EXCEPT ![n].status = "CANCELLED"] ELSE book
      /\ excused' = IF book[n] = Absent /\ ToBeCopied(n) THEN Excuse({n}, "cancelled before")
                    ELSE IF BeingCopied(n) THEN Excuse({n}, "copied over")
                    ELSE excused
      /\ UNCHANGED <<trades, next, initialized, up, copy, handling>>
  BY DEF BackendCancels, Cancelling
<1>2. /\ ~Live(book'[n])
      /\ book'[n] = Absent <=> book[n] = Absent
      /\ \A o \in Orders : o # n => book'[o] = book[o]
  <2>1. CASE Live(book[n])
    <3>1. book' = [book EXCEPT ![n].status = "CANCELLED"]
      BY <1>1, <2>1
    <3>2. book[n] # Absent
      BY <2>1, AbsentIs
    <3> QED
      BY <3>1, <3>2 DEF Types, Entries, Live, Absent, Entry
  <2>2. CASE ~Live(book[n])
    BY <1>1, <2>2
  <2> QED
    BY <2>1, <2>2
<1>3. /\ book[n] = Absent /\ ToBeCopied(n) => <<n, "cancelled before">> \in excused'
      /\ BeingCopied(n) => <<n, "copied over">> \in excused'
  BY <1>1 DEF Excuse, ToBeCopied
<1> QED
  BY <1>1, <1>2, <1>3
-----------------------------------------------------------------------------
(* Where the node is *)

\* A trade of the log is settled.
LEMMA AnnouncedSettled ==
    ASSUME Types, Types', PlaceSound, [Next]_vars
    PROVE  \A k \in 1..Len(log') : log'[k].type = "trade" => log'[k].orders \in settled'
<1>1. CASE \E fate : SourceAnnounces(fate)
  <2>1. log \in Seq(Announced) /\ pending \in Seq(Matched) /\ pending # <<>>
    BY <1>1 DEF Types, SourceAnnounces
  <2>2. Head(pending) \in Announced /\ Len(log) \in Nat
    BY <2>1, TailSet, TradeKind, LenProperties
  <2>3. log' = Append(log, Head(pending)) /\ settled' = settled \cup {Head(pending).orders}
    BY <1>1, AnnounceDoes DEF SourceAnnounces
  <2>4. /\ Len(log') = Len(log) + 1 /\ log'[Len(log) + 1] = Head(pending)
        /\ \A k \in 1..Len(log) : log'[k] = log[k]
    BY <2>1, <2>2, <2>3, AppendSet
  <2> QED
    BY <2>2, <2>3, <2>4 DEF PlaceSound
<1>2. ASSUME NEW o \in Orders, NEW e \in Announced, e.type # "trade",
             log' = Append(log, e), settled' = settled
      PROVE  \A k \in 1..Len(log') : log'[k].type = "trade" => log'[k].orders \in settled'
  <2>1. /\ Len(log') = Len(log) + 1 /\ log'[Len(log) + 1] = e
        /\ \A k \in 1..Len(log) : log'[k] = log[k]
        /\ Len(log) \in Nat
    BY <1>2, AppendSet, LenProperties DEF Types
  <2> QED
    BY <1>2, <2>1 DEF PlaceSound
<1>3. CASE \E o \in Orders, fate \in {"done", "untold", "unheard"} :
              SourceOrder(o, fate) \/ SourceCancel(o, fate)
  <2>0. PICK o \in Orders, fate \in {"done", "untold", "unheard"} :
           SourceOrder(o, fate) \/ SourceCancel(o, fate)
    BY <1>3
  <2>1. /\ settled' = settled
        /\ \/ log' = Append(log, Event("order", <<o>>, <<>>))
           \/ log' = Append(log, Event("cancel", <<o>>, <<>>))
    BY <2>0, AnnounceDoes DEF SourceOrder, SourceCancel
  <2>2. Event("order", <<o>>, <<>>).type # "trade" /\ Event("cancel", <<o>>, <<>>).type # "trade"
    BY DEF Event
  <2> QED
    BY <1>2, <2>1, <2>2, OrderEvents
<1>4. CASE UNCHANGED <<log, settled>>
  BY <1>4 DEF PlaceSound
<1> QED
  BY <1>1, <1>3, <1>4, PeerRests DEF Next, Peer, SourceMatch, peer

LEMMA PlaceStep ==
    ASSUME Types, Types', PlaceSound, [Next]_vars
    PROVE  PlaceSound'
<1>l. /\ Len(log) \in Nat /\ Len(log') \in Nat /\ Len(log) <= Len(log')
      /\ \A k \in 1..Len(log) : log'[k] = log[k]
      /\ settled \subseteq settled'
  BY LogGrows
<1>t. \A k \in 1..Len(log') : log'[k].type = "trade" => log'[k].orders \in settled'
  BY AnnouncedSettled
<1>1. CASE Peer
  <2>1. UNCHANGED <<book, trades, next, initialized, up, copy, handling, toBackend>>
    BY <1>1, NodeRests
  <2>2. next \in 1..Len(log) => next \in 1..Len(log') /\ Current' = Current
    BY <1>l, <2>1 DEF Current
  <2>3. copy'.trades \subseteq settled'
    BY <1>l, <2>1 DEF PlaceSound
  <2> QED
    BY <1>t, <2>1, <2>2, <2>3 DEF PlaceSound
<1>2. CASE Start
  <2>0. next' > 0
    BY <1>2, <1>l DEF Start, Types
  <2>1. /\ log' = log /\ next' > 0 /\ up' /\ handling' = handling /\ handling = Idle
        /\ initialized' = initialized
        /\ copy' = IF initialized THEN NoCopy ELSE [NoCopy EXCEPT !.stage = "ask"]
    BY <1>2, <2>0 DEF Start, PlaceSound, peer
  <2>2. copy'.orders = <<>> /\ copy'.trades = {} /\ copy'.stage \in {"off", "ask"}
        /\ (copy'.stage # "off" => ~initialized)
    BY <2>1 DEF NoCopy
  <2> QED
    BY <1>t, <2>1, <2>2 DEF PlaceSound, Idle
<1>3. CASE Crash
  <2>1. /\ ~up' /\ copy' = NoCopy /\ handling' = Idle /\ toBackend' = <<>>
        /\ next' = next /\ up
    BY <1>3 DEF Crash
  <2> QED
    BY <1>t, <2>1 DEF PlaceSound, Idle, NoCopy
<1>4. CASE Copy
  <2>1. /\ up /\ up' = up /\ handling' = handling /\ next' = next /\ log' = log
        /\ settled' = settled /\ next # 0
    BY <1>4 DEF Copy, InitFromPeers, ReceiveInit, InitFails, CopyOrder, UpsertOrder, CopyTrades,
                SetInitialized, Copying, peer, PlaceSound
  <2>2. /\ copy'.stage # "off" => up' /\ ~initialized'
        /\ copy'.stage \in {"off", "ask", "flag"} => copy'.orders = <<>>
        /\ copy'.stage = "upsert" => copy'.orders # <<>>
        /\ copy'.trades \subseteq settled'
    <3>0. initialized' = initialized \/ SetInitialized
      BY <1>4 DEF Copy, InitFromPeers, ReceiveInit, InitFails, CopyOrder, UpsertOrder, CopyTrades
    <3>1. CASE InitFromPeers
      <4>1. /\ copy.stage = "ask" /\ copy'.stage = "answer" /\ copy'.trades = copy.trades
            /\ initialized' = initialized
        BY <3>1, InitFromPeersDoes
      <4> QED
        BY <2>1, <4>1 DEF PlaceSound
    <3>2. CASE ReceiveInit
      <4>1. /\ copy'.stage = "find" /\ copy'.trades \subseteq settled /\ copy.stage = "answer"
            /\ initialized' = initialized
        BY <3>2, ReceiveInitDoes
      <4> QED
        BY <2>1, <4>1 DEF PlaceSound
    <3>3. CASE InitFails
      BY <3>3, InitFailsDoes
    <3>4. CASE CopyOrder
      BY <2>1, <3>0, <3>4, CopyOrderDoes DEF PlaceSound
    <3>5. CASE UpsertOrder
      BY <2>1, <3>0, <3>5, UpsertOrderDoes DEF PlaceSound
    <3>6. CASE CopyTrades
      BY <2>1, <3>0, <3>6, CopyTradesDoes DEF PlaceSound
    <3>7. CASE SetInitialized
      BY <3>7, SetInitializedDoes
    <3> QED
      BY <1>4, <3>1, <3>2, <3>3, <3>4, <3>5, <3>6, <3>7 DEF Copy
  <2> QED
    BY <1>t, <2>1, <2>2 DEF PlaceSound, Current
<1>5. CASE HandleEvent
  <2>1. /\ up /\ up' = up /\ copy' = copy /\ log' = log /\ initialized' = initialized
        /\ settled' = settled
    BY <1>5 DEF HandleEvent, NotInChain, HandleOrder, HandleCancel, HandleTrade, ReadOrAddOrder,
                ReadOrderWithRetries, RefuseTrade, ExecuteReplicatedTrade, InsertTrades, Store,
                Arrives, Handling, peer
  <2>2. CASE Store
    BY <1>t, <2>1, <2>2, <1>l DEF Store, Handling, Idle, PlaceSound, Types
  <2>5. CASE NotInChain
    BY <1>t, <2>1, <2>5, <1>l DEF NotInChain, Handling, PlaceSound, Types
  <2>3. ASSUME HandleOrder \/ HandleCancel \/ HandleTrade \/ ReadOrAddOrder
                  \/ ReadOrderWithRetries \/ RefuseTrade \/ ExecuteReplicatedTrade
                  \/ InsertTrades
        PROVE  /\ next' = next /\ next \in 1..Len(log)
               /\ handling'.stage \in {"read", "wait", "insert"} => Current.type = "trade"
               /\ handling'.stage = "wait" => handling'.k <= 2
    <3>1. CASE HandleOrder \/ HandleCancel
      BY <3>1 DEF HandleOrder, HandleCancel, Arrives, Then
    <3>2. CASE HandleTrade
      BY <3>2 DEF HandleTrade, Arrives, Then
    <3>3. CASE ReadOrAddOrder
      BY <3>3 DEF ReadOrAddOrder, Handling, Fail, Then, PlaceSound
    <3>7. CASE RefuseTrade
      BY <3>7, RefuseTradeDoes DEF PlaceSound
    <3>4. CASE ReadOrderWithRetries
      <4>1. /\ handling.stage = "wait" /\ next' = next
            /\ \/ handling' = [stage |-> "read", k |-> handling.k + 1]
               \/ handling' = [stage |-> "store", k |-> 1]
        BY <3>4, ReadOrderWithRetriesDoes
      <4> QED
        BY <4>1 DEF PlaceSound
    <3>5. CASE ExecuteReplicatedTrade
      BY <3>5 DEF ExecuteReplicatedTrade, Handling, Then, PlaceSound
    <3>6. CASE InsertTrades
      BY <3>6 DEF InsertTrades, Handling, Then, PlaceSound
    <3> QED
      BY <2>3, <3>1, <3>2, <3>3, <3>4, <3>5, <3>6, <3>7
  <2>4. CASE ~Store /\ ~NotInChain
    <3>1. /\ next' = next /\ next \in 1..Len(log)
          /\ handling'.stage \in {"read", "wait", "insert"} => Current.type = "trade"
          /\ handling'.stage = "wait" => handling'.k <= 2
      BY <1>5, <2>3, <2>4 DEF HandleEvent
    <3> QED
      BY <1>t, <2>1, <3>1 DEF PlaceSound, Current
  <2> QED
    BY <2>2, <2>4, <2>5
<1>6. CASE Backend
  <2>1. /\ toBackend # <<>> /\ up' = up /\ copy' = copy /\ log' = log
        /\ initialized' = initialized /\ settled' = settled /\ next' = next /\ handling' = handling
    BY <1>6 DEF Backend, BackendInserts, BackendCancels, peer
  <2> QED
    BY <1>t, <2>1 DEF PlaceSound, Current
<1>7. CASE UNCHANGED vars
  BY <1>t, <1>7 DEF vars, peer, PlaceSound, Current
<1> QED
  BY <1>1, <1>2, <1>3, <1>4, <1>5, <1>6, <1>7 DEF Next

\* The node never forgets that it has an order.
LEMMA BookStays ==
    ASSUME Types, PlaceSound, [Next]_vars, NEW o \in Orders, book[o] # Absent
    PROVE  book'[o] # Absent
<1>1. CASE Peer
  BY <1>1, NodeRests
<1>2. CASE Start \/ Crash
  BY <1>2 DEF Start, Crash
<1>3. CASE Copy
  <2>1. CASE UpsertOrder
    <3>1. Head(copy.orders) \in Orders
      BY <2>1, TailSet DEF UpsertOrder, Copying, PlaceSound, Types
    <3> QED
      BY <2>1, <3>1, SizeNat DEF UpsertOrder, Types
  <2>2. CASE ~UpsertOrder
    BY <1>3, <2>2 DEF Copy, InitFromPeers, ReceiveInit, InitFails, CopyOrder, CopyTrades,
                SetInitialized
  <2> QED
    BY <2>1, <2>2
<1>4. CASE HandleEvent
  <2>1. CASE ExecuteReplicatedTrade
    <3>1. next \in 1..Len(log) /\ Current.type = "trade"
      BY <2>1 DEF ExecuteReplicatedTrade, Handling, PlaceSound
    <3>2. Current.entries[1] # Absent /\ Current.entries[2] # Absent
      BY <3>1, CurrentIs, TradeKind, RemaindersAre
    <3>3. book' = [book EXCEPT ![Current.orders[1]] = Current.entries[1],
                               ![Current.orders[2]] = Current.entries[2]]
      BY <2>1 DEF ExecuteReplicatedTrade
    <3> QED
      BY <3>2, <3>3 DEF Types
  <2>2. CASE ~ExecuteReplicatedTrade
    BY <1>4, <2>2 DEF HandleEvent, NotInChain, HandleOrder, HandleCancel, HandleTrade,
                ReadOrAddOrder, ReadOrderWithRetries, RefuseTrade, InsertTrades, Store
  <2> QED
    BY <2>1, <2>2
<1>5. CASE Backend
  <2>1. ASSUME NEW n \in Orders, BackendInserts(n) PROVE book'[o] # Absent
    BY <2>1 DEF BackendInserts, Types
  <2>2. ASSUME NEW n \in Orders, BackendCancels(n) PROVE book'[o] # Absent
    BY <2>2, AbsentIs DEF BackendCancels, Types, Entries, Absent, Entry
  <2> QED
    BY <1>5, <2>1, <2>2 DEF Backend
<1>6. CASE UNCHANGED vars
  BY <1>6 DEF vars
<1> QED
  BY <1>1, <1>2, <1>3, <1>4, <1>5, <1>6 DEF Next

LEMMA OrdersStep ==
    ASSUME Types, Types', PlaceSound, PlaceSound', OrdersSound, [Next]_vars
    PROVE  OrdersSound'
<1>l. /\ Len(log) \in Nat /\ Len(log') \in Nat /\ Len(log) <= Len(log')
      /\ \A k \in 1..Len(log) : log'[k] = log[k]
  BY LogGrows
<1>b. toBackend \in Seq(Messages)
  BY DEF Types
<1>c. handling.stage \in {"read", "wait"} =>
         \A i \in 1..2 : Current.orders[i] \in Orders
  BY CurrentIs, PairSet DEF PlaceSound
\* As long as the node stays with the event, what it has found is there.
<1>1. ASSUME handling.stage \in {"read", "wait"}, next' = next
      PROVE  Current' = Current /\ next \in 1..Len(log)
  BY <1>1, <1>l DEF Current, PlaceSound
<1>2. ASSUME handling' = handling, next' = next,
             \A o \in Orders : New(o) \in ToSet(toBackend) =>
                 (New(o) \in ToSet(toBackend') \/ book'[o] # Absent)
      PROVE  OrdersSound'
  <2>1. handling.stage \in {"read", "wait"} => Current' = Current
    BY <1>1, <1>2
  <2>2. ASSUME handling.stage \in {"read", "wait"}
        PROVE  \A i \in 1..(handling.k - 1) : book'[Current.orders[i]] # Absent
    <3>1. handling.k \in 1..3
      BY DEF Types
    <3>2. \A i \in 1..(handling.k - 1) :
             /\ i \in 1..2 /\ Current.orders[i] \in Orders /\ book[Current.orders[i]] # Absent
      BY <1>c, <2>2, <3>1 DEF OrdersSound
    <3> QED
      BY <3>2, BookStays
  <2>3. ASSUME handling.stage = "wait"
        PROVE  LET o == Current.orders[handling.k]
               IN  book'[o] # Absent \/ New(o) \in ToSet(toBackend')
    <3>1. handling.k \in 1..2
      BY <2>3 DEF Types, PlaceSound
    <3>2. Current.orders[handling.k] \in Orders
      BY <1>c, <2>3, <3>1
    <3> QED
      BY <1>2, <2>3, <3>2, BookStays DEF OrdersSound
  <2> QED
    BY <1>2, <2>1, <2>2, <2>3 DEF OrdersSound
<1>3. ASSUME handling'.stage \in {"idle", "insert", "store"} PROVE OrdersSound'
  BY <1>3 DEF OrdersSound
<1>4. CASE Peer \/ UNCHANGED vars
  <2>1. UNCHANGED <<book, toBackend, handling, next>>
    BY <1>4, NodeRests DEF vars
  <2> QED
    BY <1>2, <2>1
<1>5. CASE Start \/ Crash
  <2>1. handling' = Idle
    BY <1>5 DEF Start, Crash, PlaceSound
  <2> QED
    BY <1>3, <2>1 DEF Idle
<1>6. CASE Copy
  <2>1. handling' = handling /\ next' = next
    BY <1>6 DEF Copy, InitFromPeers, ReceiveInit, InitFails, CopyOrder, UpsertOrder, CopyTrades,
                SetInitialized
  <2>2. toBackend' = toBackend \/ \E n \in Orders : toBackend' = Append(toBackend, New(n))
    <3>1. CASE CopyOrder
      BY <3>1, CopyOrderDoes
    <3>2. CASE ~CopyOrder
      BY <1>6, <3>2 DEF Copy, InitFromPeers, ReceiveInit, InitFails, UpsertOrder, CopyTrades,
                        SetInitialized
    <3> QED
      BY <3>1, <3>2
  <2>3. ToSet(toBackend) \subseteq ToSet(toBackend')
    <3>1. \A n \in Orders : ToSet(toBackend) \subseteq ToSet(Append(toBackend, New(n)))
      BY <1>b, MessagesAre, AppendSet
    <3> QED
      BY <2>2, <3>1
  <2> QED
    BY <1>2, <2>1, <2>3
<1>7. CASE HandleEvent
  <2>1. CASE HandleTrade
    <3>1. handling' = [stage |-> "read", k |-> 1]
      BY <2>1 DEF HandleTrade, Then
    <3>2. \A i \in 1..(1 - 1) : FALSE
      OBVIOUS
    <3> QED
      BY <3>1, <3>2 DEF OrdersSound
  <2>2. CASE ReadOrAddOrder \/ ReadOrderWithRetries
    <3>1. PICK n \in Orders :
             /\ handling.stage \in {"read", "wait"} /\ handling.k \in 1..2
             /\ n = Current.orders[handling.k]
             /\ next' = next /\ book' = book
             /\ \/ /\ book[n] # Absent
                   /\ handling' = [stage |-> "read", k |-> handling.k + 1]
                \/ /\ handling' = [stage |-> "wait", k |-> handling.k]
                   /\ toBackend' = Append(toBackend, New(n))
                \/ handling' = [stage |-> "store", k |-> 1]
      BY <2>2, ReadOrAddOrderDoes, ReadOrderWithRetriesDoes
    <3>2. Current' = Current
      BY <1>1, <3>1
    <3>3. CASE book[n] # Absent /\ handling' = [stage |-> "read", k |-> handling.k + 1]
      <4>1. ASSUME NEW i \in 1..(handling.k + 1 - 1) PROVE book[Current.orders[i]] # Absent
        <5>1. i = handling.k \/ i \in 1..(handling.k - 1)
          BY <3>1
        <5> QED
          BY <3>1, <3>3, <5>1 DEF OrdersSound
      <4> QED
        BY <3>1, <3>2, <3>3, <4>1 DEF OrdersSound
    <3>4. CASE /\ handling' = [stage |-> "wait", k |-> handling.k]
               /\ toBackend' = Append(toBackend, New(n))
      <4>1. New(n) \in ToSet(toBackend')
        BY <1>b, <3>4, MessagesAre, AppendSet
      <4>2. \A i \in 1..(handling.k - 1) : book[Current.orders[i]] # Absent
        BY <3>1 DEF OrdersSound
      <4> QED
        BY <3>1, <3>2, <3>4, <4>1, <4>2 DEF OrdersSound
    <3>5. CASE handling' = [stage |-> "store", k |-> 1]
      BY <1>3, <3>5
    <3> QED
      BY <3>1, <3>3, <3>4, <3>5
  <2>3. CASE \/ HandleOrder \/ HandleCancel \/ RefuseTrade \/ ExecuteReplicatedTrade
             \/ InsertTrades \/ Store \/ NotInChain
    <3>6. CASE NotInChain
      BY <1>3, <3>6, NotInChainDoes
    <3>7. CASE RefuseTrade
      BY <1>3, <3>7, RefuseTradeDoes
    <3>1. CASE HandleOrder
      <4>1. handling' = [stage |-> "store", k |-> 1]
        BY <3>1, HandleOrderDoes
      <4> QED
        BY <1>3, <4>1
    <3>2. CASE HandleCancel
      BY <1>3, <3>2, HandleCancelDoes
    <3>3. CASE ExecuteReplicatedTrade
      <4>1. handling' = [stage |-> "insert", k |-> 1]
        BY <3>3, ExecuteReplicatedTradeDoes
      <4> QED
        BY <1>3, <4>1
    <3>4. CASE InsertTrades
      BY <1>3, <3>4, InsertTradesDoes
    <3>5. CASE Store
      BY <1>3, <3>5, StoreDoes
    <3> QED
      BY <2>3, <3>1, <3>2, <3>3, <3>4, <3>5, <3>6, <3>7
  <2> QED
    BY <1>7, <2>1, <2>2, <2>3 DEF HandleEvent
<1>8. CASE Backend
  <2>1. PICK n \in Orders : BackendInserts(n) \/ BackendCancels(n)
    BY <1>8 DEF Backend
  <2>2. /\ handling' = handling /\ next' = next
        /\ toBackend # <<>> /\ toBackend' = Tail(toBackend)
    BY <2>1 DEF BackendInserts, BackendCancels
  <2>3. ASSUME NEW o \in Orders, New(o) = Head(toBackend) PROVE book'[o] # Absent
    <3>1. n = o /\ BackendInserts(n)
      <4>1. ~BackendCancels(n)
        BY <2>3, BackendCancelsDoes, MessagesAre
      <4>2. BackendInserts(n) => n = o
        BY <2>3, BackendInsertsDoes, MessagesAre
      <4> QED
        BY <2>1, <4>1, <4>2
    <3> QED
      BY <3>1, BackendInsertsDoes, SizeNat
  <2>4. \A o \in Orders : New(o) \in ToSet(toBackend) =>
           New(o) \in ToSet(toBackend') \/ book'[o] # Absent
    BY <1>b, <2>2, <2>3, TailSet
  <2> QED
    BY <1>2, <2>2, <2>4
<1> QED
  BY <1>4, <1>5, <1>6, <1>7, <1>8 DEF Next
-----------------------------------------------------------------------------
(* What the node knows *)

\* The node has yet to do what the event says, and the event is about the order.
AtHand(o) ==
    /\ handling.stage \in {"idle", "read", "wait"} /\ next \in 1..Len(log)
    /\ IsOrder(Current, o) \/ News(Current, o)

\* What a step may send to the backend
LEMMA QueueChanges ==
    ASSUME Types, PlaceSound, [Next]_vars
    PROVE  \/ toBackend' = toBackend
           \/ toBackend' = <<>>
           \/ toBackend # <<>> /\ toBackend' = Tail(toBackend)
           \/ \E n \in Orders : /\ toBackend' = Append(toBackend, New(n))
                                /\ n \in ToSet(copy.orders) \/ AtHand(n)
           \/ \E n \in Orders : /\ toBackend' = Append(toBackend, Cancelling(n))
                                /\ AtHand(n) /\ IsCancel(Current, n)
<1>1. CASE Peer \/ Start \/ Crash \/ UNCHANGED vars
  BY <1>1, NodeRests DEF Start, Crash, vars
<1>2. CASE CopyOrder
  <2>1. copy.orders # <<>> => Head(copy.orders) \in ToSet(copy.orders)
    BY TailSet DEF Types
  <2> QED
    BY <1>2, <2>1, CopyOrderDoes
<1>3. CASE Copy /\ ~CopyOrder
  BY <1>3 DEF Copy, InitFromPeers, ReceiveInit, InitFails, UpsertOrder, CopyTrades,
              SetInitialized
<1>4. CASE HandleOrder
  BY <1>4, HandleOrderDoes DEF AtHand
<1>5. CASE HandleCancel
  BY <1>5, HandleCancelDoes DEF AtHand, News
<1>6. CASE ReadOrAddOrder
  <2>1. next \in 1..Len(log)
    BY <1>6 DEF ReadOrAddOrder, Handling, PlaceSound
  <2> QED
    BY <1>6, <2>1, ReadOrAddOrderDoes DEF AtHand, News
<1>7. CASE \/ HandleTrade \/ ReadOrderWithRetries \/ RefuseTrade \/ ExecuteReplicatedTrade
           \/ InsertTrades \/ Store \/ NotInChain
  BY <1>7 DEF NotInChain, HandleTrade, ReadOrderWithRetries, RefuseTrade, ExecuteReplicatedTrade,
              InsertTrades, Store
<1>8. CASE Backend
  BY <1>8 DEF Backend, BackendInserts, BackendCancels
<1> QED
  BY <1>1, <1>2, <1>3, <1>4, <1>5, <1>6, <1>7, <1>8 DEF Next, HandleEvent

LEMMA CopyChanges ==
    ASSUME Types, PlaceSound, [Next]_vars
    PROVE  \/ ToSet(copy'.orders) \subseteq ToSet(copy.orders)
           \/ ToSet(copy'.orders) = {o \in Orders : source[o].status = "OPEN"}
<1>1. copy.orders \in Seq(Orders)
  BY DEF Types
<1>2. copy'.orders = <<>> => ToSet(copy'.orders) = {}
  BY NoneIn
<1>3. CASE Peer \/ HandleEvent \/ Backend \/ UNCHANGED vars
  <2>1. copy' = copy
    BY <1>3, NodeRests DEF vars, HandleEvent, NotInChain, HandleOrder, HandleCancel, HandleTrade,
            ReadOrAddOrder, ReadOrderWithRetries, RefuseTrade, ExecuteReplicatedTrade, InsertTrades,
            Store, Backend, BackendInserts, BackendCancels
  <2> QED
    BY <2>1
<1>4. CASE Start \/ Crash
  <2>1. copy'.orders = <<>>
    BY <1>4 DEF Start, Crash, NoCopy
  <2> QED
    BY <1>2, <2>1
<1>5. CASE InitFromPeers
  BY <1>5, InitFromPeersDoes
<1>6. CASE ReceiveInit
  BY <1>6, ReceiveInitDoes
<1>7. CASE InitFails
  BY <1>2, <1>7, InitFailsDoes
<1>8. CASE CopyOrder
  <2>1. copy'.orders \in {copy.orders, <<>>}
           \/ (copy.orders # <<>> /\ copy'.orders = Tail(copy.orders))
    BY <1>8, CopyOrderDoes
  <2> QED
    BY <1>1, <1>2, <2>1, TailSet
<1>9. CASE UpsertOrder
  BY <1>1, <1>9, UpsertOrderDoes, TailSet
<1>10. CASE CopyTrades
  BY <1>2, <1>10, CopyTradesDoes
<1>11. CASE SetInitialized
  BY <1>2, <1>11, SetInitializedDoes
<1> QED
  BY <1>3, <1>4, <1>5, <1>6, <1>7, <1>8, <1>9, <1>10, <1>11 DEF Next, Copy

\* What a step may do to an order of the node
LEMMA BookChanges ==
    ASSUME Types, PlaceSound, [Next]_vars, NEW o \in Orders
    PROVE  \/ book'[o] = book[o]
           \/ /\ book'[o] = Open(o)
              /\ \/ book[o] = Absent /\ New(o) \in ToSet(toBackend)
                 \/ BeingCopied(o) /\ o \in ToSet(copy.orders)
           \/ /\ Cancelling(o) \in ToSet(toBackend)
              /\ book'[o] = Absent <=> book[o] = Absent
           \/ AtHand(o) /\ IsTrade(Current, o)
<1>1. CASE Peer \/ Start \/ Crash \/ UNCHANGED vars
  BY <1>1, NodeRests DEF Start, Crash, vars
<1>2. CASE UpsertOrder
  <2>1. copy.orders # <<>> => Head(copy.orders) \in ToSet(copy.orders)
    BY TailSet DEF Types
  <2> QED
    BY <1>2, <2>1, UpsertOrderDoes DEF BeingCopied
<1>3. CASE Copy /\ ~UpsertOrder
  BY <1>3 DEF Copy, InitFromPeers, ReceiveInit, InitFails, CopyOrder, CopyTrades,
              SetInitialized
<1>4. CASE ExecuteReplicatedTrade
  <2>1. next \in 1..Len(log)
    BY <1>4 DEF ExecuteReplicatedTrade, Handling, PlaceSound
  <2> QED
    BY <1>4, <2>1, ExecuteReplicatedTradeDoes DEF AtHand, News
<1>5. CASE HandleEvent /\ ~ExecuteReplicatedTrade
  BY <1>5 DEF HandleEvent, NotInChain, HandleOrder, HandleCancel, HandleTrade,
              ReadOrAddOrder, ReadOrderWithRetries, RefuseTrade, InsertTrades, Store
<1>6. CASE Backend
  <2>1. toBackend # <<>> => Head(toBackend) \in ToSet(toBackend)
    BY TailSet DEF Types
  <2>2. ASSUME NEW n \in Orders, BackendInserts(n)
        PROVE  \/ book'[o] = book[o]
               \/ book'[o] = Open(o) /\ book[o] = Absent /\ New(o) \in ToSet(toBackend)
    BY <2>1, <2>2, BackendInsertsDoes
  <2>3. ASSUME NEW n \in Orders, BackendCancels(n)
        PROVE  \/ book'[o] = book[o]
               \/ /\ Cancelling(o) \in ToSet(toBackend)
                  /\ book'[o] = Absent <=> book[o] = Absent
    BY <2>1, <2>3, BackendCancelsDoes
  <2> QED
    BY <1>6, <2>2, <2>3 DEF Backend
<1> QED
  BY <1>1, <1>2, <1>3, <1>4, <1>5, <1>6 DEF Next

LEMMA ForgivenStays ==
    ASSUME Types, [Next]_vars, NEW o, Forgiven(o)
    PROVE  Forgiven(o)'
  BY LogGrows DEF Forgiven

LEMMA KnownStep ==
    ASSUME Types, Types', PlaceSound, SourceSound, SourceSound', KnownSound, [Next]_vars
    PROVE  KnownSound'
<1>l. /\ Len(log) \in Nat /\ Len(log') \in Nat /\ Len(log) <= Len(log')
      /\ \A k \in 1..Len(log) : log'[k] = log[k]
  BY LogGrows
<1>b. toBackend \in Seq(Messages)
  BY DEF Types
<1>c. next \in 1..Len(log) => Current = log[next]
  BY DEF Current
<1>f. \A o : Forgiven(o) => Forgiven(o)'
  BY ForgivenStays
<1>1. ASSUME NEW o \in Orders, source[o] # Absent, ~Forgiven(o)' PROVE source'[o] # Absent
  <2>1. PICK k \in 1..Len(log) : IsOrder(log[k], o)
    BY <1>f, <1>1 DEF SourceSound, Sourced, Recorded
  <2>2. k \in 1..Len(log') /\ IsOrder(log'[k], o)
    BY <1>l, <2>1
  <2> QED
    BY <1>1, <2>2 DEF SourceSound, Sourced, Recorded
<1>2. ASSUME NEW o \in Orders, AtHand(o), ~Forgiven(o) PROVE source[o] # Absent
  BY <1>2, <1>c DEF SourceSound, Sourced, Recorded, AtHand
<1>q. ASSUME NEW o \in Orders
      PROVE  /\ New(o) \in ToSet(toBackend') =>
                    \/ New(o) \in ToSet(toBackend) \/ o \in ToSet(copy.orders)
                    \/ AtHand(o)
             /\ Cancelling(o) \in ToSet(toBackend') =>
                    \/ Cancelling(o) \in ToSet(toBackend)
                    \/ AtHand(o) /\ IsCancel(Current, o)
  <2>1. toBackend # <<>> => ToSet(Tail(toBackend)) \subseteq ToSet(toBackend)
    BY <1>b, TailSet
  <2>2. \A n \in Orders : /\ ToSet(Append(toBackend, New(n))) = ToSet(toBackend) \cup {New(n)}
                          /\ ToSet(Append(toBackend, Cancelling(n)))
                                 = ToSet(toBackend) \cup {Cancelling(n)}
    BY <1>b, MessagesAre, AppendSet
  <2>3. CASE toBackend' \in {toBackend, <<>>} \/ (toBackend # <<>> /\ toBackend' = Tail(toBackend))
    BY <2>1, <2>3, NoneIn
  <2>4. ASSUME NEW n \in Orders, toBackend' = Append(toBackend, New(n)),
               n \in ToSet(copy.orders) \/ AtHand(n)
        PROVE  /\ New(o) \in ToSet(toBackend') => New(o) \in ToSet(toBackend) \/ o = n
               /\ Cancelling(o) \in ToSet(toBackend') => Cancelling(o) \in ToSet(toBackend)
    BY <2>2, <2>4, MessagesAre
  <2>5. ASSUME NEW n \in Orders, toBackend' = Append(toBackend, Cancelling(n))
        PROVE  /\ New(o) \in ToSet(toBackend') => New(o) \in ToSet(toBackend)
               /\ Cancelling(o) \in ToSet(toBackend') =>
                     Cancelling(o) \in ToSet(toBackend) \/ o = n
    BY <2>2, <2>5, MessagesAre
  <2> QED
    BY <2>3, <2>4, <2>5, QueueChanges
<1>3. ASSUME NEW o \in Orders, \/ book'[o] # Absent \/ New(o) \in ToSet(toBackend')
                              \/ o \in ToSet(copy'.orders),
             ~Forgiven(o)'
      PROVE  source'[o] # Absent
  <2>1. \/ book[o] # Absent \/ New(o) \in ToSet(toBackend) \/ o \in ToSet(copy.orders)
        \/ AtHand(o)
        \/ source[o].status = "OPEN"
    <3>1. CASE book'[o] # Absent
      BY <3>1, BookChanges
    <3>2. CASE New(o) \in ToSet(toBackend')
      BY <1>q, <3>2
    <3>3. CASE o \in ToSet(copy'.orders)
      BY <3>3, CopyChanges
    <3> QED
      BY <1>3, <3>1, <3>2, <3>3
  <2>2. source[o].status = "OPEN" => source[o] # Absent
    BY DEF Absent, Entry
  <2>3. source[o] # Absent
    BY <1>f, <1>2, <1>3, <2>1, <2>2 DEF KnownSound
  <2> QED
    BY <1>1, <1>3, <2>3
<1>4. ASSUME NEW o \in Orders, \A k \in 1..Len(log') : ~News(log'[k], o)
      PROVE  book'[o] \in {Absent, Open(o)}
  <2>1. \A k \in 1..Len(log) : ~News(log[k], o)
    BY <1>l, <1>4
  <2>2. ~(AtHand(o) /\ IsTrade(Current, o))
    BY <1>c, <2>1 DEF News, AtHand
  <2>3. Cancelling(o) \notin ToSet(toBackend)
    BY <2>1 DEF KnownSound, News
  <2> QED
    BY <2>1, <2>2, <2>3, BookChanges DEF KnownSound
<1>5. ASSUME NEW o \in Orders, Cancelling(o) \in ToSet(toBackend')
      PROVE  \E k \in 1..Len(log') : IsCancel(log'[k], o)
  <2>1. PICK k \in 1..Len(log) : IsCancel(log[k], o)
    BY <1>5, <1>q, <1>c DEF KnownSound, AtHand
  <2> QED
    BY <1>l, <2>1
<1> QED
  BY <1>3, <1>4, <1>5 DEF KnownSound

-----------------------------------------------------------------------------
(* The trades *)

LEMMA TradesStep ==
    ASSUME Types, Types', PlaceSound, PlaceSound', UntoldSound, TradesSound, [Next]_vars
    PROVE  TradesSound'
<1>l. /\ Len(log) \in Nat /\ Len(log') \in Nat /\ Len(log) <= Len(log')
      /\ \A k \in 1..Len(log) : log'[k] = log[k]
      /\ excused \subseteq excused'
      /\ next \in 0..(Len(log) + 1)
  BY LogGrows DEF Types
<1> DEFINE Coming(t, k) == /\ log[k].type = "trade" /\ log[k].orders = t
                           /\ k >= next /\ (k = next => handling.stage # "store")
           Copied(t) == copy.stage \in {"find", "upsert"} /\ t \in copy.trades
<1>s. TradesSound <=> \A t \in settled : \/ t \in trades \/ Lost(t) \/ ~Answered \/ Copied(t)
                                         \/ \E k \in 1..Len(log) : Coming(t, k)
  BY DEF TradesSound
<1>z. TradesSound' <=> \A t \in settled' :
          \/ t \in trades' \/ Lost(t)' \/ ~Answered' \/ Copied(t)'
          \/ \E k \in 1..Len(log') : Coming(t, k)'
  BY DEF TradesSound
<1>e. \A t : Lost(t) => Lost(t)'
  BY <1>l DEF Lost
<1>r. ASSUME settled' = settled, trades \subseteq trades', log' = log,
             \A t \in settled, k \in 1..Len(log) :
                 Coming(t, k) => Coming(t, k)' \/ t \in trades' \/ Lost(t)',
             ~Answered => ~Answered',
             \A t \in settled : Copied(t) => Copied(t)' \/ t \in trades' \/ ~Answered'
      PROVE  TradesSound'
  <2> HIDE DEF Coming, Copied
  <2> QED
    BY <1>r, <1>s, <1>z, <1>e
<1>1. CASE Peer
  <2>1. UNCHANGED <<book, trades, next, initialized, up, copy, handling, toBackend>>
    BY <1>1, NodeRests
  <2>2. ASSUME NEW t \in settled
        PROVE  \/ t \in trades' \/ Lost(t)' \/ ~Answered' \/ Copied(t)'
               \/ \E k \in 1..Len(log') : Coming(t, k)'
    <3>1. \A k \in 1..Len(log) : Coming(t, k) => k \in 1..Len(log') /\ Coming(t, k)'
      BY <1>l, <2>1
    <3>2. /\ ~Answered => ~Answered'
          /\ Copied(t) => Copied(t)'
      BY <2>1 DEF Answered
    <3> HIDE DEF Coming, Copied
    <3> QED
      BY <1>s, <1>e, <2>1, <3>1, <3>2
  <2>3. ASSUME NEW t \in settled', t \notin settled
        PROVE  \E k \in 1..Len(log') : Coming(t, k)'
    <3>0. PICK fate : SourceAnnounces(fate)
      BY <1>1, <2>3 DEF Peer, SourceOrder, SourceCancel, SourceMatch
    <3>1. /\ t = Head(pending).orders /\ log' = Append(log, Head(pending))
          /\ pending # <<>>
      BY <2>3, <3>0, AnnounceDoes DEF SourceAnnounces
    <3>2. log \in Seq(Announced) /\ pending \in Seq(Matched)
      BY DEF Types
    <3>3. Head(pending) \in Announced /\ Head(pending).type = "trade"
      BY <3>1, <3>2, TailSet, TradeKind
    <3>4. Len(log') = Len(log) + 1 /\ log'[Len(log) + 1] = Head(pending)
      BY <3>1, <3>2, <3>3, AppendSet
    <3>5. handling.stage = "store" => next \in 1..Len(log)
      BY DEF PlaceSound
    <3>6. PICK n \in 1..Len(log') : n = Len(log) + 1
      BY <1>l, <3>4
    <3>7. Coming(t, n)'
      BY <1>l, <2>1, <3>1, <3>3, <3>4, <3>5, <3>6
    <3> QED
      BY <3>7
  <2> HIDE DEF Coming, Copied
  <2> QED
    BY <1>z, <2>2, <2>3
<1>2. CASE Start
  <2>1. /\ UNCHANGED peer /\ trades' = trades /\ initialized' = initialized /\ ~up
        /\ handling' = handling
        /\ copy' = IF initialized THEN NoCopy ELSE [NoCopy EXCEPT !.stage = "ask"]
        /\ next > 0 => next' = next
    BY <1>2, <1>l DEF Start
  <2>2. copy = NoCopy
    BY <2>1 DEF PlaceSound
  <2>3. copy'.stage \in {"off", "ask"} /\ copy.stage = "off"
    BY <2>1, <2>2 DEF NoCopy
  <2>4. Answered' <=> initialized
    BY <2>1, <2>3 DEF Answered
  <2>5. CASE next = 0
    BY <1>z, <2>4, <2>5 DEF PlaceSound
  <2>6. CASE next # 0
    <3>1. next' = next /\ log' = log /\ settled' = settled
      BY <1>l, <2>1, <2>6 DEF peer
    <3> QED
      BY <1>r, <2>1, <2>3, <2>4, <3>1 DEF Answered
  <2> QED
    BY <2>5, <2>6
<1>3. CASE Crash
  <2>1. /\ UNCHANGED peer /\ trades' = trades /\ initialized' = initialized /\ next' = next
        /\ handling' = Idle /\ copy' = NoCopy
    BY <1>3 DEF Crash
  <2>2. Answered' <=> initialized
    BY <2>1 DEF Answered, NoCopy
  <2>3. copy.stage # "off" => ~initialized
    BY DEF PlaceSound
  <2> QED
    BY <1>r, <2>1, <2>2, <2>3 DEF peer, Idle, Answered
<1>4. CASE Copy
  <2>1. UNCHANGED peer /\ next' = next /\ handling' = handling
    BY <1>4 DEF Copy, InitFromPeers, ReceiveInit, InitFails, CopyOrder, UpsertOrder, CopyTrades,
                SetInitialized
  <2>p. log' = log /\ settled' = settled
    BY <2>1 DEF peer
  <2>2. CASE InitFromPeers
    <3>1. /\ copy.stage = "ask" /\ copy'.stage = "answer" /\ trades' = trades
          /\ initialized' = initialized
      BY <2>2, InitFromPeersDoes
    <3> QED
      BY <1>r, <2>1, <2>p, <3>1 DEF Answered
  <2>3. CASE ReceiveInit
    <3>1. /\ copy'.stage = "find"
          /\ \A t \in settled : t \in copy'.trades \/ <<t, "older than a week">> \in excused'
      BY <2>3, ReceiveInitDoes
    <3>2. \A t \in settled' : Copied(t)' \/ Lost(t)'
      BY <2>p, <3>1 DEF Lost, TradeReasons
    <3> HIDE DEF Coming, Copied
    <3> QED
      BY <1>z, <3>2
  <2>4. CASE InitFails
    <3>1. copy'.stage = "off" /\ initialized' = initialized /\ copy.stage \in {"ask", "answer"}
      BY <2>4, InitFailsDoes
    <3>2. ~Answered'
      BY <3>1 DEF Answered, PlaceSound
    <3> HIDE DEF Coming, Copied
    <3> QED
      BY <1>z, <3>2
  <2>5. CASE CopyOrder \/ UpsertOrder
    <3>1. /\ copy.stage \in {"find", "upsert"} /\ copy'.stage \in {"find", "upsert"}
          /\ copy'.trades = copy.trades /\ trades' = trades
      <4>1. CASE CopyOrder
        BY <4>1, CopyOrderDoes
      <4>2. CASE UpsertOrder
        BY <4>2, UpsertOrderDoes
      <4> QED
        BY <2>5, <4>1, <4>2
    <3> QED
      BY <1>r, <2>1, <2>p, <3>1 DEF Answered
  <2>6. CASE CopyTrades
    <3>1. copy.stage = "find" /\ copy'.stage = "flag" /\ trades' = trades \cup copy.trades
      BY <2>6, CopyTradesDoes
    <3> QED
      BY <1>r, <2>1, <2>p, <3>1 DEF Answered
  <2>7. CASE SetInitialized
    <3>1. copy.stage = "flag" /\ initialized' /\ trades' = trades
      BY <2>7, SetInitializedDoes
    <3> QED
      BY <1>r, <2>1, <2>p, <3>1 DEF Answered
  <2> QED
    BY <1>4, <2>2, <2>3, <2>4, <2>5, <2>6, <2>7 DEF Copy
<1>5. CASE HandleEvent
  <2>1. UNCHANGED <<peer, copy, initialized>>
    BY <1>5 DEF HandleEvent, NotInChain, HandleOrder, HandleCancel, HandleTrade, ReadOrAddOrder,
                ReadOrderWithRetries, RefuseTrade, ExecuteReplicatedTrade, InsertTrades, Store
  <2>p. log' = log /\ settled' = settled /\ copy' = copy /\ initialized' = initialized
    BY <2>1 DEF peer
  <2>r. ASSUME trades \subseteq trades',
               \A t \in settled, k \in 1..Len(log) :
                   Coming(t, k) => Coming(t, k)' \/ t \in trades' \/ Lost(t)'
        PROVE  TradesSound'
    BY <1>r, <2>p, <2>r DEF Answered
  <2>2. CASE HandleOrder \/ HandleCancel
    <3>1. /\ Current.type # "trade" /\ next' = next /\ trades' = trades
      BY <2>2 DEF HandleOrder, HandleCancel, Arrives
    <3>2. \A t \in settled, k \in 1..Len(log) : Coming(t, k) => Coming(t, k)'
      BY <2>p, <3>1 DEF Current
    <3> QED
      BY <2>r, <3>1, <3>2
  <2>3. CASE HandleTrade \/ ExecuteReplicatedTrade
    <3>1. /\ handling'.stage \in {"read", "insert"} /\ next' = next /\ trades' = trades
      <4>1. CASE HandleTrade
        <5>1. handling' = [stage |-> "read", k |-> 1] /\ next' = next /\ trades' = trades
          BY <4>1, HandleTradeDoes
        <5> QED
          BY <5>1
      <4>2. CASE ExecuteReplicatedTrade
        <5>1. handling' = [stage |-> "insert", k |-> 1] /\ next' = next /\ trades' = trades
          BY <4>2, ExecuteReplicatedTradeDoes
        <5> QED
          BY <5>1
      <4> QED
        BY <2>3, <4>1, <4>2
    <3>2. \A t \in settled, k \in 1..Len(log) : Coming(t, k) => Coming(t, k)'
      BY <2>p, <3>1
    <3> QED
      BY <2>r, <3>1, <3>2
  <2>4. CASE ReadOrAddOrder \/ ReadOrderWithRetries \/ RefuseTrade
    <3>1. /\ next' = next /\ trades' = trades
          /\ \/ handling'.stage \in {"read", "wait"}
             \/ Failed
      <4>3. CASE RefuseTrade
        BY <4>3, RefuseTradeDoes
      <4>1. CASE ReadOrAddOrder
        <5>1. /\ next' = next /\ trades' = trades
              /\ \/ handling' = [stage |-> "read", k |-> handling.k + 1]
                 \/ handling' = [stage |-> "wait", k |-> handling.k]
                 \/ Failed
          BY <4>1, ReadOrAddOrderDoes
        <5>2. handling' = [stage |-> "read", k |-> handling.k + 1] => handling'.stage = "read"
          OBVIOUS
        <5>3. handling' = [stage |-> "wait", k |-> handling.k] => handling'.stage = "wait"
          OBVIOUS
        <5> QED
          BY <5>1, <5>2, <5>3, Zenon
      <4>2. CASE ReadOrderWithRetries
        <5>1. /\ next' = next /\ trades' = trades
              /\ \/ handling' = [stage |-> "read", k |-> handling.k + 1]
                 \/ handling' = [stage |-> "wait", k |-> handling.k]
                 \/ Failed
          BY <4>2, ReadOrderWithRetriesDoes
        <5>2. handling' = [stage |-> "read", k |-> handling.k + 1] => handling'.stage = "read"
          OBVIOUS
        <5>3. handling' = [stage |-> "wait", k |-> handling.k] => handling'.stage = "wait"
          OBVIOUS
        <5> QED
          BY <5>1, <5>2, <5>3, Zenon
      <4> QED
        BY <2>4, <4>1, <4>2, <4>3
    <3>2. CASE handling'.stage \in {"read", "wait"}
      <4>1. \A t \in settled, k \in 1..Len(log) : Coming(t, k) => Coming(t, k)'
        BY <2>p, <3>1, <3>2
      <4> QED
        BY <2>r, <3>1, <4>1
    <3>3. CASE Failed
      <4>5. \A t : t = Current.orders => Lost(t)'
        BY <3>3, FailedExcuses
      <4>3. \A t \in settled, k \in 1..Len(log) :
               Coming(t, k) => Coming(t, k)' \/ t = Current.orders
        BY <2>p, <3>1 DEF Current
      <4>4. \A t \in settled, k \in 1..Len(log) : Coming(t, k) => Coming(t, k)' \/ Lost(t)'
        BY <4>3, <4>5
      <4> HIDE DEF Coming
      <4> QED
        BY <2>r, <3>1, <4>4
    <3> QED
      BY <3>1, <3>2, <3>3
  <2>5. CASE InsertTrades
    <3>1. next' = next /\ trades' = trades \cup {Current.orders}
      BY <2>5 DEF InsertTrades
    <3>2. \A t \in settled, k \in 1..Len(log) : Coming(t, k) => Coming(t, k)' \/ t \in trades'
      BY <2>p, <3>1 DEF Current
    <3> QED
      BY <2>r, <3>1, <3>2
  <2>6. CASE Store
    <3>1. /\ handling.stage = "store" /\ next' = next + 1 /\ handling'.stage = "idle"
          /\ trades' = trades
      BY <2>6, StoreDoes
    <3>2. \A t \in settled, k \in 1..Len(log) : Coming(t, k) => Coming(t, k)'
      BY <1>l, <2>p, <3>1
    <3> QED
      BY <2>r, <3>1, <3>2
  <2>7. CASE NotInChain
    <3>1. /\ next \in untold /\ next' = next + 1 /\ handling' = handling
          /\ handling.stage = "idle" /\ trades' = trades /\ next \in 1..Len(log)
      BY <2>7, NotInChainDoes
    <3>2. "crash" \in TradeReasons
      BY DEF TradeReasons
    <3>3. log[next].type = "trade" => Lost(log[next].orders)
      BY <3>1, <3>2 DEF UntoldSound, Lost
    <3>4. \A t \in settled : Coming(t, next) => Lost(t)'
      BY <1>e, <3>3
    <3>5. \A t \in settled, k \in 1..Len(log) : Coming(t, k) => Coming(t, k)' \/ k = next
      BY <1>l, <2>p, <3>1
    <3>6. \A t \in settled, k \in 1..Len(log) : Coming(t, k) => Coming(t, k)' \/ Lost(t)'
      BY <3>4, <3>5
    <3> HIDE DEF Coming
    <3> QED
      BY <2>r, <3>1, <3>6
  <2> QED
    BY <1>5, <2>2, <2>3, <2>4, <2>5, <2>6, <2>7 DEF HandleEvent
<1>6. CASE Backend \/ UNCHANGED vars
  <2>1. /\ log' = log /\ settled' = settled /\ trades' = trades /\ copy' = copy
        /\ initialized' = initialized /\ next' = next /\ handling' = handling
    BY <1>6 DEF Backend, BackendInserts, BackendCancels, vars, peer
  <2> QED
    BY <1>r, <2>1 DEF Answered
<1> QED
  BY <1>1, <1>2, <1>3, <1>4, <1>5, <1>6 DEF Next
-----------------------------------------------------------------------------
(* The events that the node has handled *)

LEMMA PeerNews ==
    ASSUME Types, Types', PlaceSound, Peer, NEW o \in Orders
    PROVE  /\ \A k \in 1..Len(log') : Done(k)' => k \in 1..Len(log) /\ Done(k)
           /\ LastTrade(pending', o, 0)
                /\ (\A k \in (Len(log) + 1)..Len(log') : ~IsTrade(log'[k], o))
                   => LastTrade(pending, o, 0)
<1>1. /\ Len(log) \in Nat /\ Len(log') \in Nat /\ Len(log) <= Len(log')
      /\ \A k \in 1..Len(log) : log'[k] = log[k]
  BY LogGrows DEF Next
<1>2. next' = next /\ handling' = handling
  BY NodeRests
<1>3. \A k \in 1..Len(log') : Done(k)' => k \in 1..Len(log) /\ Done(k)
  <2>1. next \in 0..(Len(log) + 1)
    BY DEF Types
  <2>2. handling.stage \in {"insert", "store"} => next \in 1..Len(log)
    BY DEF PlaceSound
  <2> QED
    BY <1>1, <1>2, <2>1, <2>2 DEF Done
<1>4. CASE \E n \in Orders : \E fate : SourceOrder(n, fate) \/ SourceCancel(n, fate)
  <2>1. pending' = pending
    BY <1>4 DEF SourceOrder, SourceCancel
  <2> QED
    BY <1>3, <2>1
<1>5. CASE \E p \in Pairs : SourceMatch(p)
  <2>1. PICK e \in Matched : pending' = Append(pending, e)
    BY <1>5, MatchDoes
  <2>2. pending \in Seq(Matched) /\ 0 \in 0..Len(pending)
    BY LenProperties DEF Types
  <2>3. LastTrade(pending', o, 0) => LastTrade(pending, o, 0)
    BY <2>1, <2>2, AppendTrades
  <2> QED
    BY <1>3, <2>3
<1>6. CASE \E fate : SourceAnnounces(fate)
  <2>1. /\ pending # <<>> /\ pending' = Tail(pending) /\ log' = Append(log, Head(pending))
        /\ pending \in Seq(Matched) /\ log \in Seq(Announced)
    BY <1>6, AnnounceDoes DEF SourceAnnounces, Types
  <2>2. Head(pending) \in Announced
    BY <2>1, TailSet, TradeKind
  <2>3. Len(log') = Len(log) + 1 /\ log'[Len(log) + 1] = Head(pending)
    BY <2>1, <2>2, AppendSet
  <2>4. LastTrade(pending, o, 0) <=> LastTrade(pending', o, 0) /\ ~IsTrade(Head(pending), o)
    BY <2>1, TailTrades
  <2> QED
    BY <1>1, <1>3, <2>3, <2>4
<1> QED
  BY <1>4, <1>5, <1>6 DEF Peer

\* The node is done with an event once it has stored it, or what it says.
LEMMA DoneChanges ==
    ASSUME Types, PlaceSound, [Next]_vars, ~Peer, NEW k \in 1..Len(log), Done(k)'
    PROVE  \/ Done(k)
           \/ Start /\ next = 0
           \/ /\ k = next /\ handling.stage \in {"idle", "read", "wait"}
              /\ \/ HandleOrder \/ HandleCancel \/ ExecuteReplicatedTrade \/ NotInChain
                 \/ (ReadOrAddOrder \/ ReadOrderWithRetries \/ RefuseTrade) /\ Failed
<1>n. next \in 0..(Len(log) + 1)
  BY DEF Types
<1>1. ASSUME next' = next, handling' = handling PROVE Done(k)
  BY <1>1 DEF Done
<1>2. CASE Start
  <2>1. handling' = Idle /\ handling = Idle /\ (next # 0 => next' = next)
    BY <1>n, <1>2 DEF Start, PlaceSound
  <2> QED
    BY <1>1, <1>2, <2>1
<1>3. CASE Crash
  <2>1. next' = next /\ handling'.stage = "idle"
    BY <1>3 DEF Crash, Idle
  <2> QED
    BY <2>1 DEF Done
<1>4. CASE Copy \/ Backend \/ UNCHANGED vars
  <2>1. next' = next /\ handling' = handling
    BY <1>4 DEF Copy, InitFromPeers, ReceiveInit, InitFails, CopyOrder, UpsertOrder, CopyTrades,
                SetInitialized, Backend, BackendInserts, BackendCancels, vars
  <2> QED
    BY <1>1, <2>1
<1>5. CASE HandleOrder \/ HandleCancel
  <2>1. next' = next /\ handling.stage = "idle"
    BY <1>5 DEF HandleOrder, HandleCancel, Arrives, Handling
  <2>2. k < next \/ k = next
    BY <2>1 DEF Done
  <2> QED
    BY <1>5, <2>1, <2>2 DEF Done
<1>6. CASE HandleTrade
  <2>1. next' = next /\ handling'.stage = "read"
    BY <1>6 DEF HandleTrade, Then
  <2> QED
    BY <2>1 DEF Done
<1>7. CASE ReadOrAddOrder \/ ReadOrderWithRetries \/ RefuseTrade
  <2>1. /\ next' = next /\ handling.stage \in {"read", "wait"}
        /\ \/ handling' = [stage |-> "read", k |-> handling.k + 1]
           \/ handling' = [stage |-> "wait", k |-> handling.k]
           \/ Failed
    <3>3. CASE RefuseTrade
      BY <3>3, RefuseTradeDoes
    <3>1. CASE ReadOrAddOrder
      BY <3>1, ReadOrAddOrderDoes
    <3>2. CASE ReadOrderWithRetries
      BY <3>2, ReadOrderWithRetriesDoes
    <3> QED
      BY <1>7, <3>1, <3>2, <3>3
  <2>2. k < next \/ (k = next /\ handling'.stage \in {"insert", "store"})
    BY <2>1 DEF Done
  <2>3. CASE k < next
    BY <2>3 DEF Done
  <2>4. CASE k = next /\ handling'.stage \in {"insert", "store"}
    <3>1. handling' # [stage |-> "read", k |-> handling.k + 1]
      BY <2>4
    <3>2. handling' # [stage |-> "wait", k |-> handling.k]
      BY <2>4
    <3>3. Failed
      BY <2>1, <3>1, <3>2
    <3>4. handling.stage \in {"idle", "read", "wait"} /\ k = next
      BY <2>1, <2>4
    <3> QED
      BY <1>7, <3>3, <3>4
  <2> QED
    BY <2>2, <2>3, <2>4
<1>8. CASE ExecuteReplicatedTrade
  <2>1. next' = next /\ handling.stage = "read"
    BY <1>8 DEF ExecuteReplicatedTrade, Handling
  <2>2. k < next \/ k = next
    BY <2>1 DEF Done
  <2> QED
    BY <1>8, <2>1, <2>2 DEF Done
<1>9. CASE InsertTrades
  <2>1. next' = next /\ handling.stage = "insert"
    BY <1>9 DEF InsertTrades, Handling
  <2> QED
    BY <2>1 DEF Done
<1>10. CASE Store
  <2>1. handling.stage = "store" /\ next' = next + 1 /\ handling'.stage = "idle"
    BY <1>10, StoreDoes
  <2> QED
    BY <1>n, <2>1 DEF Done
<1>11. CASE NotInChain
  <2>1. handling.stage = "idle" /\ next' = next + 1 /\ handling' = handling
    BY <1>11, NotInChainDoes
  <2>2. k < next \/ k = next
    BY <1>n, <2>1 DEF Done
  <2> QED
    BY <1>11, <2>1, <2>2 DEF Done
<1> QED
  BY <1>2, <1>3, <1>4, <1>5, <1>6, <1>7, <1>8, <1>9, <1>10, <1>11 DEF Next, HandleEvent

LEMMA AskedChanges ==
    ASSUME Types, PlaceSound, [Next]_vars, Asked', ~InitFromPeers
    PROVE  Asked
<1>1. CASE Start \/ Crash
  <2>1. initialized' = initialized /\ copy'.stage \in {"off", "ask"}
    BY <1>1 DEF Start, Crash, NoCopy
  <2> QED
    BY <2>1 DEF Asked
<1>2. CASE ReceiveInit
  BY <1>2, ReceiveInitDoes DEF Asked
<1>3. CASE InitFails
  <2>1. initialized' = initialized /\ copy'.stage = "off"
    BY <1>3, InitFailsDoes
  <2> QED
    BY <2>1 DEF Asked
<1>4. CASE CopyOrder \/ UpsertOrder \/ CopyTrades \/ SetInitialized
  <2>1. copy.stage \in {"find", "upsert", "flag"}
    BY <1>4 DEF CopyOrder, UpsertOrder, CopyTrades, SetInitialized, Copying
  <2> QED
    BY <2>1 DEF Asked
<1>5. CASE Peer \/ HandleEvent \/ Backend \/ UNCHANGED vars
  <2>1. copy' = copy /\ initialized' = initialized
    BY <1>5, NodeRests DEF vars, HandleEvent, NotInChain, HandleOrder, HandleCancel, HandleTrade,
            ReadOrAddOrder, ReadOrderWithRetries, RefuseTrade, ExecuteReplicatedTrade, InsertTrades,
            Store, Backend, BackendInserts, BackendCancels
  <2> QED
    BY <2>1 DEF Asked
<1> QED
  BY <1>1, <1>2, <1>3, <1>4, <1>5 DEF Next, Copy

\* Only the backend takes a message, and only a crash loses one.
LEMMA QueueKeeps ==
    ASSUME Types, PlaceSound, [Next]_vars, ~Crash, ~Backend
    PROVE  ToSet(toBackend) \subseteq ToSet(toBackend')
<1>1. toBackend \in Seq(Messages)
  BY DEF Types
<1>2. \A n \in Orders : /\ ToSet(toBackend) \subseteq ToSet(Append(toBackend, New(n)))
                        /\ ToSet(toBackend) \subseteq ToSet(Append(toBackend, Cancelling(n)))
  BY <1>1, MessagesAre, AppendSet
<1>3. CASE Peer \/ Start \/ UNCHANGED vars
  BY <1>3, NodeRests DEF Start, vars
<1>4. CASE CopyOrder
  BY <1>2, <1>4, CopyOrderDoes
<1>5. CASE Copy /\ ~CopyOrder
  BY <1>5 DEF Copy, InitFromPeers, ReceiveInit, InitFails, UpsertOrder, CopyTrades,
              SetInitialized
<1>6. CASE HandleOrder
  BY <1>2, <1>6, HandleOrderDoes
<1>7. CASE HandleCancel
  BY <1>2, <1>7, HandleCancelDoes
<1>8. CASE ReadOrAddOrder
  BY <1>2, <1>8, ReadOrAddOrderDoes
<1>9. CASE \/ HandleTrade \/ ReadOrderWithRetries \/ RefuseTrade \/ ExecuteReplicatedTrade
           \/ InsertTrades \/ Store \/ NotInChain
  BY <1>9 DEF NotInChain, HandleTrade, ReadOrderWithRetries, RefuseTrade, ExecuteReplicatedTrade,
              InsertTrades, Store
<1> QED
  BY <1>3, <1>4, <1>5, <1>6, <1>7, <1>8, <1>9 DEF Next, HandleEvent

-----------------------------------------------------------------------------
(* The open orders *)

\* The node has the order, or is going to.
Gets(o) ==
    \/ Forgiven(o)
    \/ book[o] = Open(o) \/ New(o) \in ToSet(toBackend) \/ o \in ToSet(copy.orders)

LEMMA CrashExcuses ==
    ASSUME Types, Crash, NEW o \in Orders
    PROVE  /\ New(o) \in ToSet(toBackend) /\ initialized => <<o, "crash">> \in excused'
           /\ Cancelling(o) \in ToSet(toBackend) => <<o, "crash">> \in excused'
<1> DEFINE lost == {m \in ToSet(toBackend) : initialized \/ m.type = "cancel"}
<1>1. excused' = excused \cup ({m.order : m \in lost} \X {"crash"})
  BY DEF Crash, Excuse
<1>2. New(o).order = o /\ Cancelling(o).order = o /\ Cancelling(o).type = "cancel"
  BY DEF New, Cancelling, Message
<1>3. /\ New(o) \in ToSet(toBackend) /\ initialized => New(o) \in lost
      /\ Cancelling(o) \in ToSet(toBackend) => Cancelling(o) \in lost
  BY <1>2
<1> HIDE DEF lost
<1>4. \A m \in lost : <<m.order, "crash">> \in excused'
  BY <1>1
<1> QED
  BY <1>2, <1>3, <1>4

LEMMA OpenKept ==
    ASSUME Types, Types', PlaceSound, KnownSound, [Next]_vars, NEW o \in Orders,
           \A k \in 1..Len(log) : ~News(log[k], o), Asked', Gets(o)
    PROVE  Gets(o)'
<1>b. toBackend \in Seq(Messages) /\ copy.orders \in Seq(Orders)
  BY DEF Types
<1>n. /\ book[o] \in {Absent, Open(o)} /\ Cancelling(o) \notin ToSet(toBackend)
      /\ ~(AtHand(o) /\ IsTrade(Current, o))
  BY DEF KnownSound, News, Current, AtHand
<1>w. {"crash", "aborted"} \subseteq Reasons
  BY DEF Reasons
<1>1. CASE Forgiven(o)
  BY <1>1, ForgivenStays DEF Gets
<1>2. CASE book[o] = Open(o)
  BY <1>2, <1>n, BookChanges, SizeNat DEF Gets
<1>3. CASE New(o) \in ToSet(toBackend)
  <2>1. CASE Crash
    <3>1. initialized
      BY <2>1 DEF Crash, Asked, NoCopy
    <3>2. <<o, "crash">> \in excused'
      BY <1>3, <2>1, <3>1, CrashExcuses
    <3> QED
      BY <1>w, <3>2 DEF Gets, Forgiven
  <2>2. CASE Backend
    <3>1. PICK n \in Orders : BackendInserts(n) \/ BackendCancels(n)
      BY <2>2 DEF Backend
    <3>2. /\ toBackend # <<>> /\ toBackend' = Tail(toBackend)
      BY <3>1 DEF BackendInserts, BackendCancels
    <3>3. New(o) = Head(toBackend) \/ New(o) \in ToSet(toBackend')
      BY <1>b, <1>3, <3>2, TailSet
    <3>4. CASE New(o) = Head(toBackend)
      <4>1. ~BackendCancels(n)
        BY <3>4, BackendCancelsDoes, MessagesAre
      <4>2. BackendInserts(n) /\ n = o
        BY <3>1, <3>4, <4>1, BackendInsertsDoes, MessagesAre
      <4>3. book'[o] = Open(o)
        BY <1>n, <4>2, BackendInsertsDoes
      <4> QED
        BY <4>3 DEF Gets
    <3> QED
      BY <3>3, <3>4 DEF Gets
  <2>3. CASE ~Crash /\ ~Backend
    BY <1>3, <2>3, QueueKeeps DEF Gets
  <2> QED
    BY <2>1, <2>2, <2>3
<1>4. CASE o \in ToSet(copy.orders)
  <2>0. copy.orders # <<>> /\ copy.stage \notin {"off", "ask", "flag"} /\ up /\ ~initialized
    BY <1>4, NoneIn DEF PlaceSound
  <2>1. ~Start /\ ~InitFromPeers /\ ~CopyTrades /\ ~SetInitialized
    BY <2>0 DEF Start, InitFromPeers, CopyTrades, SetInitialized, Copying
  <2>2. ~Crash
    BY <2>0 DEF Crash, Asked, NoCopy
  <2>3. ~InitFails
    BY <2>0, InitFailsDoes DEF Asked
  <2>4. CASE ReceiveInit
    BY <1>4, <2>4, ReceiveInitDoes DEF Gets
  <2>5. CASE CopyOrder
    <3>1. PICK n \in Orders :
             /\ n = Head(copy.orders)
             /\ \/ /\ book[n] # Absent /\ copy'.orders = Tail(copy.orders)
                   /\ UNCHANGED book
                \/ copy'.orders = copy.orders
                \/ excused' = Excuse(ToSet(copy.orders), "aborted")
      BY <2>5, CopyOrderDoes
    <3>2. CASE /\ book[n] # Absent /\ copy'.orders = Tail(copy.orders)
               /\ UNCHANGED book
      <4>1. o = n \/ o \in ToSet(copy'.orders)
        BY <1>b, <1>4, <2>0, <3>1, <3>2, TailSet
      <4> QED
        BY <1>n, <3>2, <4>1 DEF Gets
    <3>3. CASE copy'.orders = copy.orders
      BY <1>4, <3>3 DEF Gets
    <3>4. CASE excused' = Excuse(ToSet(copy.orders), "aborted")
      <4>1. <<o, "aborted">> \in excused'
        BY <1>4, <3>4 DEF Excuse
      <4> QED
        BY <1>w, <4>1 DEF Gets, Forgiven
    <3> QED
      BY <3>1, <3>2, <3>3, <3>4
  <2>6. CASE UpsertOrder
    <3>1. PICK n \in Orders : /\ n = Head(copy.orders) /\ book'[n] = Open(n)
                             /\ copy'.orders = Tail(copy.orders)
      BY <2>6, UpsertOrderDoes
    <3>2. o = n \/ o \in ToSet(copy'.orders)
      BY <1>b, <1>4, <2>0, <3>1, TailSet
    <3> QED
      BY <3>1, <3>2 DEF Gets
  <2>7. CASE Peer \/ HandleEvent \/ Backend \/ UNCHANGED vars
    <3>1. copy' = copy
      BY <2>7, NodeRests DEF vars, HandleEvent, NotInChain, HandleOrder, HandleCancel, HandleTrade,
              ReadOrAddOrder, ReadOrderWithRetries, RefuseTrade, ExecuteReplicatedTrade, InsertTrades,
              Store, Backend, BackendInserts, BackendCancels
    <3> QED
      BY <1>4, <3>1 DEF Gets
  <2> QED
    BY <2>1, <2>2, <2>3, <2>4, <2>5, <2>6, <2>7 DEF Next, Copy
<1> QED
  BY <1>1, <1>2, <1>3, <1>4 DEF Gets

LEMMA OpenStep ==
    ASSUME Types, Types', PlaceSound, SourceSound, UntoldSound, KnownSound, OpenSound,
           [Next]_vars
    PROVE  OpenSound'
<1>l. /\ Len(log) \in Nat /\ Len(log') \in Nat /\ Len(log) <= Len(log')
      /\ \A k \in 1..Len(log) : log'[k] = log[k]
  BY LogGrows
<1> SUFFICES ASSUME NEW o \in Orders, Asked', Untouched(o)' PROVE Gets(o)'
  BY DEF OpenSound, Gets
<1>f. Forgiven(o) => Gets(o)'
  BY ForgivenStays DEF Gets
<1>1. \A k \in 1..Len(log') : ~News(log'[k], o)
  BY DEF Untouched
<1>2. \A k \in 1..Len(log) : ~News(log[k], o)
  BY <1>l, <1>1
<1>3. PICK k \in 1..Len(log') : Done(k)' /\ IsOrder(log'[k], o)
  BY DEF Untouched
<1>4. CASE Peer
  <2>1. k \in 1..Len(log) /\ Done(k)
    BY <1>3, <1>4, PeerNews
  <2>2. LastTrade(pending, o, 0)
    BY <1>1, <1>4, <1>l, PeerNews DEF Untouched, News
  <2>3. Untouched(o)
    BY <1>l, <1>2, <1>3, <2>1, <2>2 DEF Untouched
  <2>4. Asked
    BY <1>4, AskedChanges DEF Peer, InitFromPeers, SourceOrder, SourceCancel, SourceMatch,
            SourceAnnounces, Copying, Asked
  <2> QED
    BY <1>2, <2>3, <2>4, OpenKept DEF OpenSound, Gets
<1>5. CASE ~Peer
  <2>1. log' = log /\ pending' = pending
    BY <1>5, PeerRests DEF Next, peer
  <2>2. CASE Done(k)
    <3>1. Untouched(o)
      BY <1>2, <1>3, <2>1, <2>2 DEF Untouched
    <3>2. CASE Asked
      BY <1>2, <3>1, <3>2, OpenKept DEF OpenSound, Gets
    <3>3. CASE ~Asked /\ ~Forgiven(o)
      <4>1. InitFromPeers
        BY <3>3, AskedChanges
      <4>2. source[o] # Absent /\ source[o].status # "CANCELLED"
        BY <1>2, <1>3, <2>1, <3>3 DEF SourceSound, Sourced, Recorded, News
      <4>3. LastTrade(log, o, 0)
        BY <1>2, <1>l DEF LastTrade, News
      <4>4. Reflects(o, Open(o))
        BY <3>1, <3>3, <4>2, <4>3 DEF SourceSound, Sourced, LastMatch, Untouched
      <4>5. source[o].status = "OPEN"
        BY <4>2, <4>4 DEF Reflects, Open, Entry
      <4> QED
        BY <4>1, <4>5, InitFromPeersDoes DEF Gets
    <3> QED
      BY <1>f, <3>2, <3>3
  <2>3. CASE Start /\ next = 0
    <3>1. ~initialized' /\ copy'.stage \in {"off", "ask"}
      BY <2>3 DEF Start, PlaceSound, NoCopy
    <3> QED
      BY <3>1 DEF Asked
  <2>5. CASE k = next /\ NotInChain
    <3>1. IsOrder(log[next], o) /\ next \in untold
      BY <1>3, <2>1, <2>5, NotInChainDoes
    <3>2. Forgiven(o)
      BY <3>1 DEF UntoldSound, Forgiven, Reasons
    <3> QED
      BY <1>f, <3>2
  <2>4. CASE k = next /\ ~Done(k) /\ ~NotInChain
    <3>1. IsOrder(Current, o) /\ next \in 1..Len(log)
      BY <1>3, <2>1, <2>4 DEF Current
    <3>2. HandleOrder
      <4>1. ~HandleCancel
        BY <3>1 DEF HandleCancel, Arrives, IsOrder
      <4>2. Current.type # "trade"
        BY <3>1 DEF IsOrder
      <4>3. /\ ~ExecuteReplicatedTrade /\ ~ReadOrAddOrder /\ ~ReadOrderWithRetries
            /\ ~RefuseTrade
        BY <4>2 DEF ExecuteReplicatedTrade, ReadOrAddOrder, ReadOrderWithRetries, RefuseTrade,
                    Handling, PlaceSound
      <4> QED
        <5>1. k \in 1..Len(log) /\ ~(Start /\ next = 0)
          BY <2>4, <3>1
        <5>2. \/ HandleOrder \/ HandleCancel \/ ExecuteReplicatedTrade
              \/ ReadOrAddOrder \/ ReadOrderWithRetries \/ RefuseTrade
          BY <1>3, <1>5, <2>4, <5>1, DoneChanges
        <5> QED
          BY <4>1, <4>3, <5>2
    <3>3. PICK n \in Orders :
             /\ IsOrder(Current, n)
             /\ \/ excused' = Excuse({n}, "refused")
                \/ toBackend' = Append(toBackend, New(n))
      BY <3>2, HandleOrderDoes
    <3>4. n = o
      BY <3>1, <3>3 DEF IsOrder
    <3>5. CASE excused' = Excuse({o}, "refused")
      BY <3>5 DEF Gets, Forgiven, Excuse, Reasons
    <3>6. CASE toBackend' = Append(toBackend, New(o))
      <4>1. toBackend \in Seq(Messages)
        BY DEF Types
      <4> QED
        BY <3>6, <4>1, AppendSet, MessagesAre DEF Gets
    <3> QED
      BY <3>3, <3>4, <3>5, <3>6
  <2> QED
    <3>1. k \in 1..Len(log) /\ (Done(k) \/ (Start /\ next = 0) \/ k = next)
      BY <1>3, <1>5, <2>1, DoneChanges
    <3> QED
      BY <2>2, <2>3, <2>4, <2>5, <3>1
<1> QED
  BY <1>4, <1>5
-----------------------------------------------------------------------------
(* The last news of an order *)

\* The node shows the order as gone, or is about to.
Leaves(o) == Forgiven(o) \/ Dead(o) \/ DeadSoon(o)

LEMMA BeingCopiedChanges ==
    ASSUME Types, PlaceSound, [Next]_vars, NEW o \in Orders, BeingCopied(o)'
    PROVE  BeingCopied(o) \/ (CopyOrder /\ book[o] = Absent)
<1>1. CASE CopyOrder
  <2>1. \E n \in Orders : n = Head(copy.orders) /\ (\/ copy'.stage = "find"
                                                    \/ book[n] = Absent /\ copy'.orders = copy.orders)
    BY <1>1, CopyOrderDoes
  <2> QED
    BY <1>1, <2>1 DEF BeingCopied
<1>2. CASE Start \/ Crash
  BY <1>2 DEF Start, Crash, NoCopy, BeingCopied
<1>3. CASE InitFromPeers \/ ReceiveInit \/ InitFails \/ UpsertOrder \/ CopyTrades \/ SetInitialized
  <2>1. copy'.stage # "upsert"
    BY <1>3, InitFromPeersDoes, ReceiveInitDoes, InitFailsDoes, UpsertOrderDoes, CopyTradesDoes,
       SetInitializedDoes
  <2> QED
    BY <2>1 DEF BeingCopied
<1>4. CASE Peer \/ HandleEvent \/ Backend \/ UNCHANGED vars
  <2>1. copy' = copy
    BY <1>4, NodeRests DEF vars, HandleEvent, NotInChain, HandleOrder, HandleCancel, HandleTrade,
            ReadOrAddOrder, ReadOrderWithRetries, RefuseTrade, ExecuteReplicatedTrade, InsertTrades,
            Store, Backend, BackendInserts, BackendCancels
  <2> QED
    BY <2>1 DEF BeingCopied
<1> QED
  BY <1>1, <1>2, <1>3, <1>4 DEF Next, Copy

\* A step that does not touch the order, other than the backend's
LEMMA LeavesUntouched ==
    ASSUME Types, [Next]_vars, NEW o \in Orders, Leaves(o),
           book'[o] = book[o],
           BeingCopied(o)' <=> BeingCopied(o),
           o \in ToSet(copy'.orders) => o \in ToSet(copy.orders),
           \/ toBackend' = toBackend
           \/ \E m \in Messages : m # New(o) /\ toBackend' = Append(toBackend, m)
    PROVE  Leaves(o)'
<1>1. toBackend \in Seq(Messages)
  BY DEF Types
<1>2. New(o) \in ToSet(toBackend') => New(o) \in ToSet(toBackend)
  <2>1. \A m \in Messages : ToSet(Append(toBackend, m)) = ToSet(toBackend) \cup {m}
    BY <1>1, AppendSet
  <2> QED
    BY <2>1
<1>3. /\ Len(toBackend) \in Nat /\ Len(toBackend') \in Nat /\ Len(toBackend) <= Len(toBackend')
      /\ \A i \in 1..Len(toBackend) : toBackend'[i] = toBackend[i]
      /\ \A i \in (Len(toBackend) + 1)..Len(toBackend') : toBackend'[i] # New(o)
  BY <1>1, AppendSet, LenProperties
<1>4. Forgiven(o) => Forgiven(o)'
  BY ForgivenStays
<1>5. Dead(o) => Dead(o)'
  BY <1>2 DEF Dead
<1>6. ASSUME DeadSoon(o) PROVE DeadSoon(o)'
  <2>1. PICK i \in 1..Len(toBackend) :
           /\ toBackend[i] = Cancelling(o)
           /\ book[o] = Absent /\ ~BeingCopied(o) =>
                  \A j \in (i + 1)..Len(toBackend) : toBackend[j] # New(o)
    BY <1>6 DEF DeadSoon
  <2>2. i \in 1..Len(toBackend') /\ toBackend'[i] = Cancelling(o)
    BY <1>3, <2>1
  <2>3. ASSUME book'[o] = Absent, ~BeingCopied(o)', NEW j \in (i + 1)..Len(toBackend')
        PROVE  toBackend'[j] # New(o)
    <3>1. j \in (i + 1)..Len(toBackend) \/ j \in (Len(toBackend) + 1)..Len(toBackend')
      BY <1>3
    <3>2. CASE j \in (i + 1)..Len(toBackend)
      <4>1. toBackend'[j] = toBackend[j]
        BY <1>3, <2>1, <3>2
      <4> QED
        BY <2>1, <2>3, <3>2, <4>1
    <3> QED
      BY <1>3, <3>1, <3>2
  <2> QED
    BY <2>2, <2>3 DEF DeadSoon
<1> QED
  BY <1>4, <1>5, <1>6 DEF Leaves

LEMMA LeavesBackend ==
    ASSUME Types, PlaceSound, [Next]_vars, NEW o \in Orders, Leaves(o), Backend
    PROVE  Leaves(o)'
<1>b. toBackend \in Seq(Messages)
  BY DEF Types
<1>1. PICK n \in Orders : BackendInserts(n) \/ BackendCancels(n)
  BY DEF Backend
<1>2. toBackend # <<>> /\ toBackend' = Tail(toBackend) /\ copy' = copy
  BY <1>1 DEF BackendInserts, BackendCancels
<1>3. BeingCopied(o)' <=> BeingCopied(o)
  BY <1>2 DEF BeingCopied
<1>4. /\ Head(toBackend) = toBackend[1] /\ Len(toBackend) \in Nat
      /\ Len(toBackend') = Len(toBackend) - 1
      /\ \A i \in 1..(Len(toBackend) - 1) : toBackend'[i] = toBackend[i + 1]
      /\ ToSet(toBackend) = {Head(toBackend)} \cup ToSet(toBackend')
  BY <1>b, <1>2, TailSet
<1>5. book'[o] = Absent => book[o] = Absent
  BY <1>1, BackendInsertsDoes, BackendCancelsDoes, SizeNat
<1>6. CASE Forgiven(o)
  BY <1>6, ForgivenStays DEF Leaves
<1>7. CASE Dead(o)
  <2>1. ~Live(book'[o])
    <3>1. CASE BackendInserts(n) /\ n = o
      <4>1. New(o) \in ToSet(toBackend)
        BY <1>4, <3>1, BackendInsertsDoes
      <4>2. book'[o] = book[o]
        BY <1>7, <3>1, <4>1, BackendInsertsDoes DEF Dead
      <4> QED
        BY <1>7, <4>2 DEF Dead
    <3>2. CASE BackendCancels(n) /\ n = o
      BY <3>2, BackendCancelsDoes
    <3>3. CASE n # o
      <4>1. book'[o] = book[o]
        BY <1>1, <3>3, BackendInsertsDoes, BackendCancelsDoes
      <4> QED
        BY <1>7, <4>1 DEF Dead
    <3> QED
      BY <1>1, <3>1, <3>2, <3>3
  <2>2. Dead(o)'
    BY <1>2, <1>3, <1>4, <1>5, <1>7, <2>1 DEF Dead
  <2> QED
    BY <2>2 DEF Leaves
<1>8. CASE DeadSoon(o)
  <2>1. PICK i \in 1..Len(toBackend) :
           /\ toBackend[i] = Cancelling(o)
           /\ book[o] = Absent /\ ~BeingCopied(o) =>
                  \A j \in (i + 1)..Len(toBackend) : toBackend[j] # New(o)
    BY <1>8 DEF DeadSoon
  <2>2. \A j \in i..Len(toBackend') : j + 1 \in (i + 1)..Len(toBackend)
                                        /\ toBackend'[j] = toBackend[j + 1]
    BY <1>4, <2>1
  <2>3. CASE i # 1
    <3>1. PICK h \in 1..Len(toBackend') : h = i - 1
      BY <1>4, <2>1, <2>3
    <3>2. toBackend'[h] = Cancelling(o)
      BY <1>4, <2>1, <3>1
    <3>3. ASSUME book'[o] = Absent, ~BeingCopied(o)', NEW j \in (h + 1)..Len(toBackend')
          PROVE  toBackend'[j] # New(o)
      <4>1. j \in i..Len(toBackend')
        BY <3>1
      <4> QED
        BY <1>3, <1>5, <2>1, <2>2, <3>3, <4>1
    <3>4. DeadSoon(o)'
      BY <3>2, <3>3 DEF DeadSoon
    <3> QED
      BY <3>4 DEF Leaves
  <2>4. CASE i = 1
    <3>1. BackendCancels(n) /\ n = o
      <4>1. ~BackendInserts(n)
        BY <1>4, <2>1, <2>4, BackendInsertsDoes, MessagesAre
      <4>2. BackendCancels(n)
        BY <1>1, <4>1
      <4> QED
        BY <1>4, <2>1, <2>4, <4>2, BackendCancelsDoes, MessagesAre
    <3>2. /\ ~Live(book'[o])
          /\ book[o] = Absent /\ ToBeCopied(o) => <<o, "cancelled before">> \in excused'
          /\ BeingCopied(o) => <<o, "copied over">> \in excused'
      BY <3>1, BackendCancelsDoes
    <3>3. {"cancelled before", "copied over"} \subseteq Reasons
      BY DEF Reasons
    <3>4. CASE BeingCopied(o) \/ (book[o] = Absent /\ ToBeCopied(o))
      BY <3>2, <3>3, <3>4 DEF Leaves, Forgiven
    <3>5. CASE ~BeingCopied(o) /\ ~(book[o] = Absent /\ ToBeCopied(o))
      <4>1. ASSUME book'[o] = Absent PROVE New(o) \notin ToSet(toBackend')
        <5>1. \A j \in 1..Len(toBackend') : toBackend'[j] # New(o)
          BY <1>5, <2>1, <2>2, <2>4, <3>5, <4>1
        <5>2. toBackend' \in Seq(Messages)
          BY <1>b, <1>2, TailSet
        <5> QED
          BY <5>1, <5>2, SeqSet
      <4>2. book'[o] = Absent => o \notin ToSet(copy'.orders)
        BY <1>2, <1>5, <3>5 DEF ToBeCopied
      <4>3. Dead(o)'
        BY <1>3, <3>2, <3>5, <4>1, <4>2 DEF Dead
      <4> QED
        BY <4>3 DEF Leaves
    <3> QED
      BY <3>4, <3>5
  <2> QED
    BY <2>3, <2>4
<1> QED
  BY <1>6, <1>7, <1>8 DEF Leaves

LEMMA LeavesKept ==
    ASSUME Types, PlaceSound, [Next]_vars, NEW o \in Orders, Leaves(o),
           ~AtHand(o), source[o].status # "OPEN"
    PROVE  Leaves(o)'
<1>b. toBackend \in Seq(Messages) /\ copy.orders \in Seq(Orders)
  BY DEF Types
<1>f. Forgiven(o) => Leaves(o)'
  BY ForgivenStays DEF Leaves
<1>m. \A n \in Orders : /\ Cancelling(n) \in Messages /\ Cancelling(n) # New(o)
                        /\ New(n) \in Messages /\ (n # o => New(n) # New(o))
  BY MessagesAre
<1>1. CASE Peer \/ UNCHANGED vars
  <2>1. UNCHANGED <<book, copy, toBackend>>
    BY <1>1, NodeRests DEF vars
  <2> QED
    BY <2>1, LeavesUntouched DEF BeingCopied
<1>2. CASE Start
  <2>1. /\ UNCHANGED <<book, toBackend>> /\ copy = NoCopy
        /\ copy'.stage \in {"off", "ask"} /\ copy'.orders = <<>>
    BY <1>2 DEF Start, NoCopy, PlaceSound
  <2> QED
    BY <2>1, LeavesUntouched, NoneIn DEF BeingCopied, NoCopy
<1>3. CASE Crash
  <2>1. book' = book /\ copy' = NoCopy /\ toBackend' = <<>>
    BY <1>3 DEF Crash
  <2>2. ~BeingCopied(o)' /\ ToSet(copy'.orders) = {} /\ ToSet(toBackend') = {}
    BY <2>1, NoneIn DEF BeingCopied, NoCopy
  <2>3. CASE Dead(o)
    BY <2>1, <2>2, <2>3 DEF Dead, Leaves
  <2>4. CASE DeadSoon(o)
    <3>1. Cancelling(o) \in ToSet(toBackend)
      BY <1>b, <2>4, SeqSet DEF DeadSoon
    <3>2. <<o, "crash">> \in excused'
      BY <1>3, <3>1, CrashExcuses
    <3>3. "crash" \in Reasons
      BY DEF Reasons
    <3> QED
      BY <3>2, <3>3 DEF Leaves, Forgiven
  <2> QED
    BY <1>f, <2>3, <2>4 DEF Leaves
<1>4. CASE InitFromPeers
  <2>1. /\ copy.stage = "ask" /\ copy'.stage = "answer"
        /\ ToSet(copy'.orders) = {n \in Orders : source[n].status = "OPEN"}
        /\ UNCHANGED <<book, toBackend>>
    BY <1>4, InitFromPeersDoes
  <2> QED
    BY <2>1, LeavesUntouched DEF BeingCopied
<1>5. CASE ReceiveInit
  <2>1. /\ copy.stage = "answer" /\ copy'.stage = "find" /\ copy'.orders = copy.orders
        /\ UNCHANGED <<book, toBackend>>
    BY <1>5, ReceiveInitDoes
  <2> QED
    BY <2>1, LeavesUntouched DEF BeingCopied
<1>6. CASE InitFails \/ CopyTrades \/ SetInitialized
  <2>1. /\ copy.stage # "upsert" /\ copy'.stage # "upsert" /\ copy'.orders = <<>>
        /\ UNCHANGED <<book, toBackend>>
    BY <1>6, InitFailsDoes, CopyTradesDoes, SetInitializedDoes
  <2> QED
    BY <2>1, LeavesUntouched, NoneIn DEF BeingCopied
<1>7. CASE CopyOrder
  <2>1. PICK n \in Orders :
           /\ copy.stage = "find" /\ copy.orders # <<>> /\ n = Head(copy.orders)
           /\ book' = book
           /\ \/ /\ copy'.stage = "find"
                 /\ copy'.orders = <<>> \/ copy'.orders = Tail(copy.orders)
                 /\ toBackend' = toBackend
              \/ /\ book[n] = Absent
                 /\ copy'.stage = "upsert" /\ copy'.orders = copy.orders
                 /\ toBackend' = Append(toBackend, New(n))
    BY <1>7, CopyOrderDoes
  <2>2. n \in ToSet(copy.orders) /\ ToSet(Tail(copy.orders)) \subseteq ToSet(copy.orders)
    BY <1>b, <2>1, TailSet
  <2>3. CASE /\ copy'.stage = "find"
             /\ copy'.orders = <<>> \/ copy'.orders = Tail(copy.orders)
             /\ toBackend' = toBackend
    BY <2>1, <2>2, <2>3, LeavesUntouched, NoneIn DEF BeingCopied
  <2>4. CASE /\ book[n] = Absent
             /\ copy'.stage = "upsert" /\ copy'.orders = copy.orders
             /\ toBackend' = Append(toBackend, New(n))
    <3>1. CASE n # o
      <4>1. ~BeingCopied(o)' /\ ~BeingCopied(o)
        BY <2>1, <2>4, <3>1 DEF BeingCopied
      <4>2. \E m \in Messages : m # New(o) /\ toBackend' = Append(toBackend, m)
        BY <1>m, <2>4, <3>1
      <4> QED
        BY <2>1, <2>4, <4>1, <4>2, LeavesUntouched
    <3>2. CASE n = o
      <4>1. ~Dead(o)
        BY <2>2, <2>4, <3>2 DEF Dead
      <4>2. BeingCopied(o)'
        BY <2>1, <2>4, <3>2 DEF BeingCopied
      <4>3. ASSUME DeadSoon(o) PROVE DeadSoon(o)'
        <5>1. PICK i \in 1..Len(toBackend) : toBackend[i] = Cancelling(o)
          BY <4>3 DEF DeadSoon
        <5>2. i \in 1..Len(toBackend') /\ toBackend'[i] = Cancelling(o)
          BY <1>b, <1>m, <2>4, <5>1, AppendSet, LenProperties
        <5> QED
          BY <4>2, <5>2 DEF DeadSoon
      <4> QED
        BY <1>f, <4>1, <4>3 DEF Leaves
    <3> QED
      BY <3>1, <3>2
  <2> QED
    BY <2>1, <2>3, <2>4
<1>8. CASE UpsertOrder
  <2>1. PICK n \in Orders :
           /\ copy.stage = "upsert" /\ copy.orders # <<>> /\ n = Head(copy.orders)
           /\ copy'.stage = "find" /\ copy'.orders = Tail(copy.orders)
           /\ book'[n] = Open(n) /\ \A x \in Orders : x # n => book'[x] = book[x]
           /\ toBackend' = toBackend
    BY <1>8, UpsertOrderDoes
  <2>2. CASE n # o
    <3>1. ~BeingCopied(o)' /\ ~BeingCopied(o) /\ book'[o] = book[o]
      BY <2>1, <2>2 DEF BeingCopied
    <3>2. o \in ToSet(copy'.orders) => o \in ToSet(copy.orders)
      BY <1>b, <2>1, TailSet
    <3> QED
      BY <2>1, <3>1, <3>2, LeavesUntouched
  <2>3. CASE n = o
    <3>1. ~Dead(o)
      BY <2>1, <2>3 DEF Dead, BeingCopied
    <3>2. DeadSoon(o) => DeadSoon(o)'
      BY <2>1, <2>3, SizeNat DEF DeadSoon
    <3> QED
      BY <1>f, <3>1, <3>2 DEF Leaves
  <2> QED
    BY <2>2, <2>3
<1>9. CASE HandleEvent
  <2>1. copy' = copy
    BY <1>9 DEF HandleEvent, NotInChain, HandleOrder, HandleCancel, HandleTrade, ReadOrAddOrder,
                ReadOrderWithRetries, RefuseTrade, ExecuteReplicatedTrade, InsertTrades, Store
  <2>2. book'[o] = book[o]
    <3>1. CASE ExecuteReplicatedTrade
      <4>1. handling.stage = "read" /\ next \in 1..Len(log)
        BY <3>1 DEF ExecuteReplicatedTrade, Handling, PlaceSound
      <4>2. ~IsTrade(Current, o)
        BY <4>1 DEF AtHand, News
      <4> QED
        BY <3>1, <4>2, ExecuteReplicatedTradeDoes
    <3>2. CASE ~ExecuteReplicatedTrade
      BY <1>9, <3>2 DEF HandleEvent, NotInChain, HandleOrder, HandleCancel, HandleTrade,
                ReadOrAddOrder, ReadOrderWithRetries, RefuseTrade, InsertTrades, Store
    <3> QED
      BY <3>1, <3>2
  <2>3. \/ toBackend' = toBackend
        \/ \E m \in Messages : m # New(o) /\ toBackend' = Append(toBackend, m)
    <3>1. CASE HandleOrder
      BY <1>m, <3>1, HandleOrderDoes DEF AtHand
    <3>2. CASE HandleCancel
      BY <1>m, <3>2, HandleCancelDoes
    <3>3. CASE ReadOrAddOrder
      <4>1. handling.stage = "read" /\ next \in 1..Len(log)
        BY <3>3 DEF ReadOrAddOrder, Handling, PlaceSound
      <4>2. ~IsTrade(Current, o)
        BY <4>1 DEF AtHand, News
      <4> QED
        BY <1>m, <3>3, <4>2, ReadOrAddOrderDoes
    <3>4. CASE \/ HandleTrade \/ ReadOrderWithRetries \/ RefuseTrade \/ ExecuteReplicatedTrade
               \/ InsertTrades \/ Store \/ NotInChain
      BY <3>4 DEF NotInChain, HandleTrade, ReadOrderWithRetries, RefuseTrade,
                  ExecuteReplicatedTrade, InsertTrades, Store
    <3> QED
      BY <1>9, <3>1, <3>2, <3>3, <3>4 DEF HandleEvent
  <2> QED
    BY <2>1, <2>2, <2>3, LeavesUntouched DEF BeingCopied
<1> QED
  BY <1>1, <1>2, <1>3, <1>4, <1>5, <1>6, <1>7, <1>8, <1>9, LeavesBackend DEF Next, Copy

LEMMA ShownKept ==
    ASSUME Types, PlaceSound, [Next]_vars, NEW o \in Orders, NEW e \in Remainders, Live(e),
           source[o] = e, Shown(o, e), ~AtHand(o), Cancelling(o) \notin ToSet(toBackend)
    PROVE  Forgiven(o)' \/ Shown(o, e)'
<1>e. e # Absent /\ e.status = "PARTIAL_FILLED"
  BY RemaindersAre
<1>1. CASE book[o] = e /\ ~BeingCopied(o)
  <2>1. book'[o] = e
    BY <1>1, <1>e, BookChanges
  <2>2. ~BeingCopied(o)'
    BY <1>1, <1>e, BeingCopiedChanges
  <2> QED
    BY <2>1, <2>2 DEF Shown
<1>2. CASE ~Asked /\ book[o] = Absent /\ New(o) \notin ToSet(toBackend)
  <2>1. CASE InitFromPeers
    <3>1. excused' = Excuse({n \in Orders : source[n].status = "PARTIAL_FILLED"}, "partly filled")
      BY <2>1, InitFromPeersDoes
    <3>2. <<o, "partly filled">> \in excused'
      BY <1>e, <3>1 DEF Excuse
    <3> QED
      BY <3>2 DEF Forgiven, Reasons
  <2>2. CASE ~InitFromPeers
    <3>1. ~Asked'
      BY <1>2, <2>2, AskedChanges
    <3>2. o \notin ToSet(copy.orders)
      BY <1>2, NoneIn DEF Asked, PlaceSound
    <3>3. book'[o] = Absent
      BY <1>2, <3>2, BookChanges
    <3>4. New(o) \notin ToSet(toBackend')
      <4>1. toBackend \in Seq(Messages)
        BY DEF Types
      <4>2. ASSUME NEW n \in Orders, toBackend' = Append(toBackend, New(n)), n # o
            PROVE  New(o) \notin ToSet(toBackend')
        BY <1>2, <4>1, <4>2, AppendSet, MessagesAre
      <4>3. ASSUME NEW n \in Orders, toBackend' = Append(toBackend, Cancelling(n))
            PROVE  New(o) \notin ToSet(toBackend')
        BY <1>2, <4>1, <4>3, AppendSet, MessagesAre
      <4>4. CASE toBackend' = <<>> \/ (toBackend # <<>> /\ toBackend' = Tail(toBackend))
        BY <1>2, <4>1, <4>4, NoneIn, TailSet
      <4> QED
        BY <1>2, <3>2, <4>2, <4>3, <4>4, QueueChanges
    <3> QED
      BY <3>1, <3>3, <3>4 DEF Shown
  <2> QED
    BY <2>1, <2>2
<1> QED
  BY <1>1, <1>2 DEF Shown
\* The last news is from before, unless the node has just handled it.
LEMMA LastNewsWas ==
    ASSUME Types, Types', PlaceSound, [Next]_vars,
           NEW o \in Orders, NEW k \in 1..Len(log'), LastNews(o, k)'
    PROVE  /\ k \in 1..Len(log) /\ log'[k] = log[k] /\ News(log[k], o)
           /\ \A j \in (k + 1)..Len(log) : ~News(log[j], o)
           /\ LastTrade(pending, o, 0)
           /\ Done(k) \/ ~Peer
<1>l. /\ Len(log) \in Nat /\ Len(log') \in Nat /\ Len(log) <= Len(log')
      /\ \A j \in 1..Len(log) : log'[j] = log[j]
  BY LogGrows
<1>n. /\ Done(k)' /\ News(log'[k], o) /\ LastTrade(pending', o, 0)
      /\ \A j \in (k + 1)..Len(log') : ~News(log'[j], o)
  BY DEF LastNews
<1>1. CASE Peer
  <2>1. k \in 1..Len(log) /\ Done(k)
    BY <1>1, <1>n, PeerNews
  <2>2. \A j \in (Len(log) + 1)..Len(log') : ~IsTrade(log'[j], o)
    BY <1>l, <1>n, <2>1 DEF News
  <2>3. LastTrade(pending, o, 0)
    BY <1>1, <1>n, <2>2, PeerNews
  <2>4. \A j \in (k + 1)..Len(log) : ~News(log[j], o)
    BY <1>l, <1>n, <2>1
  <2> QED
    BY <1>l, <1>n, <2>1, <2>3, <2>4
<1>2. CASE ~Peer
  <2>1. log' = log /\ pending' = pending
    BY <1>2, PeerRests DEF Next, peer
  <2> QED
    BY <1>2, <1>n, <2>1
<1> QED
  BY <1>1, <1>2

\* What the peer has when it has announced the last news of an order
LEMMA PeerHas ==
    ASSUME Types, SourceSound, KnownSound, NEW o \in Orders, NEW k \in 1..Len(log), News(log[k], o),
           \A j \in (k + 1)..Len(log) : ~News(log[j], o), LastTrade(pending, o, 0),
           ~Forgiven(o)
    PROVE  /\ source[o].status # "OPEN"
           /\ ~Final(log[k], o) =>
                 /\ Left(log[k], o) \in Remainders /\ Live(Left(log[k], o))
                 /\ source[o] = Left(log[k], o) /\ Cancelling(o) \notin ToSet(toBackend)
<1>l. Len(log) \in Nat /\ log[k] \in Announced
  BY LenProperties, ElementOfSeq DEF Types
<1>s. Recorded(o) /\ LateTrades(o) /\ LastMatch(o)
  BY DEF SourceSound, Sourced
<1>1. CASE IsCancel(log[k], o)
  <2>1. source[o].status = "CANCELLED"
    BY <1>1, <1>s DEF Recorded
  <2> QED
    BY <1>1, <2>1 DEF Final
<1>2. CASE ~IsCancel(log[k], o)
  <2>1. IsTrade(log[k], o)
    BY <1>2 DEF News
  <2>2. log[k] \in Matched
    BY <1>l, <2>1, EventKinds DEF IsTrade, IsOrder, IsCancel
  <2>3. Left(log[k], o) \in Remainders
    BY <2>2, TradeKind
  <2>4. LastTrade(log, o, k)
    BY DEF LastTrade, News
  <2>5. Reflects(o, Left(log[k], o))
    BY <1>s, <2>1, <2>4 DEF LastMatch
  <2>6. source[o].status # "OPEN"
    <3>1. CASE source[o] = Left(log[k], o)
      BY <2>3, <3>1, RemaindersAre
    <3>2. CASE source[o] = [Left(log[k], o) EXCEPT !.status = "CANCELLED"]
      BY <2>3, <3>2 DEF Remainders
    <3> QED
      BY <2>5, <3>1, <3>2 DEF Reflects
  <2>7. ASSUME \E j \in 1..Len(log) : IsCancel(log[j], o) PROVE Forgiven(o)
    <3>1. PICK j \in 1..Len(log) : IsCancel(log[j], o)
      BY <2>7
    <3>2. j < k
      BY <1>2, <1>l, <3>1 DEF News
    <3>3. <<o, "announced late">> \in excused
      BY <1>s, <2>1, <3>1, <3>2 DEF LateTrades
    <3> QED
      BY <3>3 DEF Forgiven, Reasons
  <2>8. ASSUME Live(Left(log[k], o)), ~Forgiven(o)
        PROVE  source[o] = Left(log[k], o) /\ Cancelling(o) \notin ToSet(toBackend)
    <3>1. ~\E j \in 1..Len(log) : IsCancel(log[j], o)
      BY <2>7, <2>8
    <3>2. Cancelling(o) \notin ToSet(toBackend)
      BY <3>1 DEF KnownSound
    <3>3. source[o].status # "CANCELLED"
      BY <1>s, <3>1 DEF Recorded
    <3>4. source[o] = Left(log[k], o)
      BY <2>3, <2>5, <3>3 DEF Reflects, Remainders
    <3> QED
      BY <3>2, <3>4
  <2> QED
    BY <1>2, <2>1, <2>3, <2>6, <2>8 DEF Final
<1> QED
  BY <1>1, <1>2

LEMMA FollowsKept ==
    ASSUME Types, Types', PlaceSound, SourceSound, KnownSound, NewsSound, [Next]_vars,
           NEW o \in Orders, NEW k \in 1..Len(log), LastNews(o, k), NEW e, e = log[k]
    PROVE  Follows(o, e)'
<1>l. Len(log) \in Nat
  BY LenProperties DEF Types
<1>1. Follows(o, e)
  BY DEF NewsSound
<1>4. CASE Forgiven(o)
  BY <1>4, ForgivenStays DEF Follows
<1>2. ~Forgiven(o) => ~AtHand(o)
  <2>1. SUFFICES ASSUME AtHand(o), ~Forgiven(o) PROVE FALSE
    OBVIOUS
  <2>2. /\ next \in 1..Len(log) /\ handling.stage \in {"idle", "read", "wait"}
        /\ IsOrder(log[next], o) \/ News(log[next], o)
    BY <2>1 DEF AtHand, Current
  <2>3. k < next
    BY <2>2 DEF LastNews, Done
  <2>4. IsOrder(log[next], o)
    BY <1>l, <2>2, <2>3 DEF LastNews
  <2> QED
    BY <2>1, <2>2, <2>3, <2>4, <1>l DEF LastNews, SourceSound, Sourced, Recorded
<1>3. ~Forgiven(o) =>
          /\ source[o].status # "OPEN"
          /\ ~Final(e, o) =>
                /\ Left(e, o) \in Remainders /\ Live(Left(e, o))
                /\ source[o] = Left(e, o) /\ Cancelling(o) \notin ToSet(toBackend)
  BY PeerHas DEF LastNews
<1>5. CASE ~Forgiven(o) /\ Final(e, o) /\ (Dead(o) \/ DeadSoon(o))
  <2>1. Leaves(o)'
    BY <1>2, <1>3, <1>5, LeavesKept DEF Leaves
  <2> QED
    BY <1>5, <2>1 DEF Leaves, Follows
<1>6. CASE ~Forgiven(o) /\ ~Final(e, o) /\ Shown(o, Left(e, o))
  <2>1. PICK x \in Remainders : x = Left(e, o)
    BY <1>3, <1>6
  <2>2. Forgiven(o)' \/ Shown(o, x)'
    BY <1>2, <1>3, <1>6, <2>1, ShownKept
  <2> QED
    BY <1>6, <2>1, <2>2 DEF Follows
<1> QED
  BY <1>1, <1>4, <1>5, <1>6 DEF Follows

LEMMA NewsStep ==
    ASSUME Types, Types', PlaceSound, PlaceSound', SourceSound, UntoldSound, KnownSound,
           NewsSound, [Next]_vars
    PROVE  NewsSound'
<1> SUFFICES ASSUME NEW o \in Orders, NEW k \in 1..Len(log'), LastNews(o, k)'
             PROVE  Follows(o, log[k])'
  BY DEF NewsSound
<1>1. /\ k \in 1..Len(log) /\ log'[k] = log[k] /\ News(log[k], o)
      /\ \A j \in (k + 1)..Len(log) : ~News(log[j], o)
      /\ LastTrade(pending, o, 0)
      /\ Done(k) \/ ~Peer
  BY LastNewsWas
<1>2. PICK e \in Announced : e = log[k]
  BY <1>1, ElementOfSeq DEF Types
<1>3. SUFFICES Follows(o, e)'
  BY <1>1, <1>2
<1>k. Final(e, o) \/ IsTrade(e, o)
  BY <1>1, <1>2 DEF News, Final
<1>4. CASE Done(k)
  <2>1. LastNews(o, k)
    BY <1>1, <1>4 DEF LastNews
  <2> QED
    BY <1>1, <1>2, <2>1, FollowsKept
<1>5. CASE Start /\ next = 0
  <2>1. /\ book'[o] = Absent /\ toBackend' = <<>> /\ ~initialized'
        /\ copy'.stage \in {"off", "ask"} /\ copy'.orders = <<>>
    BY <1>5 DEF Start, PlaceSound, NoCopy
  <2>2. ~BeingCopied(o)' /\ ToSet(copy'.orders) = {} /\ ToSet(toBackend') = {} /\ ~Asked'
    BY <2>1, NoneIn DEF BeingCopied, Asked
  <2>3. Dead(o)'
    BY <2>1, <2>2, AbsentIs DEF Dead
  <2>4. ASSUME NEW x PROVE Shown(o, x)'
    BY <2>1, <2>2 DEF Shown
  <2> QED
    BY <2>3, <2>4 DEF Follows
<1>6. CASE k = next /\ (HandleOrder \/ HandleCancel)
  <2>1. e = Current /\ News(Current, o)
    BY <1>1, <1>2, <1>6 DEF Current
  <2>2. HandleCancel
    BY <1>6, <2>1 DEF HandleOrder, Arrives, News, IsCancel, IsTrade
  <2>3. PICK n \in Orders : /\ IsCancel(Current, n)
                           /\ toBackend' = Append(toBackend, Cancelling(n))
    BY <2>2, HandleCancelDoes
  <2>4. n = o
    BY <2>1, <2>3 DEF News, IsCancel, IsTrade
  <2>5. toBackend \in Seq(Messages) /\ Cancelling(o) \in Messages
    BY MessagesAre DEF Types
  <2>6. /\ Len(toBackend) \in Nat /\ Len(toBackend') = Len(toBackend) + 1
        /\ toBackend'[Len(toBackend) + 1] = Cancelling(o)
    BY <2>3, <2>4, <2>5, AppendSet, LenProperties
  <2>7. DeadSoon(o)'
    <3>1. PICK i \in 1..Len(toBackend') : i = Len(toBackend')
      BY <2>6
    <3>2. toBackend'[i] = Cancelling(o) /\ \A j \in (i + 1)..Len(toBackend') : FALSE
      BY <2>6, <3>1
    <3> QED
      BY <3>2 DEF DeadSoon
  <2>8. Final(e, o)
    BY <2>1, <2>3, <2>4 DEF Final
  <2> QED
    BY <2>7, <2>8 DEF Follows
<1>7. CASE k = next /\ handling.stage \in {"read", "wait"} /\ Failed
  <2>1. Current = log[k] /\ Current.type = "trade"
    BY <1>7 DEF Current, PlaceSound
  <2>2. IsTrade(Current, o)
    BY <1>1, <2>1 DEF News, IsCancel
  <2>3. o \in ToSet(Current.orders)
    BY <1>7, <2>2, TradeAtHand
  <2> QED
    BY <1>7, <2>3, FailedExcuses DEF Follows
<1>11. CASE k = next /\ NotInChain
  <2>1. next \in untold /\ News(log[next], o)
    BY <1>1, <1>11, NotInChainDoes
  <2>2. Forgiven(o)
    BY <2>1 DEF UntoldSound, Forgiven, Reasons
  <2> QED
    BY <2>2, ForgivenStays DEF Follows
<1>8. CASE k = next /\ ExecuteReplicatedTrade
  <2>1. /\ handling.stage = "read"
        /\ \A n \in Orders : IF IsTrade(Current, n) THEN book'[n] = Left(Current, n)
                             ELSE book'[n] = book[n]
        /\ \A n \in Orders : IsTrade(Current, n) /\ BeingCopied(n)
                                 => <<n, "copied over">> \in excused'
        /\ copy' = copy
    BY <1>8, ExecuteReplicatedTradeDoes
  <2>2. e = Current /\ Current.type = "trade" /\ Current \in Matched
    BY <1>2, <1>8, <2>1, TradeAtHand DEF Current
  <2>3. IsTrade(e, o) /\ ~IsCancel(e, o)
    BY <1>1, <1>2, <2>2 DEF News, IsCancel
  <2>4. book'[o] = Left(e, o) /\ Left(e, o) \in Remainders
    BY <2>1, <2>2, <2>3, TradeKind
  <2>5. book'[o] # Absent
    BY <2>4, RemaindersAre
  <2>6. CASE BeingCopied(o)
    <3>1. <<o, "copied over">> \in excused'
      BY <2>1, <2>2, <2>3, <2>6
    <3> QED
      BY <3>1 DEF Follows, Forgiven, Reasons
  <2>7. CASE ~BeingCopied(o)
    <3>1. ~BeingCopied(o)'
      BY <2>1, <2>7 DEF BeingCopied
    <3>2. ~Live(Left(e, o)) => Dead(o)'
      BY <2>4, <2>5, <3>1 DEF Dead
    <3>3. \A x : x = Left(e, o) => Shown(o, x)'
      BY <2>4, <3>1 DEF Shown
    <3> QED
      BY <2>3, <3>2, <3>3 DEF Follows, Final
  <2> QED
    BY <2>6, <2>7
<1>9. Done(k)' /\ (~Done(k) => ~Peer)
  BY <1>1 DEF LastNews
<1>10. ASSUME ~Done(k)
       PROVE  \/ Start /\ next = 0
              \/ k = next /\ (HandleOrder \/ HandleCancel)
              \/ k = next /\ (ExecuteReplicatedTrade \/ NotInChain)
              \/ k = next /\ handling.stage \in {"read", "wait"} /\ Failed
  <2>1. \/ Start /\ next = 0
        \/ /\ k = next
           /\ \/ HandleOrder \/ HandleCancel \/ ExecuteReplicatedTrade \/ NotInChain
              \/ (ReadOrAddOrder \/ ReadOrderWithRetries \/ RefuseTrade) /\ Failed
    BY <1>1, <1>9, <1>10, DoneChanges
  <2>2. ReadOrAddOrder \/ ReadOrderWithRetries \/ RefuseTrade =>
            handling.stage \in {"read", "wait"}
    BY DEF ReadOrAddOrder, ReadOrderWithRetries, RefuseTrade, Handling
  <2> QED
    BY <2>1, <2>2
<1> QED
  BY <1>4, <1>5, <1>6, <1>7, <1>8, <1>10, <1>11

-----------------------------------------------------------------------------
(* The theorems *)

LEMMA InitIInv == Init => IInv
<1> SUFFICES ASSUME Init PROVE IInv
  OBVIOUS
<1>e. /\ Len(log) = 0 /\ Len(pending) = 0 /\ ToSet(toBackend) = {} /\ ToSet(copy.orders) = {}
      /\ copy.orders = <<>> /\ copy.stage = "off" /\ copy.trades = {}
      /\ handling.stage = "idle" /\ ~initialized /\ next = 0
  BY NoneIn DEF Init, NoCopy, Idle
<1>1. Types
  <2>1. /\ pending \in Seq(Matched) /\ log \in Seq(Announced)
        /\ toBackend \in Seq(Messages)
        /\ copy \in [stage : {"off", "ask", "answer", "find", "upsert", "flag"},
                     orders : Seq(Orders), trades : SUBSET Pairs]
        /\ handling \in [stage : Stages, k : 1..3]
    BY EmptySeq DEF Init, NoCopy, Idle, Stages
  <2>2. /\ source \in [Orders -> Entries] /\ book \in [Orders -> Entries]
    BY AbsentIs DEF Init
  <2>3. /\ initialized \in BOOLEAN /\ up \in BOOLEAN
        /\ settled \subseteq Pairs /\ trades \subseteq settled
    BY DEF Init
  <2>4. next \in 0..(Len(log) + 1)
    BY <1>e
  <2> QED
    BY <2>1, <2>2, <2>3, <2>4 DEF Types
<1>2. PlaceSound
  BY <1>e DEF Init, PlaceSound
<1>3. OrdersSound
  BY <1>e DEF OrdersSound
<1>4. SourceSound
  <2>1. \A o \in Orders : source[o] = Absent
    BY DEF Init
  <2>2. ~Live(Absent) /\ Absent.status # "CANCELLED"
    BY DEF Absent, Entry, Live
  <2> QED
    BY <1>e, <2>1, <2>2 DEF SourceSound, Sourced, Recorded, LateTrades, LastMatch
<1>9. UntoldSound
  BY DEF Init, UntoldSound
<1>5. KnownSound
  <2>1. \A o \in Orders : book[o] = Absent
    BY DEF Init
  <2> QED
    BY <1>e, <2>1 DEF KnownSound
<1>6. NewsSound
  BY <1>e DEF NewsSound
<1>7. OpenSound
  BY <1>e DEF OpenSound, Untouched
<1>8. TradesSound
  BY DEF Init, TradesSound
<1> QED
  BY <1>1, <1>2, <1>3, <1>4, <1>5, <1>6, <1>7, <1>8, <1>9 DEF IInv

LEMMA StepIInv == IInv /\ [Next]_vars => IInv'
<1> SUFFICES ASSUME IInv, [Next]_vars PROVE IInv'
  OBVIOUS
<1>0. /\ Types /\ PlaceSound /\ OrdersSound /\ SourceSound /\ UntoldSound /\ KnownSound
      /\ NewsSound /\ OpenSound /\ TradesSound
  BY DEF IInv
<1>1. Types'
  BY <1>0, TypesStep
<1>2. PlaceSound'
  BY <1>0, <1>1, PlaceStep
<1>3. OrdersSound'
  BY <1>0, <1>1, <1>2, OrdersStep
<1>4. SourceSound'
  BY <1>0, <1>1, SourceStep
<1>5. KnownSound'
  BY <1>0, <1>1, <1>4, KnownStep
<1>6. NewsSound'
  BY <1>0, <1>1, <1>2, NewsStep
<1>7. OpenSound'
  BY <1>0, <1>1, OpenStep
<1>8. TradesSound'
  BY <1>0, <1>1, <1>2, TradesStep
<1>9. UntoldSound'
  BY <1>0, <1>1, UntoldStep
<1> QED
  BY <1>1, <1>2, <1>3, <1>4, <1>5, <1>6, <1>7, <1>8, <1>9 DEF IInv

\* The parts of the invariant hold in every state: where the copy and the events
\* of the new node are, what the peer has announced, and what has come of it.
THEOREM Invariant == Spec => []IInv
  BY InitIInv, StepIInv, PTL DEF Spec

\* The node follows the log of its peer, has the orders of a trade before it
\* updates them, waits only for orders that the backend is going to insert, and
\* copies only while it is not initialized.
THEOREM TypeCorrect == Spec => []TypeOK
<1>1. IInv => TypeOK
  <2> SUFFICES ASSUME IInv PROVE TypeOK
    OBVIOUS
  <2>1. /\ source \in [Orders -> Entries] /\ book \in [Orders -> Entries]
        /\ settled \subseteq Pairs /\ trades \subseteq settled
        /\ next \in 0..(Len(log) + 1)
    BY DEF IInv, Types
  <2>2. /\ handling.stage # "idle" => up /\ next \in 1..Len(log)
        /\ copy.stage # "off" => up /\ ~initialized
    BY DEF IInv, PlaceSound
  <2>3. /\ handling.stage = "read" =>
              \A i \in 1..(handling.k - 1) : book[Current.orders[i]] # Absent
        /\ handling.stage = "wait" =>
              LET o == Current.orders[handling.k]
              IN  book[o] # Absent \/ Message("new", o) \in ToSet(toBackend)
    BY DEF IInv, OrdersSound, New
  <2> QED
    BY <2>1, <2>2, <2>3 DEF TypeOK
<1> QED
  BY <1>1, Invariant, PTL

\* The last news of an order, if there are any
LEMMA LastNewsExists ==
    ASSUME Types, NEW o \in Orders, \E k \in 1..Len(log) : News(log[k], o)
    PROVE  \E k \in 1..Len(log) : /\ News(log[k], o)
                                  /\ \A j \in (k + 1)..Len(log) : ~News(log[j], o)
<1> DEFINE N == {n \in Nat : \E k \in 1..Len(log) : n = Len(log) - k /\ News(log[k], o)}
<1>1. Len(log) \in Nat
  BY LenProperties DEF Types
<1>2. N \subseteq Nat /\ N # {}
  <2>1. PICK k \in 1..Len(log) : News(log[k], o)
    OBVIOUS
  <2>2. Len(log) - k \in N
    BY <1>1, <2>1
  <2> QED
    BY <2>2
<1>3. \E m \in N : \A n \in N : ~(n < m)
  <2>1. IsWellFoundedOn(OpToRel(<, Nat), Nat)
    BY NatLessThanWellFounded
  <2>2. \E m \in N : \A n \in N : <<n, m>> \notin OpToRel(<, Nat)
    BY <1>2, <2>1, WFMin
  <2> QED
    BY <1>2, <2>2 DEF OpToRel
<1>4. PICK m \in N : \A n \in N : ~(n < m)
  BY <1>3
<1>5. PICK k \in 1..Len(log) : m = Len(log) - k /\ News(log[k], o)
  BY <1>4
<1>6. ASSUME NEW j \in (k + 1)..Len(log), News(log[j], o) PROVE FALSE
  <2>1. Len(log) - j \in N
    BY <1>1, <1>6
  <2>2. Len(log) - j < m
    BY <1>1, <1>5, <1>6
  <2> HIDE DEF N
  <2> QED
    BY <1>4, <2>1, <2>2
<1> QED
  BY <1>5, <1>6

\* Once a new node has the order book and all events, it shows as live the orders
\* that are live at its matcher, with the same amounts, but for the excused ones
\* (initFromPeers, handleInitialOrders and handleEvent in replication.js).
THEOREM BookShown == Spec => []BookAgrees
<1>1. IInv => BookAgrees
  <2> SUFFICES ASSUME IInv, Quiet, NEW o \in Orders
               PROVE  \/ \E why \in Reasons : <<o, why>> \in excused
                      \/ IF Live(source[o]) THEN book[o] = source[o] ELSE ~Live(book[o])
    BY DEF BookAgrees
  <2>i. /\ Types /\ PlaceSound /\ SourceSound /\ KnownSound /\ NewsSound /\ OpenSound
    BY DEF IInv
  <2>f. CASE Forgiven(o)
    BY <2>f DEF Forgiven
  <2>s. ~Forgiven(o) => Recorded(o) /\ LateTrades(o) /\ LastMatch(o)
    BY <2>i DEF SourceSound, Sourced
  <2>l. Len(log) \in Nat
    BY <2>i, LenProperties DEF Types
  <2>q. /\ initialized /\ next = Len(log) + 1 /\ toBackend = <<>> /\ pending = <<>>
        /\ copy = NoCopy
    BY DEF Quiet
  <2>e. /\ ToSet(toBackend) = {} /\ ToSet(copy.orders) = {} /\ Asked /\ ~BeingCopied(o)
        /\ Len(toBackend) = 0 /\ LastTrade(pending, o, 0)
        /\ \A k \in 1..Len(log) : Done(k)
    BY <2>l, <2>q, NoneIn DEF NoCopy, Asked, BeingCopied, LastTrade, Done
  <2>1. CASE ~Forgiven(o) /\ \E k \in 1..Len(log) : News(log[k], o)
    <3>1. PICK k \in 1..Len(log) : /\ News(log[k], o)
                                   /\ \A j \in (k + 1)..Len(log) : ~News(log[j], o)
      BY <2>1, <2>i, LastNewsExists
    <3>2. Follows(o, log[k])
      BY <2>e, <2>i, <3>1 DEF NewsSound, LastNews
    <3>3. ~Final(log[k], o) => Live(Left(log[k], o)) /\ source[o] = Left(log[k], o)
      BY <2>e, <2>i, <2>1, <3>1, PeerHas
    <3>5. CASE Final(log[k], o)
      <4>1. ~DeadSoon(o)
        BY <2>e DEF DeadSoon
      <4>2. ~Live(book[o])
        BY <2>1, <3>2, <3>5, <4>1 DEF Follows, Dead
      <4>3. ~Live(source[o])
        <5>1. CASE IsCancel(log[k], o)
          BY <2>1, <2>s, <5>1 DEF Recorded, Live
        <5>2. CASE IsTrade(log[k], o) /\ ~Live(Left(log[k], o))
          <6>1. LastTrade(log, o, k)
            BY <3>1 DEF LastTrade, News
          <6>2. Reflects(o, Left(log[k], o))
            BY <2>1, <2>e, <2>s, <5>2, <6>1 DEF LastMatch
          <6> QED
            BY <5>2, <6>2 DEF Reflects
        <5> QED
          BY <3>5, <5>1, <5>2 DEF Final
      <4> QED
        BY <4>2, <4>3
    <3>6. CASE ~Final(log[k], o)
      BY <2>1, <2>e, <3>2, <3>3, <3>6 DEF Follows, Shown
    <3> QED
      BY <3>5, <3>6
  <2>2. CASE ~Forgiven(o) /\ ~\E k \in 1..Len(log) : News(log[k], o)
    <3>1. CASE \E k \in 1..Len(log) : IsOrder(log[k], o)
      <4>1. Untouched(o)
        BY <2>2, <2>e, <3>1 DEF Untouched
      <4>2. book[o] = Open(o)
        BY <2>2, <2>e, <2>i, <4>1 DEF OpenSound
      <4>3. source[o] # Absent /\ source[o].status # "CANCELLED"
        BY <2>2, <2>s, <3>1 DEF Recorded, News
      <4>4. LastTrade(log, o, 0)
        BY <2>2 DEF LastTrade, News
      <4>5. source[o] = Open(o)
        BY <2>2, <2>e, <2>s, <4>3, <4>4 DEF LastMatch, Reflects, Open, Entry
      <4>6. Live(Open(o))
        BY DEF Live, Open, Entry
      <4> QED
        BY <4>2, <4>5, <4>6
    <3>2. CASE ~\E k \in 1..Len(log) : IsOrder(log[k], o)
      <4>1. source[o] = Absent
        BY <2>2, <2>s, <3>2 DEF Recorded
      <4>2. book[o] = Absent
        BY <2>2, <2>i, <4>1 DEF KnownSound
      <4> QED
        BY <4>1, <4>2, AbsentIs
    <3> QED
      BY <3>1, <3>2
  <2> QED
    BY <2>f, <2>1, <2>2
<1> QED
  BY <1>1, Invariant, PTL

\* Then it has every settled trade too, but for those older than a week when it
\* asked, those that it refused, those announced without a unit or lost by a crash
\* of the peer, and those whose orders were not inserted in time
\* (handleInitialTrades, executeReplicatedTrade and readOrderWithRetries in
\* replication.js).
THEOREM TradesShown == Spec => []TradesComplete
<1>1. IInv => TradesComplete
  <2> SUFFICES ASSUME IInv, Quiet, NEW t \in settled \ trades
               PROVE  \E why \in TradeReasons : <<t, why>> \in excused
    BY DEF TradesComplete
  <2>1. Len(log) \in Nat
    BY LenProperties DEF IInv, Types
  <2>2. Answered /\ copy.stage = "off" /\ next = Len(log) + 1
    BY DEF Quiet, Answered, NoCopy
  <2>3. ~\E k \in 1..Len(log) : k >= next
    BY <2>1, <2>2
  <2>4. Lost(t)
    BY <2>2, <2>3 DEF IInv, TradesSound
  <2> QED
    BY <2>4 DEF Lost
<1> QED
  BY <1>1, Invariant, PTL
====
