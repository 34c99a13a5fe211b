---------------------------- MODULE OrderIntake ----------------------------
(***************************************************************************)
(* What users and peers hand to a matcher's wallet (orders.js, cancels.js, *)
(* chat.js, rpc.js): signed orders by chat, by RPC and from other          *)
(* matchers, signed cancels, and logins of the website by chat.  A message *)
(* whose signature is invalid is answered with an error and not modelled.  *)
(* What the wallet accepts by chat or RPC it also broadcasts: that is      *)
(* Create in module Replication.                                           *)
(*                                                                         *)
(* Orders are those of module DexAA, whose definitions say what the agent  *)
(* makes of two orders that the backend has matched.  One action is what   *)
(* the wallet does between two awaits.                                     *)
(***************************************************************************)
EXTENDS Integers, Sequences, FiniteSets, SequencesExt

CONSTANTS
    Me,            \* operator.getAddress()
    ThisAddress,   \* conf.aa_address
    Addresses,     \* of users and matchers
    Matchers,      \* the addresses that orders come from: ours, by chat and RPC, and peers'
    NoAddress,     \* an affiliate left out
    NoAsset,       \* an affiliate_fee_asset left out
    Assets,        \* the assets in the order of getFirstAsset: `base', then by name
    QuoteAssets,   \* arrQuoteAssets
    Orders,        \* signed orders that may be presented
    Digits,        \* conf.MAX_PRICE_PRECISION
    Scale,         \* bound: prices have that many decimal places before and after the point
    MatcherRate,    \* conf.matcher_fee
    MatcherRateMax, \* conf.matcher_fee_max
    AffiliateRate,  \* conf.affiliate_fee
    Sessions,      \* of the website
    Devices,       \* that are paired with the wallet
    Signers,       \* the <<owner, signer>> that are ever granted
    Cancellable,   \* bound: orders that anyone asks to cancel
    Members,       \* bound: addresses that anyone logs in with
    MaxTasks,      \* bound: messages in work at the same time
    MaxBook        \* bound: orders in the book

ASSUME OrderIntakeAssumption ==
    /\ Digits \in Nat \ {0} /\ Scale \in Nat
    /\ NoAsset \notin ToSet(Assets)
    /\ QuoteAssets \in Seq(ToSet(Assets))
    /\ \A o \in Orders :
          /\ {o.sell_asset, o.buy_asset} \subseteq ToSet(Assets)
          /\ {o.sell_amount, o.affiliate_fee} \subseteq Nat
          /\ o.price \in [num : Nat, den : Nat \ {0}]

\* The agent's definitions, at a time when no order has been executed.
Untouched == [id \in {<<o.address, o.sell_asset, o.buy_asset, o.sell_amount, o.price, o.nonce>> :
                        o \in Orders} |-> 0]

VARIABLES
    grants,     \* the agent's var['grant_' || owner || '_to_' || signer]
    book,       \* orders that the backend has
    \* memory
    intake,     \* calls of handleSignedOrder: [order, via, stage]
    cancels,    \* calls of handleSignedCancel: [order, via, signer]
    logins,     \* calls of handleSignedLogin: [session, address]
    session,    \* assocSessionIdByDeviceAddress
    owner,      \* assocAddressByOrderHash
    revocations,  \* the agent's responses that onAAResponse has yet to handle: the grant
    \* history
    loggedin,   \* <<session, address>> emitted as loggedin
    proven,     \* <<session, address>>: the device proved the address while it had the session
    overtaken,  \* orders past the lookup of their grant when the backend was told of a revocation
    lost        \* revoked grants whose response was not handled when the process ended

memory == <<intake, cancels, logins, session, owner, revocations>>
history == <<loggedin, proven, overtaken, lost>>
vars == <<grants, book, memory, history>>

AA == INSTANCE DexAA WITH
    Assets <- ToSet(Assets), Base <- Assets[1], Payments <- {}, Amounts <- {},
    Attached <- {}, MinBytes <- 0, AaFee <- 0, CancelFee <- 0, UnitFee <- 0, MaxFee <- 0,
    MaxTime <- 0, MaxHoldings <- [a \in ToSet(Assets) |-> 0], Signers <- Addresses,
    balance <- [k \in Addresses \X ToSet(Assets) |-> 0], amount_left <- Untouched,
    executed <- {}, cancelled <- {}, holdings <- [a \in ToSet(Assets) |-> 0],
    timestamp <- 0, trigger <- NoAddress,
    history <- [id \in {} |-> 0]

-----------------------------------------------------------------------------
(* Prices, and the order as the backend sees it *)

Ratio(n, d) == [num |-> n, den |-> d]
Reciprocal(p) == Ratio(p.den, p.num)
Less(p, q) == p.num * q.den < q.num * p.den
Same(p, q) == p.num * q.den = q.num * p.den

\* Powers of ten
TenTo[n \in 0..(Digits + 2 * Scale)] == IF n = 0 THEN 1 ELSE 10 * TenTo[n - 1]

\* The numbers that Digits significant digits can express
Expressible ==
    {Ratio(m * TenTo[k], TenTo[Scale]) :
        m \in TenTo[Digits - 1]..(TenTo[Digits] - 1), k \in 0..(2 * Scale)}

Distance(p, q) ==
    LET diff == p.num * q.den - q.num * p.den
    IN  Ratio(IF diff < 0 THEN -diff ELSE diff, p.den * q.den)

\* The nearest of them, the larger one of two
DropExcessivePrecision(p) ==
    LET nearest == {q \in Expressible : \A r \in Expressible : ~Less(Distance(r, p), Distance(q, p))}
    IN  CHOOSE q \in nearest : \A r \in nearest : ~Less(q, r)

GetFirstAsset(a, b) ==
    Assets[CHOOSE i \in 1..Len(Assets) :
        Assets[i] \in {a, b} /\ \A j \in 1..(i - 1) : Assets[j] \notin {a, b}]

\* getPriceInAllowedPrecision: a price has few digits when it is a price of the
\* first asset.
AllowedPrice ==
    [o \in Orders |->
        IF GetFirstAsset(o.sell_asset, o.buy_asset) = o.sell_asset
        THEN DropExcessivePrecision(o.price)
        ELSE Reciprocal(DropExcessivePrecision(Reciprocal(o.price)))]

\* The position of a in QuoteAssets, 0 if it is not a quote asset
Index(a) == SelectInSeq(QuoteAssets, LAMBDA q : q = a)

HasPair(o) == Index(o.sell_asset) > 0 \/ Index(o.buy_asset) > 0

\* The quote token is the one that is a quote asset or ranks higher.
BaseToken(o) ==
    LET i == Index(o.sell_asset)
        j == Index(o.buy_asset)
    IN  IF j = 0 THEN o.buy_asset
        ELSE IF i = 0 THEN o.sell_asset
        ELSE IF i > j THEN o.sell_asset ELSE o.buy_asset

Side(o) == IF o.sell_asset = BaseToken(o) THEN "SELL" ELSE "BUY"

\* getBackendOrder: a price in the quote token
BackendPrice ==
    [o \in {o \in Orders : HasPair(o)} |->
        DropExcessivePrecision(IF Side(o) = "SELL" THEN o.price ELSE Reciprocal(o.price))]

-----------------------------------------------------------------------------
(* getOrderError *)

Ceil(n, p) == -((-(n * p.num)) \div p.den)

\* The fee, at a rate, of an order whose fee is in asset; in a third asset it is not accepted.
ExpectedFee(o, asset, rate) ==
    IF asset = o.sell_asset THEN Ceil(o.sell_amount, rate)
    ELSE Ceil(o.sell_amount, Ratio(o.price.num * rate.num, o.price.den * rate.den))

Origins(o) == {o.matcher, o.affiliate}

PriceAccepted_Any(o) == o.price.num > 0    \* mutant: excessive precision is accepted

PriceAccepted(o) == o.price.num > 0 /\ Same(AllowedPrice[o], o.price)

MatcherFeeAccepted(o) ==
    /\ o.matcher_fee > 0
    /\ o.matcher_fee_asset \in {o.sell_asset, o.buy_asset}
    /\ IF o.matcher = Me
       THEN o.matcher_fee >= ExpectedFee(o, o.matcher_fee_asset, MatcherRate)
       ELSE o.matcher_fee <= ExpectedFee(o, o.matcher_fee_asset, MatcherRateMax)

\* The affiliate's fee is looked at if we are the affiliate; one that is left out,
\* 0 here, compares as large enough.
AffiliateFeeAccepted(o) ==
    o.affiliate = Me =>
        /\ o.affiliate_fee_asset \in {o.sell_asset, o.buy_asset}
        /\ \/ o.affiliate_fee = 0
           \/ o.affiliate_fee >= ExpectedFee(o, o.affiliate_fee_asset, AffiliateRate)

Acceptable(o, origin) ==
    /\ origin \in Origins(o)
    /\ o.aa = ThisAddress
    /\ o.sell_asset # o.buy_asset
    /\ o.sell_amount > 0
    /\ PriceAccepted(o)
    /\ MatcherFeeAccepted(o)
    /\ AffiliateFeeAccepted(o)

-----------------------------------------------------------------------------
Init ==
    /\ grants = {}
    /\ book = {}
    /\ intake = {}
    /\ cancels = {}
    /\ logins = {}
    /\ session = [d \in Devices |-> {}]
    /\ owner = [o \in Orders |-> {}]
    /\ loggedin = {}
    /\ proven = {}
    /\ revocations = {}
    /\ overtaken = {}
    /\ lost = {}

Idle == Cardinality(intake) + Cardinality(cancels) + Cardinality(logins) < MaxTasks

-----------------------------------------------------------------------------
(* handleSignedOrder *)

\* The origin is our own address by chat and RPC, and the peer's otherwise.
ReceiveOrder(o, origin) ==
    /\ Idle
    /\ Cardinality(book) < MaxBook
    /\ intake' = intake \cup {[order |-> o, origin |-> origin, stage |-> "signer"]}
    /\ UNCHANGED <<grants, book, cancels, logins, session, owner, revocations, history>>

\* isAuthorized reads the agent's grants.
CheckSigner(t) ==
    /\ t.stage = "signer"
    /\ intake' = (intake \ {t}) \cup
                     (IF t.order.signer = t.order.address \/
                         <<t.order.address, t.order.signer>> \in grants
                      THEN {[t EXCEPT !.stage = "rules"]} ELSE {})
    /\ UNCHANGED <<grants, book, cancels, logins, session, owner, revocations, history>>

RefuseOrder(t) ==
    /\ t.stage = "rules"
    /\ ~Acceptable(t.order, t.origin)
    /\ intake' = intake \ {t}
    /\ UNCHANGED <<grants, book, cancels, logins, session, owner, revocations, history>>

\* new_order goes to the backend.
AcceptOrder(t) ==
    /\ t.stage = "rules"
    /\ Acceptable(t.order, t.origin)
    /\ HasPair(t.order)
    /\ intake' = intake \ {t}
    /\ book' = book \cup {t.order}
    /\ UNCHANGED <<grants, cancels, logins, session, owner, revocations, history>>

\* The process ends, and starts again with nothing in memory: updateTradeStatuses
\* looks for missed responses to trades only.
Ends ==
    /\ intake' = {}
    /\ cancels' = {}
    /\ logins' = {}
    /\ session' = [d \in Devices |-> {}]
    /\ owner' = [o \in Orders |-> {}]
    /\ revocations' = {}
    /\ lost' = lost \cup revocations
    /\ UNCHANGED <<grants, book, loggedin, proven, overtaken>>

\* getPair throws where nobody catches.
NoPair(t) ==
    /\ t.stage = "rules"
    /\ Acceptable(t.order, t.origin)
    /\ ~HasPair(t.order)
    /\ Ends

Crash == Ends

-----------------------------------------------------------------------------
(* Grants *)

Grant(g) ==
    /\ g \in Signers
    /\ grants' = grants \cup {g}
    /\ UNCHANGED <<book, memory, history>>

SignedUnder(o, g) == o.address = g[1] /\ o.signer = g[2]

\* The backend takes the orders off the book.
Revoked(g) == book' = {o \in book : ~SignedUnder(o, g)}

\* onSavedUnit: the owner has sent a revocation.
SeeRevocation(g) ==
    /\ g \in grants
    /\ Revoked(g)
    /\ UNCHANGED <<grants, memory, history>>

\* The agent executes it.  Bound: one response to the same revocation at a time.
Revoke(g) ==
    /\ g \in grants \ revocations
    /\ grants' = grants \ {g}
    /\ revocations' = revocations \cup {g}
    /\ UNCHANGED <<book, intake, cancels, logins, session, owner, history>>

Overtaken(g) ==
    {t.order : t \in {t \in intake : t.stage = "rules" /\ SignedUnder(t.order, g)}}

HandleRevocation_Silent(g) ==    \* mutant: `revoke' is emitted when its unit is seen only
    /\ revocations' = revocations \ {g}
    /\ UNCHANGED <<grants, book, intake, cancels, logins, session, owner, history>>

\* onAAResponse, with the agent's response
HandleRevocation(g) ==
    /\ revocations' = revocations \ {g}
    /\ Revoked(g)
    /\ overtaken' = overtaken \cup Overtaken(g)
    /\ lost' = lost \ {g}
    /\ UNCHANGED <<grants, intake, cancels, logins, session, owner, loggedin, proven>>

-----------------------------------------------------------------------------
(* handleSignedCancel *)

\* onPaired, cancel-<hash>-<address>
AskToCancel(o, a) ==
    /\ owner' = [owner EXCEPT ![o] = {a}]
    /\ UNCHANGED <<grants, book, intake, cancels, logins, session, revocations, history>>

\* A signed cancel arrives by chat, or by RPC or from a peer.
ReceiveCancel(o, via, a) ==
    /\ Idle
    /\ cancels' = cancels \cup {[order |-> o, via |-> via, signer |-> a]}
    /\ UNCHANGED <<grants, book, intake, logins, session, owner, revocations, history>>

\* The signature is valid.  By chat the signer must be the address that was last
\* named for the order, from whatever device; the backend lets the owner cancel.
CompleteCancel(c) ==
    /\ cancels' = cancels \ {c}
    /\ book' = IF c.via = "chat" /\ owner[c.order] # {c.signer} THEN book
               ELSE {o \in book : ~(o = c.order /\ o.address = c.signer)}
    /\ UNCHANGED <<grants, intake, logins, session, owner, revocations, history>>

-----------------------------------------------------------------------------
(* Logins *)

\* onPaired with the session of the website
AskToLogIn(d, s) ==
    /\ session' = [session EXCEPT ![d] = {s}]
    /\ UNCHANGED <<grants, book, intake, cancels, logins, owner, revocations, history>>

\* A signed text arrives: the session is the one that the device has by now.
ReceiveLogin(d, a) ==
    /\ Idle
    /\ logins' = logins \cup {[device |-> d, session |-> s, address |-> a] : s \in session[d]}
    /\ proven' = proven \cup (session[d] \X {a})
    /\ UNCHANGED <<grants, book, intake, cancels, session, owner, revocations, loggedin, overtaken, lost>>

CompleteLogin_Late(l) ==    \* mutant: the session is looked up when the signature is valid
    /\ logins' = logins \ {l}
    /\ loggedin' = loggedin \cup (session[l.device] \X {l.address})
    /\ UNCHANGED <<grants, book, intake, cancels, session, owner, revocations, proven, overtaken, lost>>

CompleteLogin(l) ==
    /\ logins' = logins \ {l}
    /\ loggedin' = loggedin \cup {<<l.session, l.address>>}
    /\ UNCHANGED <<grants, book, intake, cancels, session, owner, revocations, proven, overtaken, lost>>

-----------------------------------------------------------------------------
Next ==
    \/ \E o \in Orders, m \in Matchers : ReceiveOrder(o, m)
    \/ \E t \in intake : CheckSigner(t) \/ RefuseOrder(t) \/ AcceptOrder(t) \/ NoPair(t)
    \/ \E g \in Signers : Grant(g) \/ SeeRevocation(g) \/ Revoke(g)
    \/ \E g \in revocations : HandleRevocation(g)
    \/ \E o \in Cancellable : \E a \in {o.address, o.matcher} :
        \/ AskToCancel(o, a)
        \/ \E via \in {"chat", "other"} : ReceiveCancel(o, via, a)
    \/ \E c \in cancels : CompleteCancel(c)
    \/ \E d \in Devices, s \in Sessions : AskToLogIn(d, s)
    \/ \E d \in Devices, a \in Members : ReceiveLogin(d, a)
    \/ \E l \in logins : CompleteLogin(l)
    \/ Crash

Spec == Init /\ [][Next]_vars

-----------------------------------------------------------------------------
(* Properties *)

\* What the backend matches: opposite orders of a pair, both for this matcher,
\* whose prices overlap.
Crosses(s, b) ==
    /\ s.matcher = Me /\ b.matcher = Me
    /\ s.sell_asset = b.buy_asset /\ s.buy_asset = b.sell_asset
    /\ Side(s) = "SELL"
    /\ ~Less(BackendPrice[b], BackendPrice[s])

\* dex.oscript wants the fee and its asset as soon as there is an affiliate.
AffiliateSettles(o) ==
    o.affiliate = NoAddress \/ (o.affiliate_fee_asset # NoAsset /\ o.affiliate_fee > 0)

\* Of whatever the wallet accepts and the backend matches, the agent accepts the
\* prices and the affiliates' fees, whichever order is the maker, unless: the pair is
\* quoted in its first asset, so that the backend's price is a rounded one; or one
\* order names an affiliate without his fee or, if that is not us, without the asset
\* of the fee.
MatchesSettle ==
    \A s, b \in book :
        Crosses(s, b) =>
            \/ AA!PricesMatch(s, b) /\ AA!PricesMatch(b, s)
                   /\ AffiliateSettles(s) /\ AffiliateSettles(b)
            \/ BaseToken(s) # GetFirstAsset(s.sell_asset, s.buy_asset)
            \/ \E o \in {s, b} : o.affiliate_fee = 0 /\ o.affiliate # NoAddress
            \/ \E o \in {s, b} : o.affiliate \notin {NoAddress, Me} /\ o.affiliate_fee_asset = NoAsset

\* The book has no order whose signer is not authorized by its owner, but for: one
\* that was between the lookup of the grant and new_order when the backend was told
\* of the revocation, hence before it knew the order; one under a grant whose
\* revocation the wallet has yet to handle; and one under a grant whose revocation
\* was lost because the process ended before it was handled.
BookAuthorized ==
    \A o \in book :
        \/ o.signer = o.address
        \/ <<o.address, o.signer>> \in grants
        \/ <<o.address, o.signer>> \in revocations \cup lost
        \/ o \in overtaken

\* The website is told of a login in a session only with an address that was
\* proven by the device while that session was the device's latest, even if
\* another one has begun while the signature was being validated.
LoginProven == loggedin \subseteq proven
============================================================================
