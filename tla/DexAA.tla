------------------------------- MODULE DexAA -------------------------------
(***************************************************************************)
(* The ODEX Autonomous Agent (dex.oscript): it keeps every user's deposits *)
(* in per-asset balances, executes the trades its matchers send it, and    *)
(* pays withdrawals out.  One action is one trigger that the agent accepts *)
(* (a bounced trigger changes no state variable of the agent and is a      *)
(* stutter here).  The DAG orders triggers, so actions are atomic.         *)
(***************************************************************************)
EXTENDS Integers, FiniteSets, Functions

CONSTANTS
    Addresses,    \* Obyte addresses: users, matchers, affiliates
    Assets,       \* assets that may be deposited or traded
    Base,         \* the base asset (bytes), in which fees are paid
    NoAsset,      \* what trigger.output[[asset!=base]] is when absent
    NoAddress,    \* an optional address field left out
    ThisAddress,  \* this_address, the address of the agent
    Orders,       \* validly signed order packages that users may produce
    Signers,      \* addresses that users authorize to sign for them
    Payments,     \* what a deposit may carry: [base, asset, amount]
    Amounts,      \* amounts asked for in a withdrawal, besides 'all'
    Attached,     \* bytes that any other trigger may carry
    MinBytes,     \* 10000, the smallest payment the agent's cases accept
    AaFee,        \* 1000, charged to each side of a trade
    CancelFee,    \* 1000, charged for an on-chain cancel
    UnitFee,      \* bytes that the agent's own payment unit costs
    MaxFee,       \* bound: largest matcher fee a matcher asks for
    MaxTime,      \* bound: last timestamp
    MaxHoldings   \* bound: what the agent may hold of each asset

Price == [num : Nat, den : Nat \ {0}]

OrderType ==
    [address : Addresses, signer : Addresses,
     sell_asset : Assets, buy_asset : Assets,
     sell_amount : Nat, price : Price, nonce : Nat,
     matcher : Addresses, matcher_fee : Nat, matcher_fee_asset : Assets,
     affiliate : Addresses \cup {NoAddress}, affiliate_fee : Nat,
     affiliate_fee_asset : Assets,
     aa : Addresses \cup {ThisAddress}, expiry_ts : Nat]

ASSUME ConstantsAssumption ==
    /\ IsFiniteSet(Addresses)
    /\ Base \in Assets
    /\ NoAsset \notin Assets
    /\ NoAddress \notin Addresses
    /\ Orders \subseteq OrderType
    /\ Payments \subseteq [base : Nat, asset : Assets \cup {NoAsset}, amount : Nat]
    /\ Signers \subseteq Addresses
    /\ Amounts \subseteq Nat \ {0}
    /\ Attached \subseteq Nat
    /\ {MinBytes, AaFee, CancelFee, UnitFee, MaxFee, MaxTime} \subseteq Nat
    /\ UnitFee <= MinBytes
    /\ CancelFee <= MinBytes
    /\ MaxHoldings \in [Assets -> Nat]

VARIABLES
    balance,      \* var['balance_' || address || '_' || asset]
    amount_left,  \* var['amount_left_' || id], 0 when it is not set
    executed,     \* ids with var['executed_' || id]
    cancelled,    \* ids with var['cancelled_' || id]
    grants,       \* <<owner, signer>> with var['grant_' || owner || '_to_' || signer]
    holdings,     \* what the agent's own address holds
    timestamp,    \* timestamp of the last stable unit
    trigger,      \* trigger.address of the last accepted trigger
    history       \* ghost: what each order sold and bought, in how many fills

orderVars == <<amount_left, executed, cancelled, history>>
vars == <<balance, orderVars, grants, holdings, timestamp, trigger>>

-----------------------------------------------------------------------------
(* Orders and their identity *)

\* $get_order_id hashes these fields only: two packages that differ in the
\* matcher, the fees, the signer or the expiry are the same order.
GetOrderId(o) ==
    <<o.address, o.sell_asset, o.buy_asset, o.sell_amount, o.price, o.nonce>>

Ids == {GetOrderId(o) : o \in Orders}

Expired(o) == o.expiry_ts # 0 /\ o.expiry_ts <= timestamp

Authorized(owner, actor) == actor = owner \/ <<owner, actor>> \in grants

AmountLeft(o) ==
    LET left == amount_left[GetOrderId(o)]
    IN  IF left = 0 THEN o.sell_amount ELSE left

-----------------------------------------------------------------------------
(* Oscript arithmetic: round() takes the nearest integer, halves to even *)

RoundDiv(n, d) ==
    LET q == n \div d
        r == n % d
    IN  IF 2 * r < d \/ (2 * r = d /\ q % 2 = 0) THEN q ELSE q + 1

Times(amount, price) == RoundDiv(amount * price.num, price.den)
Over(amount, price)  == RoundDiv(amount * price.den, price.num)

Fill_EqualIsLarger(o1, o2) ==    \* mutant: >= for >
    LET left1 == AmountLeft(o1)
        left2 == AmountLeft(o2)
        buy1  == Times(left1, o1.price)
        buy2  == Over(left2, o1.price)
    IN  IF buy1 >= left2
        THEN [smaller |-> o2, larger |-> o1, left_smaller |-> left2,
              left_larger |-> left1, sold1 |-> buy2, sold2 |-> left2,
              buy_smaller |-> buy2]
        ELSE [smaller |-> o1, larger |-> o2, left_smaller |-> left1,
              left_larger |-> left2, sold1 |-> left1, sold2 |-> buy1,
              buy_smaller |-> buy1]

\* The maker is order1 and the trade happens at its price.  The order that
\* can be filled completely is the smaller one.
Fill(o1, o2) ==
    LET left1 == AmountLeft(o1)
        left2 == AmountLeft(o2)
        buy1  == Times(left1, o1.price)
        buy2  == Over(left2, o1.price)
    IN  IF buy1 > left2
        THEN [smaller |-> o2, larger |-> o1, left_smaller |-> left2,
              left_larger |-> left1, sold1 |-> buy2, sold2 |-> left2,
              buy_smaller |-> buy2]
        ELSE [smaller |-> o1, larger |-> o2, left_smaller |-> left1,
              left_larger |-> left2, sold1 |-> left1, sold2 |-> buy1,
              buy_smaller |-> buy1]

PricesMatch_LargerOnly(o1, o2) ==    \* mutant: the crossing is not checked
    LET f == Fill(o1, o2)
    IN  Times(f.buy_smaller - 1, f.larger.price) <= f.left_smaller

\* Neither side gets less than its own price, but for rounding.
PricesMatch(o1, o2) ==
    LET f == Fill(o1, o2)
    IN  /\ RoundDiv(f.left_smaller * (o1.price.num * o2.price.num),
                    o1.price.den * o2.price.den) <= f.left_smaller
        /\ Times(f.buy_smaller - 1, f.larger.price) <= f.left_smaller

MaxMatcherFee(o, sold) == RoundDiv(o.matcher_fee * sold, o.sell_amount)

AffiliateFee(o, sold) ==
    IF o.affiliate = NoAddress THEN 0
    ELSE RoundDiv(o.affiliate_fee * sold, o.sell_amount)

-----------------------------------------------------------------------------
(* Moving money inside the agent *)

Credit(b, address, asset, amount) ==
    [b EXCEPT ![<<address, asset>>] = @ + amount]

Move(b, from, to, asset, amount) ==
    Credit(Credit(b, from, asset, -amount), to, asset, amount)

Receive(h, base) == [h EXCEPT ![Base] = @ + base]

Init ==
    /\ balance = [k \in Addresses \X Assets |-> 0]
    /\ amount_left = [id \in Ids |-> 0]
    /\ executed = {}
    /\ cancelled = {}
    /\ grants = {}
    /\ holdings = [a \in Assets |-> 0]
    /\ timestamp = 0
    /\ trigger = NoAddress
    /\ history = [id \in Ids |-> [sold |-> 0, bought |-> 0, fills |-> 0]]

-----------------------------------------------------------------------------
(* Deposits and grants *)

\* Coins with no data, with data.to, or with data.grant.
Credited(p, to) ==
    LET b == Credit(balance, to, Base, p.base)
    IN  IF p.asset \in {NoAsset, Base} THEN b ELSE Credit(b, to, p.asset, p.amount)

Received(p) ==
    LET h == Receive(holdings, p.base)
    IN  IF p.asset \in {NoAsset, Base} THEN h ELSE [h EXCEPT ![p.asset] = @ + p.amount]

Accept(p, from, to) ==
    /\ p.base >= MinBytes
    /\ balance' = Credited(p, to)
    /\ holdings' = Received(p)
    /\ \A a \in Assets : holdings'[a] <= MaxHoldings[a]
    /\ trigger' = from
    /\ UNCHANGED <<orderVars, timestamp>>

Deposit(from, to, p) ==
    /\ Accept(p, from, to)
    /\ UNCHANGED grants

Grant(from, signer, p) ==
    /\ signer # from
    /\ Accept(p, from, from)
    /\ grants' = grants \cup {<<from, signer>>}

Revoke(from, signer, base) ==
    /\ base >= MinBytes
    /\ signer # from
    /\ grants' = grants \ {<<from, signer>>}
    /\ holdings' = Receive(holdings, base)
    /\ holdings'[Base] <= MaxHoldings[Base]
    /\ trigger' = from
    /\ UNCHANGED <<balance, orderVars, timestamp>>

-----------------------------------------------------------------------------
(* Withdrawals *)

\* An authorized signer who names the owner as the recipient withdraws from
\* the owner's balance; anyone else withdraws from his own.
WithdrawalOwner(from, to) ==
    IF to # from /\ <<to, from>> \in grants THEN to ELSE from

\* data.amount is a positive number up to the balance, or 'all'; 'all' of
\* nothing pays nothing out.
AmountsOf_AnyAmount(owner, asset) ==    \* mutant: the balance is not compared
    {n \in Amounts \cup {balance[<<owner, asset>>]} : 0 < n}

AmountsOf(owner, asset) ==
    {n \in Amounts \cup {balance[<<owner, asset>>]} : 0 < n /\ n <= balance[<<owner, asset>>]}

Withdraw(from, to, asset, base) ==
    LET owner == WithdrawalOwner(from, to)
    IN  \E amount \in AmountsOf(owner, asset) :
        /\ base >= MinBytes
        /\ balance' = Credit(balance, owner, asset, -amount)
        /\ holdings' = [Receive(holdings, base - UnitFee) EXCEPT ![asset] = @ - amount]
        /\ holdings'[Base] <= MaxHoldings[Base]
        /\ trigger' = from
        /\ UNCHANGED <<orderVars, grants, timestamp>>

-----------------------------------------------------------------------------
(* Trades *)

Tradable_Cancelled(o, matcher) ==    \* mutant: cancelled_ is not read
    /\ o.sell_amount > 0
    /\ o.price.num > 0
    /\ o.matcher = matcher
    /\ o.aa = ThisAddress
    /\ ~Expired(o)
    /\ GetOrderId(o) \notin executed
    /\ AmountLeft(o) <= balance[<<o.address, o.sell_asset>>]
    /\ Authorized(o.address, o.signer)

Tradable_AnySigner(o, matcher) ==    \* mutant: grant_ is not read
    /\ o.sell_amount > 0
    /\ o.price.num > 0
    /\ o.matcher = matcher
    /\ o.aa = ThisAddress
    /\ ~Expired(o)
    /\ GetOrderId(o) \notin executed
    /\ GetOrderId(o) \notin cancelled
    /\ AmountLeft(o) <= balance[<<o.address, o.sell_asset>>]

\* The checks of one order that do not look at the other one.
Tradable(o, matcher) ==
    /\ o.sell_amount > 0
    /\ o.price.num > 0
    /\ o.matcher = matcher
    /\ o.aa = ThisAddress
    /\ ~Expired(o)
    /\ GetOrderId(o) \notin executed
    /\ GetOrderId(o) \notin cancelled
    /\ AmountLeft(o) <= balance[<<o.address, o.sell_asset>>]
    /\ Authorized(o.address, o.signer)

\* The whole `if' of the case, but for the matcher fees.
CanMatch(o1, o2, matcher) ==
    /\ o1.sell_asset = o2.buy_asset
    /\ o2.sell_asset = o1.buy_asset
    /\ o1.sell_asset # o1.buy_asset
    /\ Tradable(o1, matcher)
    /\ Tradable(o2, matcher)
    /\ PricesMatch(o1, o2)

Swapped_Amounts(o1, o2, f) ==    \* mutant: each side is credited what it sold
    LET paid == Credit(Credit(balance, o1.address, o1.sell_asset, -f.sold1),
                       o2.address, o2.sell_asset, -f.sold2)
    IN  Credit(Credit(paid, o1.address, o1.buy_asset, f.sold1),
               o2.address, o2.buy_asset, f.sold2)

\* The balances after each of the steps of the state message, in its order.
Swapped(o1, o2, f) ==
    Move(Move(balance, o1.address, o2.address, o1.sell_asset, f.sold1),
         o2.address, o1.address, o2.sell_asset, f.sold2)

WithMatcherFees(b, o1, o2, fee1, fee2) ==
    Move(Move(b, o1.address, o1.matcher, o1.matcher_fee_asset, fee1),
         o2.address, o2.matcher, o2.matcher_fee_asset, fee2)

WithAffiliateFee(b, o, fee) ==
    IF fee = 0 THEN b
    ELSE Move(b, o.address, o.affiliate, o.affiliate_fee_asset, fee)

WithAaFees(b, o1, o2) ==
    Credit(Credit(b, o1.address, Base, -AaFee), o2.address, Base, -AaFee)

OrderOutcome_LeftSmaller(f) ==    \* mutant: subtracts the other asset's amount
    LET smaller == GetOrderId(f.smaller)
        larger  == GetOrderId(f.larger)
        left    == f.left_larger - f.left_smaller
    IN  /\ left >= 0
        /\ executed' = executed \cup {smaller} \cup (IF left = 0 THEN {larger} ELSE {})
        /\ amount_left' = [amount_left EXCEPT ![smaller] = 0, ![larger] = left]

OrderOutcome_LargerStays(f) ==    \* mutant: the larger order is never executed
    LET smaller == GetOrderId(f.smaller)
        larger  == GetOrderId(f.larger)
        left    == f.left_larger - f.buy_smaller
    IN  /\ left >= 0
        /\ executed' = executed \cup {smaller}
        /\ amount_left' = [amount_left EXCEPT ![smaller] = 0, ![larger] = left]

\* What the two orders' entries become: the smaller is executed, the larger
\* keeps what it has not sold or is executed too.
OrderOutcome(f) ==
    LET smaller == GetOrderId(f.smaller)
        larger  == GetOrderId(f.larger)
        left    == f.left_larger - f.buy_smaller
    IN  /\ left >= 0
        /\ executed' = executed \cup {smaller} \cup (IF left = 0 THEN {larger} ELSE {})
        /\ amount_left' = [amount_left EXCEPT ![smaller] = 0, ![larger] = left]

Record(h, o, sold, bought) ==
    [h EXCEPT ![GetOrderId(o)] =
        [sold |-> @.sold + sold, bought |-> @.bought + bought, fills |-> @.fills + 1]]

Trade(matcher, o1, o2, fee1, fee2, base) ==
    /\ CanMatch(o1, o2, matcher)
    /\ LET f  == Fill(o1, o2)
           b1 == Swapped(o1, o2, f)
           b2 == WithMatcherFees(b1, o1, o2, fee1, fee2)
           b3 == WithAffiliateFee(b2, o1, AffiliateFee(o1, f.sold1))
           b4 == WithAffiliateFee(b3, o2, AffiliateFee(o2, f.sold2))
           b5 == WithAaFees(b4, o1, o2)
       IN  /\ fee1 <= MaxMatcherFee(o1, f.sold1)
           /\ fee2 <= MaxMatcherFee(o2, f.sold2)
           /\ \A o \in {o1, o2} :
                 /\ \A a \in {o.sell_asset, o.buy_asset} : b1[<<o.address, a>>] >= 0
                 /\ b2[<<o.address, o.matcher_fee_asset>>] >= 0
                 /\ b2[<<o.matcher, o.matcher_fee_asset>>] >= 0
                 /\ b5[<<o.address, Base>>] >= 0
           /\ b3[<<o1.address, o1.affiliate_fee_asset>>] >= 0
           /\ b4[<<o2.address, o2.affiliate_fee_asset>>] >= 0
           /\ balance' = Credit(b5, matcher, Base, base)
           /\ OrderOutcome(f)
           /\ history' = Record(Record(history, o1, f.sold1, f.sold2), o2, f.sold2, f.sold1)
    /\ holdings' = Receive(holdings, base)
    /\ holdings'[Base] <= MaxHoldings[Base]
    /\ trigger' = matcher
    /\ UNCHANGED <<cancelled, grants, timestamp>>

-----------------------------------------------------------------------------
(* On-chain cancels and the passing of time *)

Cancel(from, o, base) ==
    LET b == Credit(balance, o.address, Base, base - CancelFee)
    IN  /\ Authorized(o.address, from)
        /\ o.aa = ThisAddress
        /\ ~Expired(o)
        /\ GetOrderId(o) \notin executed
        /\ Authorized(o.address, o.signer)
        /\ b[<<o.address, Base>>] >= 0
        /\ cancelled' = cancelled \cup {GetOrderId(o)}
        /\ balance' = b
        /\ holdings' = Receive(holdings, base)
        /\ holdings'[Base] <= MaxHoldings[Base]
        /\ trigger' = from
        /\ UNCHANGED <<amount_left, executed, history, grants, timestamp>>

Tick ==
    /\ timestamp < MaxTime
    /\ timestamp' = timestamp + 1
    /\ UNCHANGED <<balance, orderVars, grants, holdings, trigger>>

Next ==
    \/ \E from, to \in Addresses, p \in Payments : Deposit(from, to, p)
    \/ \E from \in Addresses, signer \in Signers, p \in Payments : Grant(from, signer, p)
    \/ \E from \in Addresses, signer \in Signers, base \in Attached : Revoke(from, signer, base)
    \/ \E from, to \in Addresses, asset \in Assets, base \in Attached :
          Withdraw(from, to, asset, base)
    \/ \E matcher \in Addresses, o1, o2 \in Orders, base \in Attached :
          \E fee1, fee2 \in 0..MaxFee : Trade(matcher, o1, o2, fee1, fee2, base)
    \/ \E from \in Addresses, o \in Orders, base \in Attached : Cancel(from, o, base)
    \/ Tick

Spec == Init /\ [][Next]_vars

-----------------------------------------------------------------------------
(* Properties *)

\* Types; above all, no user's balance ever drops below zero, whatever parts
\* of a trade (swap, fees of both sides, self-match) touch the same balance.
TypeOK ==
    /\ balance \in [Addresses \X Assets -> Nat]
    /\ amount_left \in [Ids -> Nat]
    /\ executed \subseteq Ids
    /\ cancelled \subseteq Ids
    /\ grants \subseteq Addresses \X Addresses
    /\ holdings \in [Assets -> Int]
    /\ timestamp \in Nat
    /\ trigger \in Addresses \cup {NoAddress}
    /\ history \in [Ids -> [sold : Nat, bought : Nat, fills : Nat]]

\* The agent can always pay everybody out: of every asset it holds at least
\* the sum of the balances it has credited.
Solvency ==
    \A a \in Assets : SumFunctionOnSet(balance, Addresses \X {a}) <= holdings[a]

\* An order never sells more than its owner signed for, over all its fills and
\* all the packages that share its id, and it is executed exactly when it has
\* sold everything.
OrderBudget ==
    \A o \in Orders :
        LET id == GetOrderId(o)
        IN  history[id].sold
              = o.sell_amount - (IF id \in executed THEN 0 ELSE AmountLeft(o))

\* Over all its fills an order has bought what it sold times its own price, but
\* for rounding: at most the price of one unit and a half per fill is lost.
FairFill ==
    \A o \in Orders :
        LET h == history[GetOrderId(o)]
        IN  2 * o.price.den * h.bought
              >= 2 * o.price.num * h.sold - h.fills * (2 * o.price.num + o.price.den)

\* The bounce "panic: new_amount_left_larger < 0" is unreachable: the order
\* taken for the larger one never sells more than it has left.
NoPanic ==
    \A o1, o2 \in Orders :
        CanMatch(o1, o2, o1.matcher) =>
            Fill(o1, o2).buy_smaller <= Fill(o1, o2).left_larger

\* Once an order is executed or cancelled no package with its id trades again,
\* and it never comes back to life.
DeadOrdersNeverTrade ==
    [][/\ executed \subseteq executed' /\ cancelled \subseteq cancelled'
       /\ \A id \in executed \cup cancelled : history'[id] = history[id]]_vars

\* Nobody spends a user's balance without his authority: it decreases only in
\* a trigger of his own or of a signer he has granted, or through an order of
\* his that is alive, that he or a granted signer signed, and that names the
\* sender of the trigger as its matcher.
OnlyAuthorizedDebits ==
    [][\A u \in Addresses, a \in Assets :
          balance'[<<u, a>>] < balance[<<u, a>>] =>
              \/ Authorized(u, trigger')
              \/ \E o \in Orders :
                    /\ o.address = u
                    /\ o.matcher = trigger'
                    /\ Authorized(u, o.signer)
                    /\ GetOrderId(o) \notin executed \cup cancelled]_vars

\* The states and remaining amounts of the orders, as their users see them.
OrderState ==
    [id \in Ids |-> IF id \in executed THEN "executed"
                    ELSE IF id \in cancelled THEN "cancelled" ELSE "open"]

Remaining ==
    [id \in Ids |-> IF id \in executed THEN 0
                    ELSE IF amount_left[id] = 0 THEN id[4] ELSE amount_left[id]]

Life == INSTANCE OrderLife
            WITH Size <- [id \in Ids |-> id[4]], state <- OrderState, left <- Remaining

\* Every order lives the life that OrderLife promises: each trigger of the agent
\* is a match of two open orders, a cancel of an open one, or leaves all orders
\* as they are.  An order that was used up does not start anew with an
\* amount_left that is no longer set.
ImplementsOrderLife == Life!Spec
============================================================================
