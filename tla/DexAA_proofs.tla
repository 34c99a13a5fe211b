---------------------------- MODULE DexAA_proofs ----------------------------
(***************************************************************************)
(* Safety of the Autonomous Agent for any users, assets and orders: types  *)
(* and non-negative balances, solvency, the budget of an order, finality   *)
(* of executed and cancelled orders, who may spend a balance, and what a   *)
(* trade gives either side.                                                *)
(***************************************************************************)
EXTENDS DexAA, FiniteSetTheorems, WellFoundedInduction, TLAPS

Accounts == Addresses \X Assets

\* Every account but those of S holds a non-negative amount.
NonNegativeBut(b, S) ==
    /\ b \in [Accounts -> Int]
    /\ \A k \in Accounts \ S : b[k] >= 0

-----------------------------------------------------------------------------
(* Arithmetic and order operators *)

LEMMA RoundDivType ==
    ASSUME NEW n \in Nat, NEW d \in Nat \ {0}
    PROVE  RoundDiv(n, d) \in Nat
<1>1. n \div d \in Nat
  OBVIOUS
<1> QED
  BY <1>1 DEF RoundDiv

LEMMA OrderFields ==
    ASSUME NEW o \in Orders
    PROVE  /\ o \in OrderType
           /\ GetOrderId(o) \in Ids
           /\ o.price.num \in Nat
           /\ o.price.den \in Nat \ {0}
  BY ConstantsAssumption DEF OrderType, Price, Ids

LEMMA AmountLeftType ==
    ASSUME TypeOK, NEW o \in Orders
    PROVE  AmountLeft(o) \in Nat
  BY OrderFields DEF AmountLeft, TypeOK, OrderType

LEMMA FillType ==
    ASSUME TypeOK, NEW o1 \in Orders, NEW o2 \in Orders, o1.price.num > 0
    PROVE  /\ Fill(o1, o2).sold1 \in Nat
           /\ Fill(o1, o2).sold2 \in Nat
           /\ Fill(o1, o2).buy_smaller \in Nat
           /\ Fill(o1, o2).left_larger \in Nat
           /\ Fill(o1, o2).smaller \in Orders
           /\ Fill(o1, o2).larger \in Orders
<1>1. /\ AmountLeft(o1) \in Nat
      /\ AmountLeft(o2) \in Nat
  BY AmountLeftType
<1>2. /\ o1.price.num \in Nat \ {0}
      /\ o1.price.den \in Nat \ {0}
  BY OrderFields
<1>3. /\ AmountLeft(o1) * o1.price.num \in Nat
      /\ AmountLeft(o2) * o1.price.den \in Nat
  BY <1>1, <1>2
<1>4. /\ Times(AmountLeft(o1), o1.price) \in Nat
      /\ Over(AmountLeft(o2), o1.price) \in Nat
  BY <1>2, <1>3, RoundDivType DEF Times, Over
<1> QED
  BY <1>1, <1>4 DEF Fill

-----------------------------------------------------------------------------
(* The ledger: what a credit and a move do to the accounts *)

LEMMA CreditValue ==
    ASSUME NEW b \in [Accounts -> Int], NEW u \in Addresses, NEW a \in Assets,
           NEW n \in Int
    PROVE  /\ Credit(b, u, a, n) \in [Accounts -> Int]
           /\ Credit(b, u, a, n)[<<u, a>>] = b[<<u, a>>] + n
           /\ \A k \in Accounts : k # <<u, a>> => Credit(b, u, a, n)[k] = b[k]
<1>1. <<u, a>> \in Accounts
  BY DEF Accounts
<1> QED
  BY <1>1 DEF Credit

LEMMA CreditNonNegative ==
    ASSUME NEW S, NEW b, NonNegativeBut(b, S),
           NEW u \in Addresses, NEW a \in Assets, NEW n \in Nat
    PROVE  NonNegativeBut(Credit(b, u, a, n), S)
<1>1. /\ b \in [Accounts -> Int]
      /\ <<u, a>> \in Accounts
  BY DEF NonNegativeBut, Accounts
<1>2. /\ Credit(b, u, a, n) \in [Accounts -> Int]
      /\ Credit(b, u, a, n)[<<u, a>>] = b[<<u, a>>] + n
      /\ \A k \in Accounts : k # <<u, a>> => Credit(b, u, a, n)[k] = b[k]
  BY <1>1, CreditValue
<1>3. ASSUME NEW k \in Accounts \ S
      PROVE  Credit(b, u, a, n)[k] >= 0
  <2>1. b[k] >= 0 /\ b[k] \in Int
    BY <1>1 DEF NonNegativeBut
  <2> QED
    BY <2>1, <1>2
<1> QED
  BY <1>2, <1>3 DEF NonNegativeBut

LEMMA DebitNonNegative ==
    ASSUME NEW S, NEW b, NonNegativeBut(b, S),
           NEW u \in Addresses, NEW a \in Assets, NEW n \in Nat
    PROVE  NonNegativeBut(Credit(b, u, a, -n), S \cup {<<u, a>>})
<1>1. b \in [Accounts -> Int] /\ -n \in Int
  BY DEF NonNegativeBut
<1>2. /\ Credit(b, u, a, -n) \in [Accounts -> Int]
      /\ \A k \in Accounts : k # <<u, a>> => Credit(b, u, a, -n)[k] = b[k]
  BY <1>1, CreditValue
<1> QED
  BY <1>2 DEF NonNegativeBut

LEMMA MoveNonNegative ==
    ASSUME NEW S, NEW b, NonNegativeBut(b, S),
           NEW u \in Addresses, NEW v \in Addresses, NEW a \in Assets, NEW n \in Nat
    PROVE  NonNegativeBut(Move(b, u, v, a, n), S \cup {<<u, a>>})
  BY DebitNonNegative, CreditNonNegative DEF Move

LEMMA CheckedNonNegative ==
    ASSUME NEW S, NEW b, NonNegativeBut(b, S), \A k \in S : b[k] >= 0
    PROVE  NonNegativeBut(b, {})
  BY DEF NonNegativeBut

LEMMA NonNegativeIsNat ==
    ASSUME NEW b
    PROVE  NonNegativeBut(b, {}) <=> b \in [Accounts -> Nat]
  BY DEF NonNegativeBut

-----------------------------------------------------------------------------
(* A trade leaves no balance negative *)

LEMMA AffiliateFeeType ==
    ASSUME NEW o \in Orders, o.sell_amount > 0, NEW sold \in Nat
    PROVE  /\ AffiliateFee(o, sold) \in Nat
           /\ AffiliateFee(o, sold) # 0 => o.affiliate \in Addresses
<1>1. o \in OrderType
  BY OrderFields
<1>2. /\ o.sell_amount \in Nat \ {0}
      /\ o.affiliate_fee * sold \in Nat
  BY <1>1 DEF OrderType
<1>3. RoundDiv(o.affiliate_fee * sold, o.sell_amount) \in Nat
  BY <1>2, RoundDivType
<1> QED
  BY <1>1, <1>3 DEF AffiliateFee, OrderType

LEMMA AffiliateFeeNonNegative ==
    ASSUME NEW b, NonNegativeBut(b, {}), NEW o \in Orders, NEW fee \in Nat,
           fee # 0 => o.affiliate \in Addresses,
           WithAffiliateFee(b, o, fee)[<<o.address, o.affiliate_fee_asset>>] >= 0
    PROVE  NonNegativeBut(WithAffiliateFee(b, o, fee), {})
<1>1. CASE fee = 0
  BY <1>1 DEF WithAffiliateFee
<1>2. CASE fee # 0
  <2>1. /\ o.address \in Addresses
        /\ o.affiliate_fee_asset \in Assets
    BY OrderFields DEF OrderType
  <2>2. NonNegativeBut(Move(b, o.address, o.affiliate, o.affiliate_fee_asset, fee),
                       {} \cup {<<o.address, o.affiliate_fee_asset>>})
    BY <1>2, <2>1, MoveNonNegative
  <2>3. WithAffiliateFee(b, o, fee)
          = Move(b, o.address, o.affiliate, o.affiliate_fee_asset, fee)
    BY <1>2 DEF WithAffiliateFee
  <2> QED
    BY <2>2, <2>3, CheckedNonNegative
<1> QED
  BY <1>1, <1>2

LEMMA TradeBalances ==
    ASSUME TypeOK, NEW matcher \in Addresses, NEW o1 \in Orders, NEW o2 \in Orders,
           NEW fee1 \in Nat, NEW fee2 \in Nat, NEW base \in Nat,
           Trade(matcher, o1, o2, fee1, fee2, base)
    PROVE  balance' \in [Accounts -> Nat]
<1> DEFINE f  == Fill(o1, o2)
           b1 == Swapped(o1, o2, f)
           b2 == WithMatcherFees(b1, o1, o2, fee1, fee2)
           b3 == WithAffiliateFee(b2, o1, AffiliateFee(o1, f.sold1))
           b4 == WithAffiliateFee(b3, o2, AffiliateFee(o2, f.sold2))
           b5 == WithAaFees(b4, o1, o2)
<1>1. /\ o1 \in OrderType
      /\ o2 \in OrderType
  BY OrderFields
<1>2. /\ o1.sell_amount > 0 /\ o1.price.num > 0
      /\ o2.sell_amount > 0
  BY DEF Trade, CanMatch, Tradable
<1>3. f.sold1 \in Nat /\ f.sold2 \in Nat
  BY <1>2, FillType
<1>4. \A o \in {o1, o2} :
         /\ \A a \in {o.sell_asset, o.buy_asset} : b1[<<o.address, a>>] >= 0
         /\ b2[<<o.address, o.matcher_fee_asset>>] >= 0
         /\ b5[<<o.address, Base>>] >= 0
  BY DEF Trade
<1>5. /\ b3[<<o1.address, o1.affiliate_fee_asset>>] >= 0
      /\ b4[<<o2.address, o2.affiliate_fee_asset>>] >= 0
      /\ balance' = Credit(b5, matcher, Base, base)
  BY DEF Trade
<1> HIDE DEF f
<1>6. NonNegativeBut(balance, {})
  BY NonNegativeIsNat DEF TypeOK, Accounts
<1>7. NonNegativeBut(b1, {})
  <2>1. NonNegativeBut(Move(balance, o1.address, o2.address, o1.sell_asset, f.sold1),
                       {} \cup {<<o1.address, o1.sell_asset>>})
    BY <1>1, <1>3, <1>6, MoveNonNegative DEF OrderType
  <2>2. NonNegativeBut(b1, ({} \cup {<<o1.address, o1.sell_asset>>})
                               \cup {<<o2.address, o2.sell_asset>>})
    BY <1>1, <1>3, <2>1, MoveNonNegative DEF OrderType, Swapped
  <2> QED
    BY <1>4, <2>2, CheckedNonNegative
<1> HIDE DEF b1
<1>8. NonNegativeBut(b2, {})
  <2>1. NonNegativeBut(Move(b1, o1.address, o1.matcher, o1.matcher_fee_asset, fee1),
                       {} \cup {<<o1.address, o1.matcher_fee_asset>>})
    BY <1>1, <1>7, MoveNonNegative DEF OrderType
  <2>2. NonNegativeBut(b2, ({} \cup {<<o1.address, o1.matcher_fee_asset>>})
                               \cup {<<o2.address, o2.matcher_fee_asset>>})
    BY <1>1, <2>1, MoveNonNegative DEF OrderType, WithMatcherFees
  <2> QED
    BY <1>4, <2>2, CheckedNonNegative
<1> HIDE DEF b2
<1>9. NonNegativeBut(b3, {})
  BY <1>2, <1>3, <1>5, <1>8, AffiliateFeeType, AffiliateFeeNonNegative
<1> HIDE DEF b3
<1>10. NonNegativeBut(b4, {})
  BY <1>2, <1>3, <1>5, <1>9, AffiliateFeeType, AffiliateFeeNonNegative
<1> HIDE DEF b4
<1>11. AaFee \in Nat /\ Base \in Assets
  BY ConstantsAssumption
<1>12. NonNegativeBut(b5, {})
  <2>1. NonNegativeBut(Credit(b4, o1.address, Base, -AaFee),
                       {} \cup {<<o1.address, Base>>})
    BY <1>1, <1>10, <1>11, DebitNonNegative DEF OrderType
  <2>2. NonNegativeBut(b5, ({} \cup {<<o1.address, Base>>}) \cup {<<o2.address, Base>>})
    BY <1>1, <1>11, <2>1, DebitNonNegative DEF OrderType, WithAaFees
  <2> QED
    BY <1>4, <2>2, CheckedNonNegative
<1> HIDE DEF b5
<1>13. NonNegativeBut(balance', {})
  BY <1>5, <1>11, <1>12, CreditNonNegative
<1> QED
  BY <1>13, NonNegativeIsNat

-----------------------------------------------------------------------------
(* Type correctness *)

LEMMA HoldingsType ==
    ASSUME TypeOK, NEW n \in Int
    PROVE  Receive(holdings, n) \in [Assets -> Int]
  BY ConstantsAssumption DEF TypeOK, Receive

LEMMA AcceptType ==
    ASSUME TypeOK, NEW p \in Payments, NEW from \in Addresses, NEW to \in Addresses,
           Accept(p, from, to)
    PROVE  /\ balance' \in [Accounts -> Nat]
           /\ holdings' \in [Assets -> Int]
<1>1. /\ Base \in Assets
      /\ p.base \in Nat
      /\ p.asset \in Assets \cup {NoAsset}
      /\ p.amount \in Nat
  BY ConstantsAssumption
<1>2. NonNegativeBut(balance, {})
  BY NonNegativeIsNat DEF TypeOK, Accounts
<1>3. NonNegativeBut(Credited(p, to), {})
  <2>1. NonNegativeBut(Credit(balance, to, Base, p.base), {})
    BY <1>1, <1>2, CreditNonNegative
  <2>2. CASE p.asset \in {NoAsset, Base}
    BY <2>1, <2>2 DEF Credited
  <2>3. CASE p.asset \notin {NoAsset, Base}
    BY <1>1, <2>1, <2>3, CreditNonNegative DEF Credited
  <2> QED
    BY <2>2, <2>3
<1>4. Received(p) \in [Assets -> Int]
  BY <1>1, HoldingsType DEF Received
<1> QED
  BY <1>3, <1>4, NonNegativeIsNat DEF Accept

LEMMA WithdrawType ==
    ASSUME TypeOK, NEW from \in Addresses, NEW to \in Addresses, NEW asset \in Assets,
           NEW base \in Attached, Withdraw(from, to, asset, base)
    PROVE  /\ balance' \in [Accounts -> Nat]
           /\ holdings' \in [Assets -> Int]
<1> DEFINE owner == WithdrawalOwner(from, to)
<1>1. owner \in Addresses
  BY DEF WithdrawalOwner
<1>2. PICK amount \in AmountsOf(owner, asset) :
         /\ balance' = Credit(balance, owner, asset, -amount)
         /\ holdings' = [Receive(holdings, base - UnitFee) EXCEPT ![asset] = @ - amount]
  BY DEF Withdraw
<1> HIDE DEF owner
<1>3. /\ balance \in [Accounts -> Nat]
      /\ <<owner, asset>> \in Accounts
  BY <1>1 DEF TypeOK, Accounts
<1>4. /\ amount \in Nat
      /\ amount <= balance[<<owner, asset>>]
  BY <1>2, <1>3, ConstantsAssumption DEF AmountsOf
<1>5. balance' \in [Accounts -> Nat]
  <2>1. NonNegativeBut(balance', {} \cup {<<owner, asset>>})
    BY <1>1, <1>2, <1>3, <1>4, DebitNonNegative, NonNegativeIsNat
  <2>2. balance'[<<owner, asset>>] = balance[<<owner, asset>>] + (-amount)
    BY <1>1, <1>2, <1>3, <1>4, CreditValue
  <2>3. balance'[<<owner, asset>>] >= 0
    BY <1>3, <1>4, <2>2
  <2> QED
    BY <2>1, <2>3, CheckedNonNegative, NonNegativeIsNat
<1>6. base - UnitFee \in Int
  BY ConstantsAssumption
<1>7. holdings' \in [Assets -> Int]
  BY <1>2, <1>4, <1>6, HoldingsType
<1> QED
  BY <1>5, <1>7

LEMMA CancelType ==
    ASSUME TypeOK, NEW from \in Addresses, NEW o \in Orders, NEW base \in Attached,
           Cancel(from, o, base)
    PROVE  balance' \in [Accounts -> Nat]
<1>1. /\ o.address \in Addresses
      /\ Base \in Assets
      /\ base - CancelFee \in Int
      /\ balance \in [Accounts -> Nat]
  BY OrderFields, ConstantsAssumption DEF OrderType, TypeOK, Accounts
<1>2. /\ balance' = Credit(balance, o.address, Base, base - CancelFee)
      /\ balance'[<<o.address, Base>>] >= 0
  BY DEF Cancel
<1>3. /\ balance' \in [Accounts -> Int]
      /\ \A k \in Accounts : k # <<o.address, Base>> => balance'[k] = balance[k]
  BY <1>1, <1>2, CreditValue
<1> QED
  BY <1>1, <1>2, <1>3

LEMMA TradeOrders ==
    ASSUME TypeOK, NEW matcher \in Addresses, NEW o1 \in Orders, NEW o2 \in Orders,
           NEW fee1 \in Nat, NEW fee2 \in Nat, NEW base \in Nat,
           Trade(matcher, o1, o2, fee1, fee2, base)
    PROVE  /\ amount_left' \in [Ids -> Nat]
           /\ executed' \subseteq Ids
           /\ history' \in [Ids -> [sold : Nat, bought : Nat, fills : Nat]]
<1> DEFINE f == Fill(o1, o2)
<1>1. o1.price.num > 0
  BY DEF Trade, CanMatch, Tradable
<1>2. /\ f.sold1 \in Nat
      /\ f.sold2 \in Nat
      /\ f.buy_smaller \in Nat
      /\ f.left_larger \in Nat
      /\ GetOrderId(f.smaller) \in Ids
      /\ GetOrderId(f.larger) \in Ids
      /\ GetOrderId(o1) \in Ids
      /\ GetOrderId(o2) \in Ids
  BY <1>1, FillType, OrderFields
<1>3. /\ OrderOutcome(f)
      /\ history' = Record(Record(history, o1, f.sold1, f.sold2), o2, f.sold2, f.sold1)
  BY DEF Trade
<1> HIDE DEF f
<1>4. amount_left' \in [Ids -> Nat] /\ executed' \subseteq Ids
  BY <1>2, <1>3 DEF OrderOutcome, TypeOK
<1>5. Record(history, o1, f.sold1, f.sold2)
        \in [Ids -> [sold : Nat, bought : Nat, fills : Nat]]
  BY <1>2 DEF Record, TypeOK
<1>6. history' \in [Ids -> [sold : Nat, bought : Nat, fills : Nat]]
  BY <1>2, <1>3, <1>5 DEF Record
<1> QED
  BY <1>4, <1>6

LEMMA InitType == Init => TypeOK
  BY ConstantsAssumption DEF Init, TypeOK

LEMMA NextType == TypeOK /\ [Next]_vars => TypeOK'
<1> SUFFICES ASSUME TypeOK, [Next]_vars
             PROVE  TypeOK'
  OBVIOUS
<1> USE DEF TypeOK, orderVars
<1>1. Signers \subseteq Addresses /\ Attached \subseteq Nat /\ MaxFee \in Nat
  BY ConstantsAssumption
<1>2. ASSUME NEW from \in Addresses, NEW to \in Addresses, NEW p \in Payments,
             Deposit(from, to, p)
      PROVE  TypeOK'
  BY <1>2, AcceptType DEF Deposit, Accept, Accounts
<1>3. ASSUME NEW from \in Addresses, NEW signer \in Signers, NEW p \in Payments,
             Grant(from, signer, p)
      PROVE  TypeOK'
  BY <1>1, <1>3, AcceptType DEF Grant, Accept, Accounts
<1>4. ASSUME NEW from \in Addresses, NEW signer \in Signers, NEW base \in Attached,
             Revoke(from, signer, base)
      PROVE  TypeOK'
  BY <1>1, <1>4, HoldingsType DEF Revoke
<1>5. ASSUME NEW from \in Addresses, NEW to \in Addresses, NEW asset \in Assets,
             NEW base \in Attached, Withdraw(from, to, asset, base)
      PROVE  TypeOK'
  BY <1>5, WithdrawType DEF Withdraw, Accounts
<1>6. ASSUME NEW matcher \in Addresses, NEW o1 \in Orders, NEW o2 \in Orders,
             NEW base \in Attached, NEW fee1 \in 0..MaxFee, NEW fee2 \in 0..MaxFee,
             Trade(matcher, o1, o2, fee1, fee2, base)
      PROVE  TypeOK'
  <2>1. fee1 \in Nat /\ fee2 \in Nat /\ base \in Nat
    BY <1>1
  <2>2. balance' \in [Accounts -> Nat]
    BY <1>6, <2>1, TradeBalances
  <2>3. /\ amount_left' \in [Ids -> Nat]
        /\ executed' \subseteq Ids
        /\ history' \in [Ids -> [sold : Nat, bought : Nat, fills : Nat]]
    BY <1>6, <2>1, TradeOrders
  <2>4. holdings' \in [Assets -> Int]
    BY <1>6, <2>1, HoldingsType DEF Trade
  <2> QED
    BY <1>6, <2>2, <2>3, <2>4 DEF Trade, Accounts
<1>7. ASSUME NEW from \in Addresses, NEW o \in Orders, NEW base \in Attached,
             Cancel(from, o, base)
      PROVE  TypeOK'
  <2>1. balance' \in [Accounts -> Nat]
    BY <1>7, CancelType
  <2>2. holdings' \in [Assets -> Int]
    BY <1>1, <1>7, HoldingsType DEF Cancel
  <2> QED
    BY <1>7, <2>1, <2>2, OrderFields DEF Cancel, Accounts
<1>8. CASE Tick
  BY <1>8 DEF Tick
<1>9. CASE UNCHANGED vars
  BY <1>9 DEF vars
<1> QED
  BY <1>2, <1>3, <1>4, <1>5, <1>6, <1>7, <1>8, <1>9 DEF Next

\* No trigger drives a user's balance, or any other entry, out of its range.
THEOREM TypeCorrect == Spec => []TypeOK
  BY InitType, NextType, PTL DEF Spec

-----------------------------------------------------------------------------
(* The budget of an order and its finality *)

\* Equal ids mean equal amounts to sell and, at any moment, equal amounts left.
LEMMA SameId ==
    ASSUME NEW o \in Orders, NEW r \in Orders, GetOrderId(o) = GetOrderId(r)
    PROVE  /\ o.sell_amount = r.sell_amount
           /\ AmountLeft(o) = AmountLeft(r)
<1>1. o.sell_amount = r.sell_amount
  BY DEF GetOrderId
<1> QED
  BY <1>1 DEF AmountLeft

\* The step adds one fill to the history of o.
Traded(o, sold, bought) ==
    LET id == GetOrderId(o)
    IN  /\ history'[id].sold = history[id].sold + sold
        /\ history'[id].bought = history[id].bought + bought
        /\ history'[id].fills = history[id].fills + 1

LEMMA TradeHistory ==
    ASSUME TypeOK, NEW matcher \in Addresses, NEW o1 \in Orders, NEW o2 \in Orders,
           NEW fee1 \in Nat, NEW fee2 \in Nat, NEW base \in Nat,
           Trade(matcher, o1, o2, fee1, fee2, base)
    PROVE  /\ GetOrderId(o1) # GetOrderId(o2)
           /\ GetOrderId(o1) \notin executed \cup cancelled
           /\ GetOrderId(o2) \notin executed \cup cancelled
           /\ Traded(o1, Fill(o1, o2).sold1, Fill(o1, o2).sold2)
           /\ Traded(o2, Fill(o1, o2).sold2, Fill(o1, o2).sold1)
           /\ \A id \in Ids \ {GetOrderId(o1), GetOrderId(o2)} :
                 history'[id] = history[id]
<1> DEFINE id1 == GetOrderId(o1)
           id2 == GetOrderId(o2)
           s1 == Fill(o1, o2).sold1
           s2 == Fill(o1, o2).sold2
<1>1. CanMatch(o1, o2, matcher)
  BY DEF Trade
<1>2. o1.sell_asset # o2.sell_asset
  BY <1>1 DEF CanMatch
<1>3. id1 # id2
  BY <1>2 DEF GetOrderId
<1>4. /\ id1 \notin executed \cup cancelled
      /\ id2 \notin executed \cup cancelled
      /\ o1.price.num > 0
  BY <1>1 DEF CanMatch, Tradable
<1>5. /\ s1 \in Nat /\ s2 \in Nat
      /\ id1 \in Ids /\ id2 \in Ids
  BY <1>4, FillType, OrderFields
<1>6. history' = Record(Record(history, o1, s1, s2), o2, s2, s1)
  BY DEF Trade
<1> HIDE DEF s1, s2
<1>7. history' = [history EXCEPT
        ![id1] = [sold |-> history[id1].sold + s1, bought |-> history[id1].bought + s2,
                  fills |-> history[id1].fills + 1],
        ![id2] = [sold |-> history[id2].sold + s2, bought |-> history[id2].bought + s1,
                  fills |-> history[id2].fills + 1]]
  BY <1>3, <1>5, <1>6 DEF Record, TypeOK
<1> HIDE DEF id1, id2
<1>8. /\ Traded(o1, s1, s2)
      /\ Traded(o2, s2, s1)
      /\ \A id \in Ids \ {id1, id2} : history'[id] = history[id]
  BY <1>3, <1>5, <1>7 DEF TypeOK, Traded, id1, id2
<1> QED
  BY <1>3, <1>4, <1>8 DEF id1, id2, s1, s2

LEMMA TradeBudget ==
    ASSUME TypeOK, OrderBudget,
           NEW matcher \in Addresses, NEW o1 \in Orders, NEW o2 \in Orders,
           NEW fee1 \in Nat, NEW fee2 \in Nat, NEW base \in Nat,
           Trade(matcher, o1, o2, fee1, fee2, base)
    PROVE  OrderBudget'
<1> DEFINE f == Fill(o1, o2)
           small == GetOrderId(f.smaller)
           large == GetOrderId(f.larger)
           left == f.left_larger - f.buy_smaller
<1>1. o1.price.num > 0
  BY DEF Trade, CanMatch, Tradable
<1>2. /\ f.smaller \in Orders /\ f.larger \in Orders
      /\ small # large
      /\ small \notin executed /\ large \notin executed
      /\ small \in Ids /\ large \in Ids
      /\ f.left_smaller = AmountLeft(f.smaller)
      /\ f.left_larger = AmountLeft(f.larger)
      /\ f.buy_smaller \in Nat /\ f.left_larger \in Nat
      /\ history'[small].sold = history[small].sold + f.left_smaller
      /\ history'[large].sold = history[large].sold + f.buy_smaller
      /\ \A id \in Ids \ {small, large} : history'[id] = history[id]
  BY <1>1, TradeHistory, FillType, OrderFields DEF Fill, Traded
<1>3. /\ left >= 0
      /\ executed' = executed \cup {small} \cup (IF left = 0 THEN {large} ELSE {})
      /\ amount_left' = [amount_left EXCEPT ![small] = 0, ![large] = left]
  BY DEF Trade, OrderOutcome
<1> HIDE DEF f, small, large
<1>4. SUFFICES ASSUME NEW o \in Orders
      PROVE  history'[GetOrderId(o)].sold
               = o.sell_amount - (IF GetOrderId(o) \in executed' THEN 0
                                  ELSE AmountLeft(o)')
  BY DEF OrderBudget, GetOrderId
<1>5. /\ o.sell_amount \in Nat
      /\ GetOrderId(o) \in Ids
      /\ AmountLeft(o) \in Nat
      /\ history[GetOrderId(o)].sold
           = o.sell_amount - (IF GetOrderId(o) \in executed THEN 0 ELSE AmountLeft(o))
  BY OrderFields, AmountLeftType DEF OrderBudget, OrderType
<1>6. CASE GetOrderId(o) = small
  <2>1. f.left_smaller = AmountLeft(o)
    BY <1>2, <1>6, SameId DEF small
  <2> QED
    BY <1>2, <1>3, <1>5, <1>6, <2>1
<1>7. CASE GetOrderId(o) = large
  <2>1. f.left_larger = AmountLeft(o)
    BY <1>2, <1>7, SameId DEF large
  <2>2. history'[large].sold = o.sell_amount - left
    BY <1>2, <1>5, <1>7, <2>1
  <2>3. large \in executed' <=> left = 0
    BY <1>2, <1>3
  <2>4. left # 0 => AmountLeft(o)' = left
    BY <1>2, <1>3, <1>7 DEF AmountLeft, TypeOK, GetOrderId
  <2> QED
    BY <1>7, <2>2, <2>3, <2>4
<1>8. CASE GetOrderId(o) \notin {small, large}
  <2>1. AmountLeft(o)' = AmountLeft(o)
    BY <1>2, <1>3, <1>5, <1>8 DEF AmountLeft, TypeOK, GetOrderId
  <2> QED
    BY <1>2, <1>3, <1>5, <1>8, <2>1
<1> QED
  BY <1>6, <1>7, <1>8

LEMMA InitBudget == Init => OrderBudget
<1> SUFFICES ASSUME Init, NEW o \in Orders
             PROVE  history[GetOrderId(o)].sold
                      = o.sell_amount - (IF GetOrderId(o) \in executed THEN 0
                                         ELSE AmountLeft(o))
  BY DEF OrderBudget
<1>1. GetOrderId(o) \in Ids /\ o.sell_amount \in Nat
  BY OrderFields DEF OrderType
<1> QED
  BY <1>1 DEF Init, AmountLeft

LEMMA NextBudget == TypeOK /\ OrderBudget /\ [Next]_vars => OrderBudget'
<1> SUFFICES ASSUME TypeOK, OrderBudget, [Next]_vars
             PROVE  OrderBudget'
  OBVIOUS
<1>1. Attached \subseteq Nat /\ MaxFee \in Nat
  BY ConstantsAssumption
<1>2. ASSUME NEW matcher \in Addresses, NEW o1 \in Orders, NEW o2 \in Orders,
             NEW base \in Attached, NEW fee1 \in 0..MaxFee, NEW fee2 \in 0..MaxFee,
             Trade(matcher, o1, o2, fee1, fee2, base)
      PROVE  OrderBudget'
  <2>1. fee1 \in Nat /\ fee2 \in Nat /\ base \in Nat
    BY <1>1
  <2> QED
    BY <1>2, <2>1, TradeBudget
<1>3. CASE UNCHANGED <<amount_left, executed, history>>
  BY <1>3 DEF OrderBudget, AmountLeft, GetOrderId
<1> QED
  BY <1>2, <1>3 DEF Next, vars, orderVars, Deposit, Grant, Accept, Revoke, Withdraw,
                    Cancel, Tick

\* No order is ever filled beyond what its owner signed for, and it is marked
\* executed when, and only when, it has sold all of it.
THEOREM BudgetKept == Spec => []OrderBudget
<1>1. Init => TypeOK /\ OrderBudget
  BY InitType, InitBudget
<1>2. (TypeOK /\ OrderBudget) /\ [Next]_vars => (TypeOK /\ OrderBudget)'
  BY NextType, NextBudget
<1> QED
  BY <1>1, <1>2, PTL DEF Spec

LEMMA NextFinality ==
    ASSUME TypeOK, [Next]_vars
    PROVE  /\ executed \subseteq executed' /\ cancelled \subseteq cancelled'
           /\ \A id \in executed \cup cancelled : history'[id] = history[id]
<1>1. Attached \subseteq Nat /\ MaxFee \in Nat
  BY ConstantsAssumption
<1>2. ASSUME NEW matcher \in Addresses, NEW o1 \in Orders, NEW o2 \in Orders,
             NEW base \in Attached, NEW fee1 \in 0..MaxFee, NEW fee2 \in 0..MaxFee,
             Trade(matcher, o1, o2, fee1, fee2, base)
      PROVE  /\ executed \subseteq executed' /\ cancelled \subseteq cancelled'
             /\ \A id \in executed \cup cancelled : history'[id] = history[id]
  <2>1. fee1 \in Nat /\ fee2 \in Nat /\ base \in Nat
    BY <1>1
  <2>2. \A id \in executed \cup cancelled : history'[id] = history[id]
    BY <1>2, <2>1, TradeHistory DEF TypeOK
  <2> QED
    BY <1>2, <2>2 DEF Trade, OrderOutcome
<1>3. CASE UNCHANGED <<executed, history>> /\ cancelled \subseteq cancelled'
  BY <1>3
<1> QED
  BY <1>2, <1>3 DEF Next, vars, orderVars, Deposit, Grant, Accept, Revoke, Withdraw,
                    Cancel, Tick

\* An executed or cancelled order stays so and never trades again, whichever
\* of the packages with its id a matcher submits.
THEOREM Finality == Spec => DeadOrdersNeverTrade
<1>1. TypeOK /\ [Next]_vars
        => [/\ executed \subseteq executed' /\ cancelled \subseteq cancelled'
            /\ \A id \in executed \cup cancelled : history'[id] = history[id]]_vars
  BY NextFinality
<1> QED
  BY <1>1, TypeCorrect, PTL DEF Spec, DeadOrdersNeverTrade

-----------------------------------------------------------------------------
(* Who may spend a balance *)

\* b is nowhere below c, but possibly on the accounts of the addresses in U.
SpentOnlyBy(U, b, c) ==
    /\ b \in [Accounts -> Int]
    /\ \A u \in Addresses \ U, a \in Assets : b[<<u, a>>] >= c[<<u, a>>]

LEMMA CreditSpends ==
    ASSUME NEW U, NEW c \in [Accounts -> Int], NEW b, SpentOnlyBy(U, b, c),
           NEW u \in Addresses, NEW a \in Assets, NEW n \in Int, u \in U \/ n >= 0
    PROVE  SpentOnlyBy(U, Credit(b, u, a, n), c)
<1>1. b \in [Accounts -> Int]
  BY DEF SpentOnlyBy
<1>2. /\ Credit(b, u, a, n) \in [Accounts -> Int]
      /\ Credit(b, u, a, n)[<<u, a>>] = b[<<u, a>>] + n
      /\ \A k \in Accounts : k # <<u, a>> => Credit(b, u, a, n)[k] = b[k]
  BY <1>1, CreditValue
<1>3. ASSUME NEW v \in Addresses \ U, NEW d \in Assets
      PROVE  Credit(b, u, a, n)[<<v, d>>] >= c[<<v, d>>]
  <2>1. /\ <<v, d>> \in Accounts
        /\ b[<<v, d>>] >= c[<<v, d>>]
        /\ b[<<v, d>>] \in Int /\ c[<<v, d>>] \in Int
    BY <1>1 DEF SpentOnlyBy, Accounts
  <2>2. CASE <<v, d>> = <<u, a>>
    BY <1>2, <2>1, <2>2
  <2>3. CASE <<v, d>> # <<u, a>>
    BY <1>2, <2>1, <2>3
  <2> QED
    BY <2>2, <2>3
<1> QED
  BY <1>2, <1>3 DEF SpentOnlyBy

LEMMA MoveSpends ==
    ASSUME NEW U, NEW c \in [Accounts -> Int], NEW b, SpentOnlyBy(U, b, c),
           NEW u \in Addresses, NEW v \in Addresses, NEW a \in Assets, NEW n \in Nat,
           u \in U
    PROVE  SpentOnlyBy(U, Move(b, u, v, a, n), c)
<1>1. SpentOnlyBy(U, Credit(b, u, a, -n), c)
  BY CreditSpends
<1> QED
  BY <1>1, CreditSpends DEF Move

LEMMA TradeSpends ==
    ASSUME TypeOK, NEW matcher \in Addresses, NEW o1 \in Orders, NEW o2 \in Orders,
           NEW fee1 \in Nat, NEW fee2 \in Nat, NEW base \in Nat,
           Trade(matcher, o1, o2, fee1, fee2, base)
    PROVE  SpentOnlyBy({o1.address, o2.address}, balance', balance)
<1> DEFINE U == {o1.address, o2.address}
           f  == Fill(o1, o2)
           b1 == Swapped(o1, o2, f)
           b2 == WithMatcherFees(b1, o1, o2, fee1, fee2)
           n1 == AffiliateFee(o1, f.sold1)
           n2 == AffiliateFee(o2, f.sold2)
           b3 == WithAffiliateFee(b2, o1, n1)
           b4 == WithAffiliateFee(b3, o2, n2)
           b5 == WithAaFees(b4, o1, o2)
<1>1. /\ o1 \in OrderType
      /\ o2 \in OrderType
      /\ Base \in Assets /\ -AaFee \in Int
      /\ balance \in [Accounts -> Int]
  BY OrderFields, ConstantsAssumption DEF TypeOK, Accounts
<1>2. /\ o1.sell_amount > 0 /\ o1.price.num > 0
      /\ o2.sell_amount > 0
  BY DEF Trade, CanMatch, Tradable
<1>3. f.sold1 \in Nat /\ f.sold2 \in Nat
  BY <1>2, FillType
<1>4. /\ n1 \in Nat /\ (n1 # 0 => o1.affiliate \in Addresses)
      /\ n2 \in Nat /\ (n2 # 0 => o2.affiliate \in Addresses)
  BY <1>2, <1>3, AffiliateFeeType
<1>5. balance' = Credit(b5, matcher, Base, base)
  BY DEF Trade
<1> HIDE DEF f, n1, n2
<1>6. SpentOnlyBy(U, b1, balance)
  <2>1. SpentOnlyBy(U, balance, balance)
    BY <1>1 DEF SpentOnlyBy, Accounts
  <2>2. SpentOnlyBy(U, Move(balance, o1.address, o2.address, o1.sell_asset, f.sold1),
                    balance)
    BY <1>1, <1>3, <2>1, MoveSpends DEF OrderType
  <2> QED
    BY <1>1, <1>3, <2>2, MoveSpends DEF OrderType, Swapped
<1> HIDE DEF b1
<1>7. SpentOnlyBy(U, b2, balance)
  <2>1. SpentOnlyBy(U, Move(b1, o1.address, o1.matcher, o1.matcher_fee_asset, fee1),
                    balance)
    BY <1>1, <1>6, MoveSpends DEF OrderType
  <2> QED
    BY <1>1, <2>1, MoveSpends DEF OrderType, WithMatcherFees
<1> HIDE DEF b2
<1>8. SpentOnlyBy(U, b3, balance)
  BY <1>1, <1>4, <1>7, MoveSpends DEF OrderType, WithAffiliateFee
<1> HIDE DEF b3
<1>9. SpentOnlyBy(U, b4, balance)
  BY <1>1, <1>4, <1>8, MoveSpends DEF OrderType, WithAffiliateFee
<1> HIDE DEF b4
<1>10. SpentOnlyBy(U, b5, balance)
  <2>1. SpentOnlyBy(U, Credit(b4, o1.address, Base, -AaFee), balance)
    BY <1>1, <1>9, CreditSpends DEF OrderType
  <2> QED
    BY <1>1, <2>1, CreditSpends DEF OrderType, WithAaFees
<1> HIDE DEF b5
<1> QED
  BY <1>1, <1>5, <1>10, CreditSpends

\* Some live order of u's, signed with his authority, names this matcher.
LiveOrder(u, matcher) ==
    \E o \in Orders :
        /\ o.address = u
        /\ o.matcher = matcher
        /\ Authorized(u, o.signer)
        /\ GetOrderId(o) \notin executed \cup cancelled

LEMMA NextSpends ==
    ASSUME TypeOK, [Next]_vars, NEW u \in Addresses, NEW a \in Assets,
           balance'[<<u, a>>] < balance[<<u, a>>]
    PROVE  Authorized(u, trigger') \/ LiveOrder(u, trigger')
<1> DEFINE Goal == Authorized(u, trigger') \/ LiveOrder(u, trigger')
<1>1. /\ Attached \subseteq Nat /\ MaxFee \in Nat
      /\ Signers \subseteq Addresses
      /\ balance \in [Accounts -> Int]
      /\ Base \in Assets
  BY ConstantsAssumption DEF TypeOK, Accounts
<1>2. /\ balance[<<u, a>>] \in Int
      /\ <<u, a>> \in Accounts
  BY <1>1 DEF Accounts
<1>3. \A U : SpentOnlyBy(U, balance', balance) => u \in U
  BY <1>2 DEF SpentOnlyBy, Accounts
<1>4. SpentOnlyBy({}, balance, balance)
  BY <1>1 DEF SpentOnlyBy, Accounts
<1>5. ASSUME NEW from \in Addresses, NEW to \in Addresses, NEW p \in Payments,
             Accept(p, from, to)
      PROVE  FALSE
  <2>1. /\ p.base \in Nat /\ p.amount \in Nat
        /\ p.asset \in Assets \cup {NoAsset}
    BY ConstantsAssumption
  <2>2. SpentOnlyBy({}, Credit(balance, to, Base, p.base), balance)
    BY <1>1, <1>4, <2>1, CreditSpends
  <2>3. SpentOnlyBy({}, Credited(p, to), balance)
    <3>1. CASE p.asset \in {NoAsset, Base}
      BY <2>2, <3>1 DEF Credited
    <3>2. CASE p.asset \notin {NoAsset, Base}
      BY <1>1, <2>1, <2>2, <3>2, CreditSpends DEF Credited
    <3> QED
      BY <3>1, <3>2
  <2> QED
    BY <1>3, <1>5, <2>3 DEF Accept
<1>6. ASSUME NEW from \in Addresses, NEW to \in Addresses, NEW asset \in Assets,
             NEW base \in Attached, Withdraw(from, to, asset, base)
      PROVE  Goal
  <2> DEFINE owner == WithdrawalOwner(from, to)
  <2>1. owner \in Addresses /\ Authorized(owner, from)
    BY DEF WithdrawalOwner, Authorized
  <2>2. PICK amount \in AmountsOf(owner, asset) :
           /\ balance' = Credit(balance, owner, asset, -amount)
           /\ trigger' = from
    BY <1>6 DEF Withdraw
  <2> HIDE DEF owner
  <2>3. amount \in Int
    <3>1. <<owner, asset>> \in Accounts
      BY <2>1 DEF Accounts
    <3>2. balance[<<owner, asset>>] \in Int
      BY <1>1, <3>1
    <3> QED
      BY <2>2, <3>2, ConstantsAssumption DEF AmountsOf
  <2>4. SpentOnlyBy({owner}, balance, balance)
    BY <1>1 DEF SpentOnlyBy, Accounts
  <2>5. SpentOnlyBy({owner}, balance', balance)
    BY <1>1, <2>1, <2>2, <2>3, <2>4, CreditSpends
  <2> QED
    BY <1>3, <2>1, <2>2, <2>5
<1>7. ASSUME NEW matcher \in Addresses, NEW o1 \in Orders, NEW o2 \in Orders,
             NEW base \in Attached, NEW fee1 \in 0..MaxFee, NEW fee2 \in 0..MaxFee,
             Trade(matcher, o1, o2, fee1, fee2, base)
      PROVE  Goal
  <2>1. fee1 \in Nat /\ fee2 \in Nat /\ base \in Nat
    BY <1>1
  <2>2. u \in {o1.address, o2.address}
    BY <1>3, <1>7, <2>1, TradeSpends
  <2>3. /\ Tradable(o1, matcher) /\ Tradable(o2, matcher)
        /\ trigger' = matcher
    BY <1>7 DEF Trade, CanMatch
  <2> QED
    BY <2>2, <2>3 DEF Tradable, LiveOrder
<1>8. ASSUME NEW from \in Addresses, NEW o \in Orders, NEW base \in Attached,
             Cancel(from, o, base)
      PROVE  Goal
  <2>1. /\ o.address \in Addresses
        /\ base - CancelFee \in Int
    BY <1>1, OrderFields, ConstantsAssumption DEF OrderType
  <2>2. SpentOnlyBy({o.address}, balance, balance)
    BY <1>1 DEF SpentOnlyBy, Accounts
  <2>3. SpentOnlyBy({o.address}, balance', balance)
    BY <1>1, <1>8, <2>1, <2>2, CreditSpends DEF Cancel
  <2> QED
    BY <1>3, <1>8, <2>3 DEF Cancel
<1>9. CASE balance' = balance
  BY <1>2, <1>9
<1> QED
  BY <1>1, <1>5, <1>6, <1>7, <1>8, <1>9
     DEF Next, vars, Deposit, Grant, Revoke, Tick

\* A balance is spent only with its owner's authority.
THEOREM Authority == Spec => OnlyAuthorizedDebits
<1>1. TypeOK /\ [Next]_vars
        => [\A u \in Addresses, a \in Assets :
               balance'[<<u, a>>] < balance[<<u, a>>] =>
                   \/ Authorized(u, trigger')
                   \/ \E o \in Orders :
                        /\ o.address = u
                        /\ o.matcher = trigger'
                        /\ Authorized(u, o.signer)
                        /\ GetOrderId(o) \notin executed \cup cancelled]_vars
  BY NextSpends DEF LiveOrder
<1> QED
  BY <1>1, TypeCorrect, PTL DEF Spec, OnlyAuthorizedDebits
-----------------------------------------------------------------------------
(* The agent implements the life of an order *)

\* The smaller and the larger order of a trade are the two orders of the trade,
\* and what is left of them is what Remaining says.
LEMMA TradeSides ==
    ASSUME TypeOK, NEW matcher \in Addresses, NEW o1 \in Orders, NEW o2 \in Orders,
           NEW fee1 \in Nat, NEW fee2 \in Nat, NEW base \in Nat,
           Trade(matcher, o1, o2, fee1, fee2, base)
    PROVE  /\ GetOrderId(Fill(o1, o2).smaller) \in Ids
           /\ GetOrderId(Fill(o1, o2).larger) \in Ids
           /\ GetOrderId(Fill(o1, o2).smaller) # GetOrderId(Fill(o1, o2).larger)
           /\ GetOrderId(Fill(o1, o2).smaller) \notin executed \cup cancelled
           /\ GetOrderId(Fill(o1, o2).larger) \notin executed \cup cancelled
           /\ Fill(o1, o2).left_larger = Remaining[GetOrderId(Fill(o1, o2).larger)]
           /\ Fill(o1, o2).left_larger \in Nat
           /\ Fill(o1, o2).buy_smaller \in Nat
<1>1. /\ GetOrderId(o1) # GetOrderId(o2)
      /\ GetOrderId(o1) \notin executed \cup cancelled
      /\ GetOrderId(o2) \notin executed \cup cancelled
  BY TradeHistory
<1>2. /\ GetOrderId(o1) \in Ids
      /\ GetOrderId(o2) \in Ids
  BY OrderFields
<1>3. \A o \in Orders : GetOrderId(o)[4] = o.sell_amount
  BY DEF GetOrderId
<1>4. /\ AmountLeft(o1) = Remaining[GetOrderId(o1)]
      /\ AmountLeft(o2) = Remaining[GetOrderId(o2)]
  BY <1>1, <1>2, <1>3 DEF AmountLeft, Remaining
<1>5. /\ Fill(o1, o2).left_larger \in Nat
      /\ Fill(o1, o2).buy_smaller \in Nat
  BY FillType DEF Trade, CanMatch, Tradable
<1>6. \/ /\ Fill(o1, o2).smaller = o2 /\ Fill(o1, o2).larger = o1
         /\ Fill(o1, o2).left_larger = AmountLeft(o1)
      \/ /\ Fill(o1, o2).smaller = o1 /\ Fill(o1, o2).larger = o2
         /\ Fill(o1, o2).left_larger = AmountLeft(o2)
  BY DEF Fill
<1> QED
  BY <1>1, <1>2, <1>4, <1>5, <1>6

LEMMA TradeIsMatch ==
    ASSUME TypeOK, NEW matcher \in Addresses, NEW o1 \in Orders, NEW o2 \in Orders,
           NEW fee1 \in Nat, NEW fee2 \in Nat, NEW base \in Nat,
           Trade(matcher, o1, o2, fee1, fee2, base)
    PROVE  \E full, other \in Ids : Life!Match(full, other)
<1> DEFINE f == Fill(o1, o2)
           s == GetOrderId(f.smaller)
           l == GetOrderId(f.larger)
           rest == f.left_larger - f.buy_smaller
<1>1. /\ s \in Ids /\ l \in Ids /\ s # l
      /\ s \notin executed \cup cancelled
      /\ l \notin executed \cup cancelled
      /\ f.left_larger = Remaining[l]
      /\ f.left_larger \in Nat
      /\ f.buy_smaller \in Nat
  BY TradeSides
<1>2. /\ rest >= 0
      /\ executed' = executed \cup {s} \cup (IF rest = 0 THEN {l} ELSE {})
      /\ amount_left' = [amount_left EXCEPT ![s] = 0, ![l] = rest]
      /\ cancelled' = cancelled
  BY DEF Trade, OrderOutcome
<1> HIDE DEF f
<1>3. rest \in 0..Remaining[l] /\ rest \in Nat
  BY <1>1, <1>2
<1> HIDE DEF s, l, rest
<1>4. amount_left \in [Ids -> Nat]
  BY DEF TypeOK
<1>5. Remaining' = [Remaining EXCEPT ![s] = 0, ![l] = rest]
  <2>1. \A id \in Ids :
           Remaining'[id] = IF id = l THEN rest ELSE IF id = s THEN 0 ELSE Remaining[id]
    BY <1>1, <1>2, <1>3, <1>4 DEF Remaining
  <2> QED
    BY <2>1 DEF Remaining
<1>6. OrderState' = [OrderState EXCEPT ![s] = "executed", ![l] = Life!StateWith(rest)]
  BY <1>1, <1>2 DEF OrderState, Life!StateWith
<1>7. OrderState[s] = "open" /\ OrderState[l] = "open"
  BY <1>1 DEF OrderState
<1>8. Life!Match(s, l)
  BY <1>1, <1>3, <1>5, <1>6, <1>7 DEF Life!Match
<1> QED
  BY <1>1, <1>8

LEMMA CancelIsCancel ==
    ASSUME TypeOK, NEW from \in Addresses, NEW o \in Orders, NEW base \in Attached,
           Cancel(from, o, base)
    PROVE  Life!Cancel(GetOrderId(o)) \/ UNCHANGED Life!vars
<1> DEFINE id == GetOrderId(o)
<1>1. /\ id \in Ids
      /\ id \notin executed
      /\ cancelled' = cancelled \cup {id}
      /\ UNCHANGED <<amount_left, executed>>
  BY OrderFields DEF Cancel
<1> HIDE DEF id
<1>2. Remaining' = Remaining
  BY <1>1 DEF Remaining
<1>3. CASE id \in cancelled
  BY <1>1, <1>2, <1>3 DEF Life!vars, OrderState
<1>4. CASE id \notin cancelled
  <2>1. OrderState[id] = "open"
    BY <1>1, <1>4 DEF OrderState
  <2>2. OrderState' = [OrderState EXCEPT ![id] = "cancelled"]
    BY <1>1, <1>4 DEF OrderState
  <2> QED
    BY <1>2, <2>1, <2>2 DEF Life!Cancel, id
<1> QED
  BY <1>3, <1>4

LEMMA LifeInit == Init => Life!Init
  BY DEF Init, Life!Init, OrderState, Remaining

LEMMA LifeStep ==
    ASSUME TypeOK, [Next]_vars
    PROVE  [Life!Next]_(Life!vars)
<1>1. Attached \subseteq Nat /\ MaxFee \in Nat
  BY ConstantsAssumption
<1>2. ASSUME NEW matcher \in Addresses, NEW o1 \in Orders, NEW o2 \in Orders,
             NEW base \in Attached, NEW fee1 \in 0..MaxFee, NEW fee2 \in 0..MaxFee,
             Trade(matcher, o1, o2, fee1, fee2, base)
      PROVE  Life!Next
  BY <1>1, <1>2, TradeIsMatch DEF Life!Next
<1>3. ASSUME NEW from \in Addresses, NEW o \in Orders, NEW base \in Attached,
             Cancel(from, o, base)
      PROVE  Life!Next \/ UNCHANGED Life!vars
  BY <1>3, CancelIsCancel, OrderFields DEF Life!Next
<1>4. CASE UNCHANGED <<executed, cancelled, amount_left>>
  BY <1>4 DEF Life!vars, OrderState, Remaining
<1> QED
  BY <1>2, <1>3, <1>4 DEF Next, vars, orderVars, Deposit, Grant, Accept, Revoke, Withdraw,
                          Tick

\* For all orders, packages, prices and fees, the agent implements the abstract
\* life of an order.
THEOREM LifeImplemented == Spec => ImplementsOrderLife
<1>1. TypeOK /\ [Next]_vars => [Life!Next]_(Life!vars)
  BY LifeStep
<1> QED
  BY <1>1, LifeInit, TypeCorrect, PTL DEF Spec, Life!Spec, ImplementsOrderLife

-----------------------------------------------------------------------------
(* Sums of a function over a finite set *)

SomeOf(s) == CHOOSE x \in s : TRUE

\* One step of the recursion that SumFunctionOnSet folds with
SumStep(f, s, g) == IF s = {} THEN 0 ELSE f[SomeOf(s)] + g[s \ {SomeOf(s)}]

UpTo(S, n) == {s \in SUBSET S : Cardinality(s) <= n}

LEMMA LeastNat ==
    ASSUME NEW N \in SUBSET Nat, N # {}
    PROVE  \E m \in N : \A n \in N : m <= n
<1>1. \E m \in N : \A n \in N : <<n, m>> \notin OpToRel(<, Nat)
  BY NatLessThanWellFounded, WFMin
<1>2. PICK m \in N : \A n \in N : <<n, m>> \notin OpToRel(<, Nat)
  BY <1>1
<1>3. \A n \in N : ~(n < m)
  BY <1>2 DEF OpToRel
<1>4. \A n \in N : m <= n
  BY <1>3
<1> QED
  BY <1>4

\* SumFunctionOnSet is the value of some function with that recursion.
LEMMA SumUnfolds ==
    ASSUME NEW f, NEW S
    PROVE  SumFunctionOnSet(f, S) = (CHOOSE g : g = [s \in SUBSET S |-> SumStep(f, s, g)])[S]
  BY DEF SumFunctionOnSet, FoldFunctionOnSet, MapThenFoldSet, SumStep, SomeOf

LEMMA SmallerSubset ==
    ASSUME NEW S, IsFiniteSet(S), NEW s \in SUBSET S, s # {}
    PROVE  /\ SomeOf(s) \in s
           /\ s \ {SomeOf(s)} \in SUBSET S
           /\ Cardinality(s) \in Nat
           /\ Cardinality(s \ {SomeOf(s)}) = Cardinality(s) - 1
<1>1. SomeOf(s) \in s
  BY DEF SomeOf
<1>2. IsFiniteSet(s)
  BY FS_Subset
<1>3. Cardinality(s \ {SomeOf(s)}) = Cardinality(s) - 1
  BY <1>1, <1>2, FS_RemoveElement
<1> QED
  BY <1>1, <1>2, <1>3, FS_CardinalityType

LEMMA SumOfEmpty ==
    ASSUME NEW f, NEW g
    PROVE  SumStep(f, {}, g) = 0
  BY DEF SumStep

\* The recursion has a solution, by induction on the size of the subsets.
LEMMA SumUpTo ==
    ASSUME NEW S, IsFiniteSet(S), NEW f, \A x \in S : f[x] \in Int, NEW k \in Nat
    PROVE  \E g : /\ g \in [UpTo(S, k) -> Int]
                  /\ g = [s \in UpTo(S, k) |-> SumStep(f, s, g)]
<1> DEFINE Solves(g, n) == /\ g \in [UpTo(S, n) -> Int]
                           /\ \A s \in UpTo(S, n) : g[s] = SumStep(f, s, g)
           N == {n \in Nat : ~\E g : Solves(g, n)}
<1>c. \A s \in SUBSET S : Cardinality(s) \in Nat /\ (Cardinality(s) = 0 => s = {})
  <2> TAKE s \in SUBSET S
  <2>1. IsFiniteSet(s)
    BY FS_Subset
  <2> QED
    BY <2>1, FS_CardinalityType, FS_EmptySet
<1>1. ASSUME NEW m \in N, \A n \in N : m <= n PROVE FALSE
  <2>1. CASE m = 0
    <3> DEFINE g == [s \in UpTo(S, 0) |-> 0]
    <3>1. \A s \in UpTo(S, 0) : s = {}
      BY <1>c DEF UpTo
    <3>2. Solves(g, 0)
      BY <3>1 DEF SumStep
    <3> QED
      BY <2>1, <3>2
  <2>2. CASE m # 0
    <3>1. m - 1 \in Nat /\ m - 1 \notin N
      BY <1>1, <2>2
    <3>2. PICK g : Solves(g, m - 1)
      BY <3>1
    <3> DEFINE h == [s \in UpTo(S, m) |-> SumStep(f, s, g)]
    <3>3. ASSUME NEW s \in UpTo(S, m), s # {}
          PROVE  /\ s \ {SomeOf(s)} \in UpTo(S, m - 1)
                 /\ s \ {SomeOf(s)} \in UpTo(S, m)
                 /\ f[SomeOf(s)] \in Int
      BY <3>1, <3>3, SmallerSubset DEF UpTo
    <3>4. \A s \in UpTo(S, m - 1) : s \in UpTo(S, m) /\ h[s] = g[s]
      <4>1. \A s \in UpTo(S, m - 1) : s \in UpTo(S, m)
        BY <1>c, <3>1 DEF UpTo
      <4> QED
        BY <4>1, <3>2
    <3>5. h \in [UpTo(S, m) -> Int]
      <4>1. ASSUME NEW s \in UpTo(S, m) PROVE SumStep(f, s, g) \in Int
        BY <3>2, <3>3 DEF SumStep
      <4> QED
        BY <4>1
    <3>6. ASSUME NEW s \in UpTo(S, m) PROVE h[s] = SumStep(f, s, h)
      <4>1. h[s] = SumStep(f, s, g)
        OBVIOUS
      <4> HIDE DEF h
      <4> QED
        BY <3>3, <3>4, <4>1 DEF SumStep
    <3> HIDE DEF h
    <3>7. Solves(h, m)
      BY <3>5, <3>6
    <3> QED
      BY <3>7
  <2> QED
    BY <2>1, <2>2
<1> HIDE DEF N
<1>2. N = {}
  <2>1. N \in SUBSET Nat
    BY DEF N
  <2> QED
    BY <1>1, <2>1, LeastNat
<1>3. PICK g : Solves(g, k)
  BY <1>2 DEF N
<1>4. g = [s \in UpTo(S, k) |-> g[s]]
  BY <1>3
<1>5. [s \in UpTo(S, k) |-> g[s]] = [s \in UpTo(S, k) |-> SumStep(f, s, g)]
  BY <1>3
<1> QED
  BY <1>3, <1>4, <1>5

LEMMA SumIs ==
    ASSUME NEW S, IsFiniteSet(S), NEW f, \A x \in S : f[x] \in Int
    PROVE  \E g : /\ g \in [SUBSET S -> Int]
                  /\ \A s \in SUBSET S : g[s] = SumStep(f, s, g)
                  /\ SumFunctionOnSet(f, S) = g[S]
<1>1. Cardinality(S) \in Nat /\ UpTo(S, Cardinality(S)) = SUBSET S
  BY FS_CardinalityType, FS_Subset DEF UpTo
<1>2. \E g : g = [s \in SUBSET S |-> SumStep(f, s, g)]
  <2>1. PICK n \in Nat : UpTo(S, n) = SUBSET S
    BY <1>1
  <2>2. \E g : g = [s \in UpTo(S, n) |-> SumStep(f, s, g)]
    BY SumUpTo
  <2> QED
    BY <2>1, <2>2
<1> DEFINE sum == CHOOSE g : g = [s \in SUBSET S |-> SumStep(f, s, g)]
<1>3. sum = [s \in SUBSET S |-> SumStep(f, s, sum)]
  BY <1>2
<1>4. SumFunctionOnSet(f, S) = sum[S]
  BY SumUnfolds
<1> HIDE DEF sum
<1>5. \A s \in SUBSET S : sum[s] = SumStep(f, s, sum)
  BY <1>3
<1>6. sum \in [SUBSET S -> Int]
  <2> DEFINE N == {n \in Nat : \E s \in SUBSET S : Cardinality(s) = n /\ sum[s] \notin Int}
  <2>1. ASSUME NEW m \in N, \A n \in N : m <= n PROVE FALSE
    <3>1. PICK s \in SUBSET S : Cardinality(s) = m /\ sum[s] \notin Int
      OBVIOUS
    <3>2. s # {}
      <4>1. s = {} => sum[s] = 0
        BY <1>5, SumOfEmpty
      <4> QED
        BY <3>1, <4>1
    <3>3. /\ SomeOf(s) \in s /\ s \ {SomeOf(s)} \in SUBSET S
          /\ m \in Nat /\ Cardinality(s \ {SomeOf(s)}) = m - 1 /\ m - 1 \in Nat
      <4>1. /\ SomeOf(s) \in s /\ s \ {SomeOf(s)} \in SUBSET S
            /\ m \in Nat /\ Cardinality(s \ {SomeOf(s)}) = m - 1
        BY <3>1, <3>2, SmallerSubset
      <4>2. Cardinality(s \ {SomeOf(s)}) \in Nat
        BY <4>1, FS_Subset, FS_CardinalityType
      <4> QED
        BY <4>1, <4>2
    <3>4. sum[s \ {SomeOf(s)}] \in Int
      <4>1. m - 1 \notin N
        BY <2>1, <3>3
      <4> QED
        BY <3>3, <4>1
    <3>5. sum[s] = f[SomeOf(s)] + sum[s \ {SomeOf(s)}]
      BY <1>5, <3>2 DEF SumStep
    <3> QED
      BY <3>1, <3>3, <3>4, <3>5
  <2>2. N \in SUBSET Nat
    OBVIOUS
  <2> HIDE DEF N
  <2>3. N = {}
    BY <2>1, <2>2, LeastNat
  <2>4. \A s \in SUBSET S : Cardinality(s) \in Nat
    BY FS_Subset, FS_CardinalityType
  <2>5. \A s \in SUBSET S : sum[s] \in Int
    BY <2>3, <2>4 DEF N
  <2> QED
    BY <1>3, <2>5
<1> QED
  BY <1>4, <1>5, <1>6

\* The sum is changed by as much as one of its terms.
LEMMA SumChanged ==
    ASSUME NEW S, IsFiniteSet(S), NEW f, NEW g, NEW k, NEW d \in Int,
           \A x \in S : f[x] \in Int,
           \A x \in S : g[x] = IF x = k THEN f[x] + d ELSE f[x]
    PROVE  SumFunctionOnSet(g, S) = SumFunctionOnSet(f, S) + (IF k \in S THEN d ELSE 0)
<1>0. \A x \in S : g[x] \in Int
  OBVIOUS
<1>1. PICK F : /\ F \in [SUBSET S -> Int]
               /\ \A s \in SUBSET S : F[s] = SumStep(f, s, F)
               /\ SumFunctionOnSet(f, S) = F[S]
  BY SumIs
<1>2. PICK G : /\ G \in [SUBSET S -> Int]
               /\ \A s \in SUBSET S : G[s] = SumStep(g, s, G)
               /\ SumFunctionOnSet(g, S) = G[S]
  BY <1>0, SumIs
<1> DEFINE Off(s) == G[s] # F[s] + (IF k \in s THEN d ELSE 0)
           N == {n \in Nat : \E s \in SUBSET S : Cardinality(s) = n /\ Off(s)}
<1>3. ASSUME NEW m \in N, \A n \in N : m <= n PROVE FALSE
  <2>1. PICK s \in SUBSET S : Cardinality(s) = m /\ Off(s)
    OBVIOUS
  <2>2. s # {}
    <3>1. s = {} => F[s] = 0 /\ G[s] = 0
      BY <1>1, <1>2, SumOfEmpty
    <3> QED
      BY <2>1, <3>1
  <2>3. PICK x : x = SomeOf(s)
    OBVIOUS
  <2>4. PICK r : r = s \ {x}
    OBVIOUS
  <2>5. /\ x \in s /\ r \in SUBSET S
        /\ m \in Nat /\ Cardinality(r) = m - 1
    BY <2>1, <2>2, <2>3, <2>4, SmallerSubset
  <2>6. Cardinality(r) \in Nat
    BY <2>5, FS_Subset, FS_CardinalityType
  <2>7. ~Off(r)
    <3>1. Cardinality(r) \notin N
      BY <1>3, <2>5, <2>6
    <3> QED
      BY <2>5, <2>6, <3>1
  <2>8. F[s] = f[x] + F[r] /\ G[s] = g[x] + G[r]
    BY <1>1, <1>2, <2>2, <2>3, <2>4 DEF SumStep
  <2>9. /\ f[x] \in Int /\ F[r] \in Int
        /\ g[x] = IF x = k THEN f[x] + d ELSE f[x]
    BY <1>1, <2>5
  <2>10. CASE x = k
    <3>1. k \in s /\ k \notin r
      BY <2>4, <2>5, <2>10
    <3>2. G[r] = F[r]
      BY <2>7, <2>9, <3>1
    <3> QED
      BY <2>1, <2>8, <2>9, <2>10, <3>1, <3>2
  <2>11. CASE x # k
    <3>1. k \in s <=> k \in r
      BY <2>4, <2>11
    <3> QED
      BY <2>1, <2>7, <2>8, <2>9, <2>11, <3>1
  <2> QED
    BY <2>10, <2>11
<1>4. N \in SUBSET Nat
  OBVIOUS
<1> HIDE DEF N
<1>5. N = {}
  BY <1>3, <1>4, LeastNat
<1>6. Cardinality(S) \in Nat
  BY FS_CardinalityType
<1>7. ~Off(S)
  BY <1>5, <1>6 DEF N
<1> QED
  BY <1>1, <1>2, <1>7

LEMMA SumOfNothing ==
    ASSUME NEW S, IsFiniteSet(S), NEW f, \A x \in S : f[x] = 0
    PROVE  SumFunctionOnSet(f, S) = 0
<1>1. PICK F : /\ F \in [SUBSET S -> Int]
               /\ \A s \in SUBSET S : F[s] = SumStep(f, s, F)
               /\ SumFunctionOnSet(f, S) = F[S]
  <2>1. \A x \in S : f[x] \in Int
    OBVIOUS
  <2> QED
    BY <2>1, SumIs
<1> DEFINE N == {n \in Nat : \E s \in SUBSET S : Cardinality(s) = n /\ F[s] # 0}
<1>2. ASSUME NEW m \in N, \A n \in N : m <= n PROVE FALSE
  <2>1. PICK s \in SUBSET S : Cardinality(s) = m /\ F[s] # 0
    OBVIOUS
  <2>2. s # {}
    BY <1>1, <2>1 DEF SumStep
  <2>3. PICK r : r = s \ {SomeOf(s)}
    OBVIOUS
  <2>4. /\ SomeOf(s) \in s /\ r \in SUBSET S
        /\ m \in Nat /\ Cardinality(r) = m - 1
    BY <2>1, <2>2, <2>3, SmallerSubset
  <2>5. Cardinality(r) \in Nat
    BY <2>4, FS_Subset, FS_CardinalityType
  <2>6. F[r] = 0
    <3>1. Cardinality(r) \notin N
      BY <1>2, <2>4, <2>5
    <3> QED
      BY <2>4, <2>5, <3>1
  <2>7. F[s] = f[SomeOf(s)] + F[r]
    BY <1>1, <2>2, <2>3 DEF SumStep
  <2> QED
    BY <2>1, <2>4, <2>6, <2>7
<1>3. N \in SUBSET Nat
  OBVIOUS
<1> HIDE DEF N
<1>4. N = {}
  BY <1>2, <1>3, LeastNat
<1>5. Cardinality(S) \in Nat /\ S \in SUBSET S
  BY FS_CardinalityType
<1> QED
  BY <1>1, <1>4, <1>5 DEF N

-----------------------------------------------------------------------------
(* The agent can pay everybody out *)

Total(b, a) == SumFunctionOnSet(b, Addresses \X {a})

LEMMA AccountsOf ==
    ASSUME NEW a \in Assets
    PROVE  /\ IsFiniteSet(Addresses \X {a})
           /\ Addresses \X {a} \subseteq Accounts
<1>1. IsFiniteSet(Addresses) /\ IsFiniteSet({a})
  BY ConstantsAssumption, FS_Singleton
<1> QED
  BY <1>1, FS_Product DEF Accounts

LEMMA TotalType ==
    ASSUME NEW b \in [Accounts -> Int], NEW a \in Assets
    PROVE  Total(b, a) \in Int
<1>1. PICK S : S = Addresses \X {a}
  OBVIOUS
<1>2. IsFiniteSet(S) /\ \A k \in S : b[k] \in Int
  BY <1>1, AccountsOf
<1>3. PICK g \in [SUBSET S -> Int] : SumFunctionOnSet(b, S) = g[S]
  BY <1>2, SumIs
<1> QED
  BY <1>1, <1>3 DEF Total

LEMMA CreditTotal ==
    ASSUME NEW b \in [Accounts -> Int], NEW u \in Addresses, NEW asset \in Assets,
           NEW n \in Int, NEW a \in Assets
    PROVE  Total(Credit(b, u, asset, n), a) = Total(b, a) + (IF asset = a THEN n ELSE 0)
<1>1. PICK S : S = Addresses \X {a}
  OBVIOUS
<1>2. PICK c : c = Credit(b, u, asset, n)
  OBVIOUS
<1>3. PICK k : k = <<u, asset>>
  OBVIOUS
<1>4. IsFiniteSet(S) /\ \A x \in S : x \in Accounts /\ b[x] \in Int
  BY <1>1, AccountsOf
<1>5. \A x \in S : c[x] = IF x = k THEN b[x] + n ELSE b[x]
  BY <1>2, <1>3, <1>4, CreditValue
<1>6. SumFunctionOnSet(c, S) = SumFunctionOnSet(b, S) + (IF k \in S THEN n ELSE 0)
  BY <1>4, <1>5, SumChanged
<1>7. k \in S <=> asset = a
  BY <1>1, <1>3
<1> QED
  BY <1>1, <1>2, <1>6, <1>7 DEF Total

LEMMA MoveTotal ==
    ASSUME NEW b \in [Accounts -> Int], NEW u \in Addresses, NEW v \in Addresses,
           NEW asset \in Assets, NEW n \in Int
    PROVE  /\ Move(b, u, v, asset, n) \in [Accounts -> Int]
           /\ \A a \in Assets : Total(Move(b, u, v, asset, n), a) = Total(b, a)
<1>1. PICK c : c = Credit(b, u, asset, -n)
  OBVIOUS
<1>m. -n \in Int
  OBVIOUS
<1>2. c \in [Accounts -> Int] /\ Move(b, u, v, asset, n) = Credit(c, v, asset, n)
  BY <1>1, <1>m, CreditValue DEF Move
<1>3. ASSUME NEW a \in Assets PROVE Total(Credit(c, v, asset, n), a) = Total(b, a)
  <2>1. Total(c, a) = Total(b, a) + (IF asset = a THEN -n ELSE 0)
    BY <1>1, <1>m, CreditTotal
  <2>2. Total(Credit(c, v, asset, n), a) = Total(c, a) + (IF asset = a THEN n ELSE 0)
    BY <1>2, CreditTotal
  <2> QED
    BY <2>1, <2>2, TotalType
<1>4. Credit(c, v, asset, n) \in [Accounts -> Int]
  BY <1>2, CreditValue
<1> QED
  BY <1>2, <1>3, <1>4

\* The balances of a step, as one type
Books == [Accounts -> Int]

LEMMA CreditIs ==
    ASSUME NEW b \in Books, NEW u \in Addresses, NEW asset \in Assets,
           NEW n \in Int, NEW a \in Assets, NEW c, c = Credit(b, u, asset, n)
    PROVE  /\ c \in Books
           /\ Total(c, a) = Total(b, a) + (IF asset = a THEN n ELSE 0)
<1>1. Credit(b, u, asset, n) \in Books
  BY CreditValue DEF Books
<1>2. Total(Credit(b, u, asset, n), a) = Total(b, a) + (IF asset = a THEN n ELSE 0)
  BY CreditTotal DEF Books
<1> QED
  BY <1>1, <1>2

LEMMA MoveIs ==
    ASSUME NEW b \in Books, NEW u \in Addresses, NEW v \in Addresses,
           NEW asset \in Assets, NEW n \in Int, NEW a \in Assets,
           NEW c, c = Move(b, u, v, asset, n)
    PROVE  c \in Books /\ Total(c, a) = Total(b, a)
<1>1. Move(b, u, v, asset, n) \in Books
  BY MoveTotal DEF Books
<1>2. Total(Move(b, u, v, asset, n), a) = Total(b, a)
  BY MoveTotal DEF Books
<1> QED
  BY <1>1, <1>2

LEMMA MoveTwice ==
    ASSUME NEW b \in Books, NEW a \in Assets,
           NEW u \in Addresses, NEW v \in Addresses, NEW x \in Assets, NEW m \in Int,
           NEW w \in Addresses, NEW z \in Addresses, NEW y \in Assets, NEW n \in Int,
           NEW d, d = Move(Move(b, u, v, x, m), w, z, y, n)
    PROVE  d \in Books /\ Total(d, a) = Total(b, a)
<1>1. PICK c : c = Move(b, u, v, x, m)
  OBVIOUS
<1>2. c \in Books /\ Total(c, a) = Total(b, a)
  BY <1>1, MoveIs
<1>3. d = Move(c, w, z, y, n)
  BY <1>1
<1>4. d \in Books /\ Total(d, a) = Total(c, a)
  BY <1>2, <1>3, MoveIs
<1> QED
  BY <1>2, <1>4

LEMMA AffiliateTotal ==
    ASSUME NEW b \in [Accounts -> Int], NEW o \in Orders, o.sell_amount > 0, NEW sold \in Nat
    PROVE  /\ WithAffiliateFee(b, o, AffiliateFee(o, sold)) \in [Accounts -> Int]
           /\ \A a \in Assets : Total(WithAffiliateFee(b, o, AffiliateFee(o, sold)), a)
                                    = Total(b, a)
<1>1. PICK fee : fee = AffiliateFee(o, sold)
  OBVIOUS
<1>2. /\ fee \in Nat /\ (fee # 0 => o.affiliate \in Addresses)
      /\ o.address \in Addresses /\ o.affiliate_fee_asset \in Assets
  BY <1>1, AffiliateFeeType, OrderFields DEF OrderType
<1>3. CASE fee = 0
  BY <1>1, <1>3 DEF WithAffiliateFee
<1>4. CASE fee # 0
  BY <1>1, <1>2, <1>4, MoveTotal DEF WithAffiliateFee
<1> QED
  BY <1>3, <1>4

LEMMA AffiliateIs ==
    ASSUME NEW b \in Books, NEW o \in Orders, o.sell_amount > 0, NEW sold \in Nat,
           NEW a \in Assets, NEW c, c = WithAffiliateFee(b, o, AffiliateFee(o, sold))
    PROVE  c \in Books /\ Total(c, a) = Total(b, a)
  BY AffiliateTotal DEF Books

\* Whatever a trade moves between users, it takes two fees and credits what came with it.
LEMMA TradeTotal ==
    ASSUME TypeOK, NEW matcher \in Addresses, NEW o1 \in Orders, NEW o2 \in Orders,
           NEW fee1 \in Nat, NEW fee2 \in Nat, NEW base \in Nat,
           Trade(matcher, o1, o2, fee1, fee2, base), NEW a \in Assets
    PROVE  Total(balance', a)
             = Total(balance, a) + (IF a = Base THEN base - 2 * AaFee ELSE 0)
<1> DEFINE f == Fill(o1, o2)
<1>1. /\ o1.address \in Addresses /\ o1.matcher \in Addresses
      /\ o2.address \in Addresses /\ o2.matcher \in Addresses
      /\ o1.sell_asset \in Assets /\ o1.matcher_fee_asset \in Assets
      /\ o2.sell_asset \in Assets /\ o2.matcher_fee_asset \in Assets
  BY OrderFields DEF OrderType
<1>2. /\ o1.sell_amount > 0 /\ o1.price.num > 0
      /\ o2.sell_amount > 0
  BY DEF Trade, CanMatch, Tradable
<1>3. /\ f.sold1 \in Nat /\ f.sold2 \in Nat
      /\ f.sold1 \in Int /\ f.sold2 \in Int /\ fee1 \in Int /\ fee2 \in Int
  BY <1>2, FillType
<1>4. PICK b1 : b1 = Swapped(o1, o2, f)
  OBVIOUS
<1>5. PICK b2 : b2 = WithMatcherFees(b1, o1, o2, fee1, fee2)
  OBVIOUS
<1>6. PICK b3 : b3 = WithAffiliateFee(b2, o1, AffiliateFee(o1, f.sold1))
  OBVIOUS
<1>7. PICK b4 : b4 = WithAffiliateFee(b3, o2, AffiliateFee(o2, f.sold2))
  OBVIOUS
<1>8. balance' = Credit(WithAaFees(b4, o1, o2), matcher, Base, base)
  BY <1>4, <1>5, <1>6, <1>7 DEF Trade
<1> HIDE DEF f
<1>9. balance \in Books
  BY DEF TypeOK, Accounts, Books
<1>10. PICK b \in Books : b = balance
  BY <1>9
<1>11. PICK u \in Addresses, v \in Addresses, x \in Assets, y \in Assets :
          u = o1.address /\ v = o2.address /\ x = o1.sell_asset /\ y = o2.sell_asset
  BY <1>1
<1>12. PICK m \in Int, n \in Int : m = f.sold1 /\ n = f.sold2
  BY <1>3
<1>13. b1 = Move(Move(b, u, v, x, m), v, u, y, n)
  BY <1>4, <1>10, <1>11, <1>12 DEF Swapped
<1>14. b1 \in Books /\ Total(b1, a) = Total(b, a)
  BY <1>13, MoveTwice
<1>15. PICK p \in Addresses, q \in Addresses, r \in Assets, s \in Assets :
          p = o1.matcher /\ q = o2.matcher
          /\ r = o1.matcher_fee_asset /\ s = o2.matcher_fee_asset
  BY <1>1
<1>16. b2 = Move(Move(b1, u, p, r, fee1), v, q, s, fee2)
  BY <1>5, <1>11, <1>15 DEF WithMatcherFees
<1>17. b2 \in Books /\ Total(b2, a) = Total(b1, a)
  <2>1. PICK g \in Int, h \in Int : g = fee1 /\ h = fee2
    BY <1>3
  <2>2. PICK c \in Books : c = b1
    BY <1>14
  <2>3. PICK d : d = Move(c, u, p, r, g)
    OBVIOUS
  <2>4. d \in Books /\ Total(d, a) = Total(c, a)
    BY <2>3, MoveIs
  <2>5. b2 = Move(d, v, q, s, h)
    BY <1>16, <2>1, <2>2, <2>3
  <2>6. b2 \in Books /\ Total(b2, a) = Total(d, a)
    BY <2>4, <2>5, MoveIs
  <2> QED
    BY <2>2, <2>4, <2>6
<1>18. b3 \in Books /\ Total(b3, a) = Total(b2, a)
  BY <1>2, <1>3, <1>6, <1>17, AffiliateIs
<1>19. b4 \in Books /\ Total(b4, a) = Total(b3, a)
  BY <1>2, <1>3, <1>7, <1>18, AffiliateIs
<1>20. PICK c : c = Credit(b4, u, Base, -AaFee)
  OBVIOUS
<1>21. PICK d : d = Credit(c, v, Base, -AaFee)
  OBVIOUS
<1>22. balance' = Credit(d, matcher, Base, base)
  BY <1>8, <1>11, <1>20, <1>21 DEF WithAaFees
<1>23. AaFee \in Nat /\ -AaFee \in Int /\ Base \in Assets
  BY ConstantsAssumption
<1>24. c \in Books /\ Total(c, a) = Total(b4, a) + (IF Base = a THEN -AaFee ELSE 0)
  BY <1>19, <1>20, <1>23, CreditIs
<1>25. d \in Books /\ Total(d, a) = Total(c, a) + (IF Base = a THEN -AaFee ELSE 0)
  BY <1>21, <1>23, <1>24, CreditIs
<1>26. Total(balance', a) = Total(d, a) + (IF Base = a THEN base ELSE 0)
  BY <1>22, <1>23, <1>25, CreditIs
<1>27. Total(balance, a) \in Int /\ Total(b, a) = Total(balance, a)
  BY <1>9, <1>10, TotalType DEF Books
<1> QED
  BY <1>14, <1>17, <1>18, <1>19, <1>23, <1>24, <1>25, <1>26, <1>27

\* What a deposit adds to the balances it adds to the holdings.
LEMMA AcceptTotal ==
    ASSUME TypeOK, NEW p \in Payments, NEW from \in Addresses, NEW to \in Addresses,
           Accept(p, from, to), NEW a \in Assets
    PROVE  Total(balance', a) - Total(balance, a) = holdings'[a] - holdings[a]
<1>1. /\ Base \in Assets
      /\ p.base \in Nat
      /\ p.asset \in Assets \cup {NoAsset}
      /\ p.amount \in Nat
      /\ NoAsset \notin Assets
  BY ConstantsAssumption
<1>2. balance \in [Accounts -> Int] /\ holdings \in [Assets -> Int]
  BY DEF TypeOK, Accounts
<1>3. PICK b : b = Credit(balance, to, Base, p.base)
  OBVIOUS
<1>4. PICK h : h = Receive(holdings, p.base)
  OBVIOUS
<1>5. b \in [Accounts -> Int] /\ Total(b, a) = Total(balance, a) + (IF Base = a THEN p.base ELSE 0)
  <2>1. PICK c \in Books : c = balance
    BY <1>2 DEF Books
  <2>2. PICK n \in Int : n = p.base
    BY <1>1
  <2>3. b = Credit(c, to, Base, n)
    BY <1>3, <2>1, <2>2
  <2>4. b \in Books /\ Total(b, a) = Total(c, a) + (IF Base = a THEN n ELSE 0)
    BY <1>1, <2>3, CreditIs
  <2> QED
    BY <2>1, <2>2, <2>4 DEF Books
<1>6. h \in [Assets -> Int] /\ h[a] = holdings[a] + (IF Base = a THEN p.base ELSE 0)
  BY <1>1, <1>2, <1>4 DEF Receive
<1>7. Total(balance, a) \in Int
  BY <1>2, TotalType
<1>8. CASE p.asset \in {NoAsset, Base}
  <2>1. balance' = b /\ holdings' = h
    BY <1>3, <1>4, <1>8 DEF Accept, Credited, Received
  <2> QED
    BY <1>1, <1>2, <1>5, <1>6, <1>7, <2>1
<1>9. CASE p.asset \notin {NoAsset, Base}
  <2>1. p.asset \in Assets
    BY <1>1, <1>9
  <2>2. /\ balance' = Credit(b, to, p.asset, p.amount)
        /\ holdings' = [h EXCEPT ![p.asset] = @ + p.amount]
    BY <1>3, <1>4, <1>9 DEF Accept, Credited, Received
  <2>3. Total(balance', a) = Total(b, a) + (IF p.asset = a THEN p.amount ELSE 0)
    BY <1>1, <1>5, <2>1, <2>2, CreditTotal
  <2>4. holdings'[a] = h[a] + (IF p.asset = a THEN p.amount ELSE 0)
    BY <1>6, <2>1, <2>2
  <2> QED
    BY <1>1, <1>2, <1>5, <1>6, <1>7, <2>3, <2>4
<1> QED
  BY <1>8, <1>9

LEMMA InitSolvency == Init => Solvency
<1> SUFFICES ASSUME Init, NEW a \in Assets
             PROVE  Total(balance, a) <= holdings[a]
  BY DEF Solvency, Total
<1>1. PICK S : S = Addresses \X {a}
  OBVIOUS
<1>2. IsFiniteSet(S) /\ \A k \in S : balance[k] = 0
  BY <1>1, AccountsOf DEF Init, Accounts
<1>3. SumFunctionOnSet(balance, S) = 0
  BY <1>2, SumOfNothing
<1> QED
  BY <1>1, <1>3 DEF Init, Total

LEMMA NextSolvency == TypeOK /\ Solvency /\ [Next]_vars => Solvency'
<1> SUFFICES ASSUME TypeOK, Solvency, [Next]_vars, NEW a \in Assets
             PROVE  Total(balance', a) <= holdings'[a]
  BY DEF Solvency, Total
<1>t. /\ balance \in [Accounts -> Int] /\ holdings \in [Assets -> Int]
      /\ Total(balance, a) \in Int
      /\ Total(balance, a) <= holdings[a]
  <2>1. balance \in [Accounts -> Int] /\ holdings \in [Assets -> Int]
    BY DEF TypeOK, Accounts
  <2>2. Total(balance, a) <= holdings[a]
    BY DEF Solvency, Total
  <2> QED
    BY <2>1, <2>2, TotalType
<1>c. /\ Base \in Assets /\ Signers \subseteq Addresses /\ Attached \subseteq Nat
      /\ {MinBytes, AaFee, CancelFee, UnitFee, MaxFee} \subseteq Nat
      /\ UnitFee <= MinBytes /\ CancelFee <= MinBytes
  BY ConstantsAssumption
<1>r. ASSUME NEW base \in Nat, holdings' = Receive(holdings, base)
      PROVE  holdings'[a] = holdings[a] + (IF a = Base THEN base ELSE 0)
  BY <1>c, <1>t, <1>r DEF Receive
<1>1. ASSUME NEW from \in Addresses, NEW to \in Addresses, NEW p \in Payments,
             Accept(p, from, to)
      PROVE  Total(balance', a) <= holdings'[a]
  <2>1. Total(balance', a) - Total(balance, a) = holdings'[a] - holdings[a]
    BY <1>1, AcceptTotal
  <2>2. Total(balance', a) \in Int /\ holdings'[a] \in Int
    <3>1. balance' \in [Accounts -> Nat] /\ holdings' \in [Assets -> Int]
      BY <1>1, AcceptType
    <3>2. balance' \in [Accounts -> Int]
      BY <3>1
    <3> QED
      BY <3>1, <3>2, TotalType
  <2> QED
    BY <1>t, <2>1, <2>2
<1>2. ASSUME NEW from \in Addresses, NEW to \in Addresses, NEW p \in Payments,
             Deposit(from, to, p)
      PROVE  Total(balance', a) <= holdings'[a]
  BY <1>1, <1>2 DEF Deposit
<1>3. ASSUME NEW from \in Addresses, NEW signer \in Signers, NEW p \in Payments,
             Grant(from, signer, p)
      PROVE  Total(balance', a) <= holdings'[a]
  BY <1>1, <1>3 DEF Grant
<1>4. ASSUME NEW from \in Addresses, NEW signer \in Signers, NEW base \in Attached,
             Revoke(from, signer, base)
      PROVE  Total(balance', a) <= holdings'[a]
  <2>1. base \in Nat /\ balance' = balance /\ holdings' = Receive(holdings, base)
    BY <1>c, <1>4 DEF Revoke
  <2> QED
    BY <1>r, <1>t, <2>1
<1>5. ASSUME NEW from \in Addresses, NEW to \in Addresses, NEW asset \in Assets,
             NEW base \in Attached, Withdraw(from, to, asset, base)
      PROVE  Total(balance', a) <= holdings'[a]
  <2>1. PICK owner : owner = WithdrawalOwner(from, to)
    OBVIOUS
  <2>2. owner \in Addresses /\ <<owner, asset>> \in Accounts
    BY <2>1 DEF WithdrawalOwner, Accounts
  <2>3. PICK n \in AmountsOf(owner, asset) :
           /\ base >= MinBytes
           /\ balance' = Credit(balance, owner, asset, -n)
           /\ holdings' = [Receive(holdings, base - UnitFee) EXCEPT ![asset] = @ - n]
    BY <1>5, <2>1 DEF Withdraw
  <2>4. n \in Nat
    BY <1>t, <2>2, <2>3, ConstantsAssumption DEF AmountsOf, TypeOK, Accounts
  <2>5. Total(balance', a) = Total(balance, a) + (IF asset = a THEN -n ELSE 0)
    BY <1>t, <2>2, <2>3, <2>4, CreditTotal
  <2>6. base \in Nat /\ base - UnitFee \in Nat
    BY <1>c, <2>3
  <2>7. PICK h : h = Receive(holdings, base - UnitFee)
    OBVIOUS
  <2>8. h \in [Assets -> Int] /\ h[a] >= holdings[a]
    BY <1>c, <1>t, <2>6, <2>7 DEF Receive
  <2>9. holdings'[a] = h[a] - (IF asset = a THEN n ELSE 0)
    BY <2>3, <2>4, <2>7, <2>8
  <2> QED
    BY <1>t, <2>4, <2>5, <2>8, <2>9
<1>6. ASSUME NEW matcher \in Addresses, NEW o1 \in Orders, NEW o2 \in Orders,
             NEW base \in Attached, NEW fee1 \in 0..MaxFee, NEW fee2 \in 0..MaxFee,
             Trade(matcher, o1, o2, fee1, fee2, base)
      PROVE  Total(balance', a) <= holdings'[a]
  <2>1. fee1 \in Nat /\ fee2 \in Nat /\ base \in Nat
    BY <1>c
  <2>2. Total(balance', a)
          = Total(balance, a) + (IF a = Base THEN base - 2 * AaFee ELSE 0)
    BY <1>6, <2>1, TradeTotal
  <2>3. holdings' = Receive(holdings, base)
    BY <1>6 DEF Trade
  <2> QED
    BY <1>c, <1>r, <1>t, <2>1, <2>2, <2>3
<1>7. ASSUME NEW from \in Addresses, NEW o \in Orders, NEW base \in Attached,
             Cancel(from, o, base)
      PROVE  Total(balance', a) <= holdings'[a]
  <2>1. base \in Nat /\ base - CancelFee \in Int /\ o.address \in Addresses
    BY <1>c, OrderFields DEF OrderType
  <2>2. /\ balance' = Credit(balance, o.address, Base, base - CancelFee)
        /\ holdings' = Receive(holdings, base)
    BY <1>7 DEF Cancel
  <2>3. Total(balance', a) = Total(balance, a) + (IF Base = a THEN base - CancelFee ELSE 0)
    BY <1>c, <1>t, <2>1, <2>2, CreditTotal
  <2> QED
    BY <1>c, <1>r, <1>t, <2>1, <2>2, <2>3
<1>8. CASE Tick
  BY <1>8, <1>t DEF Tick
<1>9. CASE UNCHANGED vars
  BY <1>9, <1>t DEF vars
<1> QED
  BY <1>2, <1>3, <1>4, <1>5, <1>6, <1>7, <1>8, <1>9 DEF Next

\* The agent holds of every asset at least what its users own together: every case
\* of dex.oscript that credits one balance receives as much or debits another.
THEOREM Solvent == Spec => []Solvency
  BY TypeCorrect, InitSolvency, NextSolvency, PTL DEF Spec

-----------------------------------------------------------------------------
(* The arithmetic of a trade, for all prices and amounts: a fill never      *)
(* oversells the larger order (the agent's "panic" bounce is dead code),    *)
(* and over its whole life an order gets its own price, but for rounding.   *)

\* round() is off by at most one half.
LEMMA RoundDivBounds ==
    ASSUME NEW n \in Int, NEW d \in Nat \ {0}
    PROVE  /\ RoundDiv(n, d) \in Int
           /\ 2 * (d * RoundDiv(n, d)) <= 2 * n + d
           /\ 2 * (d * RoundDiv(n, d)) >= 2 * n - d
<1> DEFINE q == n \div d
           r == n % d
<1>1. /\ q \in Int /\ r \in Int
      /\ n = d * q + r
      /\ 0 <= r /\ r < d
  OBVIOUS
<1>2. d * (q + 1) = d * q + d
  BY <1>1
<1>3. CASE RoundDiv(n, d) = q
  <2>1. 2 * r <= d
    BY <1>1, <1>3 DEF RoundDiv
  <2> HIDE DEF q, r
  <2> QED
    BY <1>1, <1>3, <2>1
<1>4. CASE RoundDiv(n, d) = q + 1
  <2>1. 2 * r >= d
    BY <1>1, <1>4 DEF RoundDiv
  <2> HIDE DEF q, r
  <2> QED
    BY <1>1, <1>2, <1>4, <2>1
<1> QED
  BY <1>3, <1>4 DEF RoundDiv

\* Products are monotonic.
LEMMA TimesMonotone ==
    ASSUME NEW m \in Nat, NEW a \in Int, NEW b \in Int, a <= b
    PROVE  m * a <= m * b
<1>1. m * (b - a) >= 0
  OBVIOUS
<1>2. m * (b - a) = m * b - m * a
  OBVIOUS
<1> QED
  BY <1>1, <1>2

\* If selling a at the price p/q would buy more than b, then selling b at the
\* inverse price buys no more than a.
LEMMA NoOversell ==
    ASSUME NEW a \in Nat, NEW b \in Nat, NEW p \in Nat \ {0}, NEW q \in Nat \ {0},
           RoundDiv(a * p, q) > b
    PROVE  RoundDiv(b * q, p) <= a
<1> DEFINE r == RoundDiv(a * p, q)
           s == RoundDiv(b * q, p)
<1>0. a * p \in Int /\ b * q \in Int
  OBVIOUS
<1>1. /\ r \in Int
      /\ 2 * (q * r) <= 2 * (a * p) + q
  BY <1>0, RoundDivBounds
<1>2. /\ s \in Int
      /\ 2 * (p * s) <= 2 * (b * q) + p
  BY <1>0, RoundDivBounds
<1>3. b + 1 <= r
  BY <1>1
<1> HIDE DEF r, s
<1>4. q * (b + 1) <= q * r
  BY <1>1, <1>3, TimesMonotone
<1>5. q * (b + 1) = b * q + q
  OBVIOUS
<1>6. 2 * (b * q) < 2 * (a * p)
  BY <1>0, <1>1, <1>2, <1>4, <1>5
<1>7. p * s < p * (a + 1)
  <2>1. p * (a + 1) = a * p + p
    OBVIOUS
  <2> QED
    BY <1>0, <1>1, <1>2, <1>6, <2>1
<1>8. ~(a + 1 <= s)
  BY <1>2, <1>7, TimesMonotone
<1> QED
  BY <1>2, <1>8 DEF s

\* The larger order sells at most what it has left, whatever the prices.
THEOREM NeverPanics == Spec => []NoPanic
<1>1. ASSUME TypeOK PROVE NoPanic
  <2> SUFFICES ASSUME NEW o1 \in Orders, NEW o2 \in Orders,
                      CanMatch(o1, o2, o1.matcher)
               PROVE  Fill(o1, o2).buy_smaller <= Fill(o1, o2).left_larger
    BY DEF NoPanic
  <2>1. /\ AmountLeft(o1) \in Nat /\ AmountLeft(o2) \in Nat
        /\ o1.price.num \in Nat \ {0} /\ o1.price.den \in Nat \ {0}
    <3>1. o1.price.num > 0
      BY DEF CanMatch, Tradable
    <3> QED
      BY <1>1, <3>1, AmountLeftType, OrderFields
  <2>2. CASE Times(AmountLeft(o1), o1.price) > AmountLeft(o2)
    BY <2>1, <2>2, NoOversell DEF Fill, Times, Over
  <2>3. CASE ~(Times(AmountLeft(o1), o1.price) > AmountLeft(o2))
    <3>1. AmountLeft(o1) * o1.price.num \in Int
      BY <2>1
    <3>2. Times(AmountLeft(o1), o1.price) \in Int
      BY <2>1, <3>1, RoundDivBounds DEF Times
    <3> QED
      BY <2>1, <2>3, <3>2 DEF Fill
  <2> QED
    BY <2>2, <2>3
<1> QED
  BY <1>1, TypeCorrect, PTL

-----------------------------------------------------------------------------
(* What one fill gives each side *)

\* Getting `bought' for `sold' at the price p/q, short of at most p + q/2.
FairAmount(p, q, sold, bought) ==
    2 * (q * bought) >= 2 * (p * sold) - (2 * p + q)

\* An order that trades as the larger one, or as a smaller maker.
LEMMA LargerIsFair ==
    ASSUME NEW p \in Nat \ {0}, NEW q \in Nat \ {0}, NEW sold \in Nat, NEW bought \in Nat,
           RoundDiv((sold - 1) * p, q) <= bought
    PROVE  FairAmount(p, q, sold, bought)
<1> DEFINE r == RoundDiv((sold - 1) * p, q)
<1>1. (sold - 1) * p = p * sold - p /\ p * sold \in Int
  OBVIOUS
<1>2. /\ r \in Int
      /\ 2 * (q * r) >= 2 * (p * sold - p) - q
  BY <1>1, RoundDivBounds
<1>3. q * r <= q * bought /\ q * r \in Int /\ q * bought \in Int
  BY <1>2, TimesMonotone
<1> HIDE DEF r
<1> QED
  BY <1>1, <1>2, <1>3 DEF FairAmount

LEMMA SmallerMakerIsFair ==
    ASSUME NEW p \in Nat \ {0}, NEW q \in Nat \ {0}, NEW sold \in Nat
    PROVE  FairAmount(p, q, sold, RoundDiv(sold * p, q))
<1>1. /\ sold * p = p * sold
      /\ p * sold \in Int
  OBVIOUS
<1>2. /\ RoundDiv(sold * p, q) \in Int
      /\ 2 * (q * RoundDiv(sold * p, q)) >= 2 * (p * sold) - q
  BY <1>1, RoundDivBounds
<1>3. q * RoundDiv(sold * p, q) \in Int
  BY <1>2
<1> QED
  BY <1>1, <1>2, <1>3 DEF FairAmount

\* A smaller taker is paid at the maker's price p1/q1: either the prices cross
\* up to rounding, which bounds its loss, or they cross by far.
LEMMA SmallerTakerIsFair ==
    ASSUME NEW p1 \in Nat \ {0}, NEW q1 \in Nat \ {0},
           NEW p2 \in Nat \ {0}, NEW q2 \in Nat \ {0}, NEW sold \in Nat,
           RoundDiv(sold * (p1 * p2), q1 * q2) <= sold
    PROVE  FairAmount(p2, q2, sold, RoundDiv(sold * q1, p1))
<1> DEFINE bought == RoundDiv(sold * q1, p1)
           w == p2 * sold
           pp == p1 * p2
           qq == q1 * q2
<1>1. /\ pp \in Nat \ {0} /\ qq \in Nat \ {0}
      /\ w \in Nat /\ sold * q1 \in Int
      /\ sold * pp \in Int /\ qq * sold \in Int
  OBVIOUS
<1>2. /\ bought \in Int
      /\ 2 * (p1 * bought) >= 2 * (sold * q1) - p1
  BY <1>1, RoundDivBounds
<1>3. 2 * (sold * pp) - qq <= 2 * (qq * sold)
  <2> DEFINE r == RoundDiv(sold * pp, qq)
  <2>1. r \in Int /\ 2 * (qq * r) >= 2 * (sold * pp) - qq
    BY <1>1, RoundDivBounds
  <2>2. r <= sold
    OBVIOUS
  <2> HIDE DEF r, pp, qq
  <2>3. qq * r <= qq * sold /\ qq * r \in Int
    BY <1>1, <2>1, <2>2, TimesMonotone
  <2> QED
    BY <1>1, <2>1, <2>3
<1> HIDE DEF bought
<1>4. /\ p1 * (q2 * bought) = q2 * (p1 * bought)
      /\ q2 * (2 * (sold * q1) - p1) = 2 * (qq * sold) - p1 * q2
      /\ p1 * (2 * w - (2 * p2 + q2)) = 2 * (sold * pp) - 2 * pp - p1 * q2
      /\ p1 * q2 \in Int
  BY <1>2
<1>5. q2 * (2 * (sold * q1) - p1) <= q2 * (2 * (p1 * bought))
  BY <1>1, <1>2, TimesMonotone
<1>6. q2 * (2 * (p1 * bought)) = 2 * (q2 * (p1 * bought))
  BY <1>2
<1>7. 2 * (qq * sold) >= 2 * (sold * pp) - 2 * pp
  <2>1. CASE qq <= 2 * pp
    BY <1>1, <1>3, <2>1
  <2>2. CASE pp < qq
    <3>1. sold * pp <= sold * qq /\ sold * qq = qq * sold
      BY <1>1, <2>2, TimesMonotone
    <3> HIDE DEF pp, qq
    <3> QED
      BY <1>1, <3>1
  <2> QED
    BY <1>1, <2>1, <2>2
<1>8. p1 * (2 * w - (2 * p2 + q2)) <= 2 * (p1 * (q2 * bought))
  <2>1. q2 * (p1 * bought) \in Int
    BY <1>2
  <2> QED
    BY <1>1, <1>4, <1>5, <1>6, <1>7, <2>1
<1>9. 2 * w - (2 * p2 + q2) <= 2 * (q2 * bought)
  <2> DEFINE left  == 2 * w - (2 * p2 + q2)
             right == 2 * (q2 * bought)
  <2>1. left \in Int /\ right \in Int
    BY <1>1, <1>2
  <2>2. p1 * left <= p1 * right
    BY <1>2, <1>8
  <2>3. right + 1 <= left => p1 * (right + 1) <= p1 * left
    BY <2>1, TimesMonotone
  <2>4. p1 * (right + 1) = p1 * right + p1 /\ p1 * right \in Int /\ p1 * left \in Int
    BY <2>1
  <2> HIDE DEF left, right
  <2>5. left <= right
    BY <2>1, <2>2, <2>3, <2>4
  <2> QED
    BY <2>5 DEF left, right
<1> QED
  BY <1>9 DEF FairAmount, bought

-----------------------------------------------------------------------------
(* Every fill is fair, and so is the sum of the fills *)

LEMMA FillIsFair ==
    ASSUME TypeOK, NEW matcher, NEW o1 \in Orders, NEW o2 \in Orders,
           CanMatch(o1, o2, matcher)
    PROVE  /\ FairAmount(o1.price.num, o1.price.den,
                         Fill(o1, o2).sold1, Fill(o1, o2).sold2)
           /\ FairAmount(o2.price.num, o2.price.den,
                         Fill(o1, o2).sold2, Fill(o1, o2).sold1)
<1> DEFINE f == Fill(o1, o2)
           left1 == AmountLeft(o1)
           left2 == AmountLeft(o2)
<1>1. /\ o1.price.num > 0 /\ o2.price.num > 0
      /\ PricesMatch(o1, o2)
  BY DEF CanMatch, Tradable
<1>2. /\ o1.price.num \in Nat \ {0} /\ o1.price.den \in Nat \ {0}
      /\ o2.price.num \in Nat \ {0} /\ o2.price.den \in Nat \ {0}
      /\ left1 \in Nat /\ left2 \in Nat
      /\ f.sold1 \in Nat /\ f.sold2 \in Nat
  BY <1>1, OrderFields, AmountLeftType, FillType
<1>3. CASE Times(left1, o1.price) > left2
  <2>1. /\ f.larger = o1
        /\ f.left_smaller = left2
        /\ f.buy_smaller = f.sold1
        /\ f.sold2 = left2
        /\ f.sold1 = RoundDiv(left2 * o1.price.den, o1.price.num)
    BY <1>3 DEF Fill, Over
  <2>2. /\ RoundDiv(left2 * (o1.price.num * o2.price.num),
                    o1.price.den * o2.price.den) <= left2
        /\ RoundDiv((f.sold1 - 1) * o1.price.num, o1.price.den) <= f.sold2
    BY <1>1, <2>1 DEF PricesMatch, Times
  <2> HIDE DEF f, left2
  <2>3. FairAmount(o1.price.num, o1.price.den, f.sold1, f.sold2)
    BY <1>2, <2>2, LargerIsFair
  <2>4. FairAmount(o2.price.num, o2.price.den, left2, f.sold1)
    BY <1>2, <2>1, <2>2, SmallerTakerIsFair
  <2> QED
    BY <2>1, <2>3, <2>4 DEF f
<1>4. CASE ~(Times(left1, o1.price) > left2)
  <2>1. /\ f.larger = o2
        /\ f.left_smaller = left1
        /\ f.buy_smaller = f.sold2
        /\ f.sold1 = left1
        /\ f.sold2 = RoundDiv(left1 * o1.price.num, o1.price.den)
    BY <1>4 DEF Fill, Times
  <2>2. RoundDiv((f.sold2 - 1) * o2.price.num, o2.price.den) <= f.sold1
    BY <1>1, <2>1 DEF PricesMatch, Times
  <2> HIDE DEF f, left1
  <2>3. FairAmount(o1.price.num, o1.price.den, left1, f.sold2)
    BY <1>2, <2>1, SmallerMakerIsFair
  <2>4. FairAmount(o2.price.num, o2.price.den, f.sold2, f.sold1)
    BY <1>2, <2>2, LargerIsFair
  <2> QED
    BY <2>1, <2>3, <2>4 DEF f
<1> QED
  BY <1>3, <1>4

LEMMA FairFillsAdd ==
    ASSUME NEW p \in Nat, NEW q \in Nat \ {0},
           NEW S \in Nat, NEW B \in Nat, NEW F \in Nat, NEW s \in Nat, NEW b \in Nat,
           2 * q * B >= 2 * p * S - F * (2 * p + q),
           FairAmount(p, q, s, b)
    PROVE  2 * q * (B + b) >= 2 * p * (S + s) - (F + 1) * (2 * p + q)
<1>1. /\ 2 * q * (B + b) = 2 * q * B + 2 * (q * b)
      /\ 2 * p * (S + s) = 2 * p * S + 2 * (p * s)
      /\ (F + 1) * (2 * p + q) = F * (2 * p + q) + (2 * p + q)
  OBVIOUS
<1>2. /\ 2 * q * B \in Int /\ q * b \in Int
      /\ 2 * p * S \in Int /\ p * s \in Int
      /\ F * (2 * p + q) \in Int
  OBVIOUS
<1> QED
  BY <1>1, <1>2 DEF FairAmount

LEMMA NextFairFill == TypeOK /\ FairFill /\ [Next]_vars => FairFill'
<1> SUFFICES ASSUME TypeOK, FairFill, [Next]_vars
             PROVE  FairFill'
  OBVIOUS
<1>1. Attached \subseteq Nat /\ MaxFee \in Nat
  BY ConstantsAssumption
<1>2. ASSUME NEW matcher \in Addresses, NEW o1 \in Orders, NEW o2 \in Orders,
             NEW base \in Attached, NEW fee1 \in 0..MaxFee, NEW fee2 \in 0..MaxFee,
             Trade(matcher, o1, o2, fee1, fee2, base)
      PROVE  FairFill'
  <2> DEFINE f == Fill(o1, o2)
  <2>1. fee1 \in Nat /\ fee2 \in Nat /\ base \in Nat
    BY <1>1
  <2>2. /\ Traded(o1, f.sold1, f.sold2)
        /\ Traded(o2, f.sold2, f.sold1)
        /\ \A id \in Ids \ {GetOrderId(o1), GetOrderId(o2)} : history'[id] = history[id]
    BY <1>2, <2>1, TradeHistory
  <2>3. /\ FairAmount(o1.price.num, o1.price.den, f.sold1, f.sold2)
        /\ FairAmount(o2.price.num, o2.price.den, f.sold2, f.sold1)
    BY <1>2, FillIsFair DEF Trade
  <2>4. f.sold1 \in Nat /\ f.sold2 \in Nat
    BY <1>2, FillType DEF Trade, CanMatch, Tradable
  <2> HIDE DEF f
  <2>5. ASSUME NEW o \in Orders, NEW r \in Orders, NEW s \in Nat, NEW b \in Nat,
               GetOrderId(o) = GetOrderId(r), Traded(r, s, b),
               FairAmount(r.price.num, r.price.den, s, b)
        PROVE  2 * o.price.den * history'[GetOrderId(o)].bought
                 >= 2 * o.price.num * history'[GetOrderId(o)].sold
                    - history'[GetOrderId(o)].fills * (2 * o.price.num + o.price.den)
    <3> DEFINE h == history[GetOrderId(o)]
    <3>1. /\ o.price = r.price
          /\ o.price.num \in Nat /\ o.price.den \in Nat \ {0}
      BY <2>5, OrderFields DEF GetOrderId
    <3>2. h.sold \in Nat /\ h.bought \in Nat /\ h.fills \in Nat
      BY OrderFields DEF TypeOK
    <3>3. 2 * o.price.den * h.bought
            >= 2 * o.price.num * h.sold - h.fills * (2 * o.price.num + o.price.den)
      BY DEF FairFill
    <3>4. /\ history'[GetOrderId(o)].sold = h.sold + s
          /\ history'[GetOrderId(o)].bought = h.bought + b
          /\ history'[GetOrderId(o)].fills = h.fills + 1
      BY <2>5 DEF Traded
    <3> HIDE DEF h
    <3> QED
      BY <2>5, <3>1, <3>2, <3>3, <3>4, FairFillsAdd
  <2>6. ASSUME NEW o \in Orders
        PROVE  2 * o.price.den * history'[GetOrderId(o)].bought
                 >= 2 * o.price.num * history'[GetOrderId(o)].sold
                    - history'[GetOrderId(o)].fills * (2 * o.price.num + o.price.den)
    <3>1. CASE GetOrderId(o) = GetOrderId(o1)
      BY <2>2, <2>3, <2>4, <2>5, <3>1
    <3>2. CASE GetOrderId(o) = GetOrderId(o2)
      BY <2>2, <2>3, <2>4, <2>5, <3>2
    <3>3. CASE GetOrderId(o) \notin {GetOrderId(o1), GetOrderId(o2)}
      BY <2>2, <3>3, OrderFields DEF FairFill
    <3> QED
      BY <3>1, <3>2, <3>3
  <2> QED
    BY <2>6 DEF FairFill, GetOrderId
<1>3. CASE UNCHANGED history
  BY <1>3 DEF FairFill, GetOrderId
<1> QED
  BY <1>2, <1>3 DEF Next, vars, orderVars, Deposit, Grant, Accept, Revoke, Withdraw,
                    Cancel, Tick

\* Whatever fills it gets, as maker or taker, whole or in parts, an order is
\* paid its own price, short of at most p + q/2 per fill for a price p/q.
THEOREM FairToEveryOrder == Spec => []FairFill
<1>1. Init => FairFill
  <2> SUFFICES ASSUME Init, NEW o \in Orders
               PROVE  2 * o.price.den * history[GetOrderId(o)].bought
                        >= 2 * o.price.num * history[GetOrderId(o)].sold
                           - history[GetOrderId(o)].fills
                               * (2 * o.price.num + o.price.den)
    BY DEF FairFill
  <2>1. /\ o.price.num \in Nat /\ o.price.den \in Nat
        /\ history[GetOrderId(o)] = [sold |-> 0, bought |-> 0, fills |-> 0]
    BY OrderFields DEF Init
  <2>2. /\ 2 * o.price.den * 0 = 0 /\ 2 * o.price.num * 0 = 0
        /\ 0 * (2 * o.price.num + o.price.den) = 0
    BY <2>1
  <2> QED
    BY <2>1, <2>2
<1>2. TypeOK /\ FairFill /\ [Next]_vars => (TypeOK /\ FairFill)'
  BY NextType, NextFairFill
<1> QED
  BY <1>1, <1>2, InitType, PTL DEF Spec
=============================================================================
