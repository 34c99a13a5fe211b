------------------------------ MODULE MCDexAA ------------------------------
(* Small instances of DexAA for TLC. *)
EXTENDS DexAA

CONSTANTS u1, u2, m, base, x

\* An order of `address' without affiliate or expiry; EXCEPT makes the variants.
PlainOrder(address, sell, buy, amount, num, den) ==
    [address |-> address, signer |-> address,
     sell_asset |-> sell, buy_asset |-> buy, sell_amount |-> amount,
     price |-> [num |-> num, den |-> den], nonce |-> 0,
     matcher |-> m, matcher_fee |-> 0, matcher_fee_asset |-> base,
     affiliate |-> NoAddress, affiliate_fee |-> 0, affiliate_fee_asset |-> base,
     aa |-> ThisAddress, expiry_ts |-> 0]

\* Users u1 and u2 and the matcher m.
MCAddresses == {u1, u2, m}
MCAssets == {base, x}

\* u1 sells 3 x at 3/2 bytes each, in two packages with the same id: one pays
\* the matcher a fee, the other one expires.  u2 buys x with bytes in two
\* orders, one of them signed by m and affiliated with u1.
SellX == PlainOrder(u1, x, base, 3, 3, 2)
BuyX  == PlainOrder(u2, base, x, 2, 2, 3)
MCOrders ==
    {[SellX EXCEPT !.matcher_fee = 1],
     [SellX EXCEPT !.expiry_ts = 1],
     BuyX,
     [PlainOrder(u2, base, x, 3, 1, 2) EXCEPT
         !.signer = m, !.affiliate = u1, !.affiliate_fee = 1]}

MCPayments ==
    {[base |-> 2, asset |-> x, amount |-> 3],
     [base |-> 5, asset |-> NoAsset, amount |-> 0]}

MCMaxHoldings == [a \in MCAssets |-> IF a = base THEN 7 ELSE 3]
============================================================================
