--------------------------- MODULE MCOrderIntake ---------------------------
(* A small instance of OrderIntake for TLC. *)
EXTENDS OrderIntake

CONSTANTS me, peer, u1, u2, base, x, y, z

\* Pairs: base is quoted in x, y in base; y and z have no quote token.
AssetOrder == <<base, x, y, z>>
Quoted == <<x, base>>

Tenth == [num |-> 1, den |-> 10]
Half == [num |-> 1, den |-> 2]

PlainOrder(address, sell, buy, amount, num, den) ==
    [address |-> address, signer |-> address,
     sell_asset |-> sell, buy_asset |-> buy, sell_amount |-> amount,
     price |-> [num |-> num, den |-> den], nonce |-> 0,
     matcher |-> me, matcher_fee |-> 5, matcher_fee_asset |-> sell,
     affiliate |-> NoAddress, affiliate_fee |-> 0, affiliate_fee_asset |-> NoAsset,
     aa |-> ThisAddress, expiry_ts |-> 0]

\* u1 sells base at 2, at too precise a price, and signed by u2; u2 buys it at 2,
\* and at 3 with an affiliate whose fee, or its asset, is left out.  The orders in y
\* have the same price at the backend only.  One order is for the peer, one has no pair.
MCOrders ==
    {PlainOrder(u1, base, x, 7, 2, 1),
     PlainOrder(u1, base, x, 10, 22, 10),
     [PlainOrder(u1, base, x, 9, 3, 1) EXCEPT !.signer = u2],
     PlainOrder(u2, x, base, 10, 1, 2),
     [PlainOrder(u2, x, base, 11, 1, 3) EXCEPT !.affiliate = peer, !.affiliate_fee = 2],
     [PlainOrder(u2, x, base, 12, 1, 3) EXCEPT !.affiliate = me, !.affiliate_fee_asset = x],
     PlainOrder(u1, y, base, 9, 1, 9),
     PlainOrder(u2, base, y, 1, 10, 1),
     [PlainOrder(u2, x, base, 4, 1, 2) EXCEPT !.matcher = peer, !.matcher_fee = 2,
                 !.affiliate = me, !.affiliate_fee = 1, !.affiliate_fee_asset = x],
     PlainOrder(u1, y, z, 3, 1, 1)}

MCAddresses == {me, peer, u1, u2}
MCMatchers == {me, peer}
MCSigners == {<<u1, u2>>}
MCCancellable == {PlainOrder(u1, base, x, 7, 2, 1)}
MCMembers == {u1}
============================================================================
