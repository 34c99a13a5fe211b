--------------------------- MODULE MCDexAAPrices ---------------------------
(* DexAA with orders whose prices and amounts do not divide evenly. *)
EXTENDS MCDexAA

\* u1 sells x in two orders, u2 buys x with bytes in three; some of them cross
\* and some do not, and either side may be the maker.
PricesOrders ==
    {PlainOrder(u1, x, base, 7, 5, 3),
     PlainOrder(u1, x, base, 4, 1, 2),
     PlainOrder(u2, base, x, 5, 1, 2),
     PlainOrder(u2, base, x, 9, 3, 5),
     PlainOrder(u2, base, x, 2, 2, 1)}

PricesPayments ==
    {[base |-> 16, asset |-> x, amount |-> 11], [base |-> 16, asset |-> NoAsset, amount |-> 0]}

PricesMaxHoldings == [a \in MCAssets |-> IF a = base THEN 40 ELSE 11]
============================================================================
