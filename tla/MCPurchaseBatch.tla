-------------------------- MODULE MCPurchaseBatch --------------------------
(* Delivery orders, a master workbook and a stock for the model of purchase batches. *)
EXTENDS PurchaseBatch

Row(msku, ship, parts) == [msku |-> msku, ship |-> ship, parts |-> parts]

MCContents ==
  [full    |-> <<Row("M1", 1, [a |-> 2]), Row("M2", 1, [b |-> 1])>>,
   partial |-> <<Row("M1", 1, [a |-> 2, d |-> 1])>>,
   second  |-> <<Row("M1", 1, [a |-> 1]), Row("M3", 1, [c |-> 1])>>]

MCDownloads == <<{"full", "partial"}, {"second"}>>

Product(sku, supplier, model, price) == [sku |-> sku, supplier |-> supplier, model |-> model, price |-> price]

Contracts ==
  {[supplier |-> "X", unit |-> "pc", prefix |-> "PX", tax |-> 13], [supplier |-> "Y", unit |-> "pc", prefix |-> "PY", tax |-> 3]}

MCMaster ==
  [products |-> <<Product("a", "X", <<"m1", "M1">>, 10), Product("b", "X", <<"m2", "M2">>, 20),
                  Product("c", "Y", <<"m3", "M3">>, 30)>>,
   contracts |-> SetToSeq(Contracts)]

(* The second stock SKU is the same model, spelled otherwise. *)
MCMasterVariants ==
  [MCMaster EXCEPT !.products[2] = Product("b", "X", <<"m1", "m1">>, 10)]

Entry(model, contract, price, original) ==
  [price |-> price, contract |-> contract, original |-> original, key |-> <<"X", model>>]

MCEntries == <<Entry("m1", "old1", 9, 1), Entry("m1", "old2", 8, 1), Entry("m2", "old1", 9, 1)>>

(* Enough of it in stock for a whole batch. *)
MCEntriesAmple == [MCEntries EXCEPT ![1].original = 4]

MCSps == {<<1, 2>>}
=============================================================================
