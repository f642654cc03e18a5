-------------------------- MODULE MCReplenishment --------------------------
(* One store of three listings under two parents, two downloads over two days. *)
EXTENDS Replenishment, ReplenishmentSchemes

Listing(msku, parent, sku, perDay, weight, fba) ==
  [msku |-> msku, parent |-> parent, sku |-> sku, weight |-> weight, fba |-> fba, asin |-> "a",
   s7 |-> 7 * perDay, s14 |-> 14 * perDay, s30 |-> 30 * perDay, clearance |-> FALSE]

M1(fba) == Listing("m1", "p", "k1", 2, 100, fba)
M2(fba) == Listing("m2", "p", "kit", 1, 300, fba)
M3(fba) == Listing("m3", "q", "k2", 2, 100, fba)
Few == [M3(5) EXCEPT !.s7 = 1, !.s14 = 2, !.s30 = 4]
Idle == [M3(5) EXCEPT !.s7 = 0, !.s14 = 6, !.s30 = 20]

MCDownloads ==
  { <<M1(110), M2(30), M3(160)>>,                                   \* air or split, urgent, sea
    <<[M1(100) EXCEPT !.clearance = TRUE], M2(105), Few>>,          \* clearance, too light
    <<[M1(60) EXCEPT !.sku = Blank], [M2(80) EXCEPT !.weight = None], Idle>>,
    <<M1(20), [M2(40) EXCEPT !.parent = Blank]>>,                   \* the calculation refuses it
    <<M1(20), M1(20)>> }                                            \* the analysis refuses it

MCCombos == [k \in {"kit"} |-> [c \in {"k1", "k2"} |-> IF c = "k1" THEN 2 ELSE 1]]
MCStocks == { [c \in {"k1", "k2"} |-> IF c = "k1" THEN 41 ELSE 100], [c \in {"k1"} |-> 500] }

Raw(shop, msku, quantity) == [msku |-> msku, quantity |-> quantity, store |-> shop]
MCRawShipments ==
  { <<Raw("S", "m1", 30), Raw(Blank, "m1", 10), Raw("S", "m2", 0), Raw("S", "m3", 25)>>,
    <<Raw("other", "m1", 5)>>, <<Raw("S", "m1", None)>> }

Planning(msku, total, date) == [msku |-> msku, total |-> total, date |-> date, market |-> "US"]
Restock(msku, onHand, shipped, total, date) ==
  [msku |-> msku, total |-> total, date |-> date, onHand |-> onHand, shipped |-> shipped,
   inbound |-> shipped, working |-> 0, receiving |-> 0]
MCAmazonFiles ==
  [kind \in {"fba", "restock"} |->
     IF kind = "fba"
     THEN { <<Planning("m1", 50, 2), Planning("m1", 5, 2)>>, <<Planning("x", 9, 0)>> }
     ELSE { <<Restock("m2", 10, 5, 15, None)>>, <<Restock("m2", 10, 5, 16, None)>> }]

MCSchemes == [n \in {"default", "split", "odd"} |->
               CASE n = "default" -> Default
                 [] n = "split" -> Split [] OTHER -> Odd]
LongSchemes == [n \in {"long"} |-> LongCompanion]
=============================================================================
