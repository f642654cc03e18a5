--------------------------- MODULE MCDeclarations ---------------------------
(* Workbooks, files and a template for the model of declarations. *)
EXTENDS Declarations

Msku(msku, ship, parts) == [msku |-> msku, ship |-> ship, parts |-> parts]
Boxed(box, msku, quantity, weight) == [msku |-> msku, box |-> box, quantity |-> quantity, weight |-> weight]

MCPlannedCsv ==
  [A |-> <<Msku("M1", 3, [a |-> 3]), Msku("M2", 2, [b |-> 2])>>,
   B |-> <<Msku("N1", 2, [c |-> 2, d |-> 2]), Msku("N2", 1, [e |-> 1]), Msku("N3", 1, [d |-> 1])>>]

(* One more of one MSKU and one less of another; an order packed as planned. *)
MCPackedCsv ==
  [MCPlannedCsv EXCEPT !.A = <<Msku("M1", 4, [a |-> 4]), Msku("M2", 1, [b |-> 1])>>]

MCLists ==
  [A |-> {<<Boxed(1, "M1", 3, 105), Boxed(2, "M2", 2, 230)>>, <<Boxed(1, "M1", 1, 99), Boxed(1, "M2", 1, 99)>>},
   B |-> {<<Boxed(1, "N3", 1, 120), Boxed(1, "N1", 1, 120), Boxed(2, "N2", 1, 57), Boxed(2, "N1", 1, 57)>>}]

Item(date, sku, model, quantity, price, commodity, words) ==
  [quantity |-> quantity, date |-> date, sku |-> sku, model |-> model, price |-> price,
   commodity |-> commodity, words |-> words, total |-> quantity * price]

Stocked(first, skus, model) == [date |-> "day", model |-> model, first |-> first, skus |-> skus]

InLedger(sku, model, quantity) == [quantity |-> quantity, sku |-> sku, model |-> model]

MCBooks ==
  [A |-> [country |-> "US", summary |-> <<Item("stock", "a", "m1", 1, 1005, "band", {"silicone"}),
                                          Item("stock", "a", "m1", 1, 20030, "band", {"silicone"}),
                                          Item("day", "a", "m1", 1, 300, "band", {"silicone"}),
                                          Item("stock", "b", "m2", 2, 10500, "case", {})>>,
          restock |-> <<Stocked("a", {"a"}, "m1"), Stocked(Blank, {"b"}, "m2")>>,
          ledger |-> <<InLedger("a", "m1", 3), InLedger("b", "m2", 2)>>],
   B |-> [country |-> "US", summary |-> <<Item("day", "c", Blank, 4, 1010, "nylon band", {}),
                                          Item("day", "e", "n2", 1, 100, "box", {})>>,
          restock |-> <<Stocked("c", {"c", "d"}, "n1"), Stocked("e", {"e"}, "n2")>>,
          ledger |-> <<InLedger("c", "n1", 2), InLedger("d", "n1", 2), InLedger("e", "n2", 1)>>]]

Line(id, refs) == [refs |-> refs, id |-> id]
Own(to) == [to |-> to, fixed |-> FALSE, own |-> TRUE]

(* room: rows under the header; below the total a row merged with the next and a note on the total. *)
FormulaTemplate(room) ==
  LET total == 2 + room + 1
  IN [rows |-> <<Line("title", {}), Line("header", {}), Line("item", {[to |-> 7, fixed |-> FALSE, own |-> FALSE]})>>
               \o [i \in 1 .. room - 1 |-> Line("blank", {})]
               \o <<Line("total", {}), Line("words", {Own(total)}), Line("seal", {}), Line("note", {Own(total + 1)})>>,
      merges |-> {[first |-> total + 1, what |-> "words", last |-> total + 2]},
      print |-> total + 3, breaks |-> {total + 2}]

DetailTemplate(blocks) ==
  [rows |-> <<Line("title", {}), Line("header", {})>> \o [i \in 1 .. blocks * BlockRows |-> Line("block", {})],
   merges |-> {[first |-> 3, what |-> "boxes", last |-> 2 + blocks * BlockRows]},
   print |-> 2 + blocks * BlockRows, breaks |-> {}]

MCTemplate == [detail |-> DetailTemplate(5), formulas |-> <<FormulaTemplate(8), FormulaTemplate(2)>>]

MCJoint == {<<"A">>, <<"B">>, <<"A", "B">>}
=============================================================================
