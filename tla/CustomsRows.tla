----------------------------- MODULE CustomsRows -----------------------------
(***************************************************************************)
(* The rows of a customs declaration                                       *)
(* (services/agent_cli/mabang/fill_customs_declaration.py): the summary    *)
(* sheet of an SP's workbook with the quantities really packed, and the    *)
(* gross weight of its boxes shared out over them.                         *)
(*                                                                         *)
(* A workbook is [country, summary, restock].  A summary row is            *)
(* [date, sku, quantity, price, total, commodity, words], its date Blank,  *)
(* "day" or "stock" (the marker of goods taken from stock); a restock row  *)
(* is [date, first, skus, model].  Weights: hundredths of a kilogram in    *)
(* the boxes and net, tenths in the declared gross weights.                *)
(***************************************************************************)
EXTENDS ShipmentQuantities

(* The sheets are read down to the first row without a date. *)
Dated(rows) ==
  SubSeq(rows, 1, Min({i \in DOMAIN rows : rows[i].date = Blank} \cup {Len(rows) + 1}) - 1)

SourceRows(book) == Dated(book.summary)
FromStock(row) == row.date = "stock"

(***************************************************************************)
(* The restock sheet says which model a stock SKU is.                      *)
(***************************************************************************)
StockSkus(row) == row.skus \cup ({row.first} \ {Blank})

StockModels(book) ==
  LET rows == Range(Dated(book.restock))
  IN [s \in UNION {StockSkus(r) : r \in rows} |-> (CHOOSE r \in rows : s \in StockSkus(r)).model]

ModelsRefused(book) ==
  LET rows == Range(Dated(book.restock))
  IN \/ rows = {}
     \/ \E r \in rows : StockSkus(r) = {} \/ r.model = Blank
     \/ \E r, q \in rows : StockSkus(r) \cap StockSkus(q) # {} /\ r.model # q.model

RowModel(book, row) == StockModels(book)[row.sku]

(* The rows of one model: at most one of them may be bought now, the others come from stock. *)
OfModel(book, model) == {i \in DOMAIN SourceRows(book) : RowModel(book, SourceRows(book)[i]) = model}

RowsRefused(book) ==
  LET rows == SourceRows(book)
  IN \/ rows = <<>>
     \/ \E i \in DOMAIN rows : rows[i].sku \notin DOMAIN StockModels(book) \/ rows[i].quantity <= 0
     \/ \E i, j \in DOMAIN rows : /\ i # j /\ RowModel(book, rows[i]) = RowModel(book, rows[j])
                                  /\ ~FromStock(rows[i]) /\ ~FromStock(rows[j])

(***************************************************************************)
(* The units packed of each model, and which row declares them: the rows   *)
(* from stock in their order, each up to its quantity, then the bought one.*)
(***************************************************************************)
ModelUnits(book, actual) ==
  LET models == StockModels(book)
  IN [m \in {models[s] : s \in DOMAIN actual \cap DOMAIN models} |->
        SumOver(LAMBDA s : actual[s], {s \in DOMAIN actual \cap DOMAIN models : models[s] = m})]

UnitsRefused(book, actual) ==
  \E s \in DOMAIN actual :
    /\ actual[s] # 0
    /\ s \notin DOMAIN StockModels(book) \/ OfModel(book, StockModels(book)[s]) = {}

StockUpTo(book, mine, i) == SumOver(LAMBDA j : SourceRows(book)[j].quantity, {j \in mine : j < i})

(* Mutant: a row from stock takes what is left, however much it is. *)
FromStockUnlimited(book, carry, units, i) == Max({0, units - StockUpTo(book, carry, i)})
FromStockRow(book, carry, units, i) ==
  Min({SourceRows(book)[i].quantity, Max({0, units - StockUpTo(book, carry, i)})})

Carry(book, model) == {i \in OfModel(book, model) : FromStock(SourceRows(book)[i])}

Declared(book, units, i) ==
  LET model == RowModel(book, SourceRows(book)[i])
      carry == Carry(book, model)
      all == Count(units, model)
  IN IF OfModel(book, model) = {i} THEN all
     ELSE IF i \in carry THEN FromStockRow(book, carry, all, i)
     ELSE all - SumOver(LAMBDA j : FromStockRow(book, carry, all, j), carry)

(* More was packed than all the rows from stock hold, and no price to declare it at. *)
AllocationRefused(book, units) ==
  \E m \in DOMAIN units :
    /\ Cardinality(OfModel(book, m)) > 1 /\ Carry(book, m) = OfModel(book, m)
    /\ units[m] > StockUpTo(book, Carry(book, m), Len(SourceRows(book)) + 1)

(* classify_declaration: customs code and material of a product. *)
Material(row, otherwise) == IF "PC" \in row.words THEN "PC" ELSE IF "TPU" \in row.words THEN "TPU" ELSE otherwise
Classified(row) ==
  CASE row.commodity = "nylon band" -> <<"9113900090", "nylon">>
    [] row.commodity = "band" ->
         IF "milanese" \in row.words THEN <<"9113200000", "base metal">>
         ELSE IF "woven" \in row.words THEN <<"9113900090", "nylon">>
         ELSE IF "leather" \in row.words THEN <<"9113900090", "leather">>
         ELSE IF "silicone" \in row.words THEN <<"9113900090", "silicone">> ELSE <<Blank, Blank>>
    [] row.commodity = "case" -> <<"9111800000", IF "metal" \in row.words THEN "base metal" ELSE Material(row, "PC")>>
    [] row.commodity = "box" -> <<"4819200000", "paper and plastic">>
    [] row.commodity = "cover" -> <<"3926909090", Material(row, "PC")>>
    [] OTHER -> <<Blank, Blank>>

ActualRows(book, units) ==
  LET rows == SourceRows(book)
      all == [i \in DOMAIN rows |->
                [row |-> i, model |-> RowModel(book, rows[i]), quantity |-> Declared(book, units, i),
                 total |-> Declared(book, units, i) * rows[i].price, code |-> Classified(rows[i])]]
  IN SelectSeq(all, LAMBDA r : r.quantity > 0)

Comparison(book, units) ==
  [i \in DOMAIN SourceRows(book) |->
     ComparedRow(SourceRows(book)[i], RowModel(book, SourceRows(book)[i]), Declared(book, units, i))]

(***************************************************************************)
(* Weights.                                                                *)
(***************************************************************************)
RoundedTenths(hundredths) == (hundredths + 5) \div 10

BoxWeights(list) ==
  [b \in {list[i].box : i \in DOMAIN list} |-> (CHOOSE r \in Range(list) : r.box = b).weight]
TotalGross(list) == RoundedTenths(SumOver(LAMBDA b : BoxWeights(list)[b], DOMAIN BoxWeights(list)))
BoxCount(list) == Max(DOMAIN BoxWeights(list))

WeightsRefused(list) ==
  \/ list = <<>>
  \/ \E i \in DOMAIN list : list[i].box = Blank \/ list[i].weight <= 0
  \/ \E i, j \in DOMAIN list : list[i].box = list[j].box /\ list[i].weight # list[j].weight
  \/ TotalGross(list) <= 0

(* Each row's share by quantity, rounded to a tenth; the largest takes what rounding left. *)
RoundedShare(total, rows, i) ==
  LET all == SumOver(LAMBDA j : rows[j].quantity, DOMAIN rows)
  IN (2 * total * rows[i].quantity + all) \div (2 * all)

Heaviest(total, rows) ==
  Min({i \in DOMAIN rows : \A j \in DOMAIN rows : RoundedShare(total, rows, j) <= RoundedShare(total, rows, i)})

(* Mutant: rounding is not made good. *)
GrossWeightsRounded(total, rows) == [i \in DOMAIN rows |-> RoundedShare(total, rows, i)]
GrossWeights(total, rows) ==
  LET left == total - SumOver(LAMBDA j : RoundedShare(total, rows, j), DOMAIN rows)
  IN [i \in DOMAIN rows |-> RoundedShare(total, rows, i) + IF i = Heaviest(total, rows) THEN left ELSE 0]

SharesRefused(total, rows) ==
  LET top == Heaviest(total, rows)
  IN GrossWeights(total, rows)[top] # RoundedShare(total, rows, top) /\ GrossWeights(total, rows)[top] <= 0

NetWeight(gross) == IF gross > 1 THEN 10 * (gross - 1) ELSE IF gross > 0 THEN 10 * gross - 1 ELSE 0

(***************************************************************************)
(* read_input_bundle.                                                      *)
(***************************************************************************)
Units(csv, list) == Actual(DeliveryInfos(csv), Packed(list))

Bundle(sp, book, csv, list) ==
  LET units == ModelUnits(book, Units(csv, list))
      rows == ActualRows(book, units)
      gross == GrossWeights(TotalGross(list), rows)
  IN [sp |-> sp, country |-> book.country, rows |-> rows, gross |-> gross,
      net |-> [i \in DOMAIN gross |-> NetWeight(gross[i])], boxes |-> BoxCount(list),
      weight |-> TotalGross(list), comparison |-> Comparison(book, units)]

BundleRefused(book, csv, list) ==
  \/ ModelsRefused(book) \/ WeightsRefused(list) \/ RowsRefused(book)
  \/ DeliveryRefused(csv) \/ PackingRefused(list) \/ Blocked(DeliveryInfos(csv), Packed(list))
  \/ UnitsRefused(book, Units(csv, list))
  \/ AllocationRefused(book, ModelUnits(book, Units(csv, list)))
  \/ LET rows == ActualRows(book, ModelUnits(book, Units(csv, list)))
     IN rows = <<>> \/ SharesRefused(TotalGross(list), rows)

(***************************************************************************)
(* Several SPs in one declaration.                                         *)
(***************************************************************************)
AmountOf(rows) == SumOver(LAMBDA i : rows[i].total, DOMAIN rows)

(* Only the first three of many SPs are in the name of the file. *)
FileName(sps) == IF Len(sps) <= 3 THEN sps ELSE SubSeq(sps, 1, 3) \o <<"multi">>
=============================================================================
