------------------------- MODULE ReplenishmentRows -------------------------
(***************************************************************************)
(* The replenishment decision of one listing and the report of a store     *)
(* (services/mabang/amazon/fba/store_msku_replenishment.py): a listing goes *)
(* to the sheet of a means of transport with a quantity, from which the    *)
(* stock at Amazon and the unlinked shipments are deducted.                *)
(***************************************************************************)
EXTENDS StoreReports

ShippedSheets == {"urgent", "air", "sea"}

(* Mutant: the excess of a deduction comes back as a quantity. *)
RemainingAbs(quantity, deduction) ==
  IF quantity <= deduction THEN deduction - quantity ELSE quantity - deduction

Remaining(quantity, deduction) == IF quantity <= deduction THEN 0 ELSE quantity - deduction

(* Mutant: what the companion part used up is deducted from the sea part again. *)
DeductPartsTwice(parts, deduction) ==
  [air |-> Remaining(parts.air, deduction), sea |-> Remaining(parts.sea, deduction)]

(* _deduct_companion_then_sea: a deduction uses up the companion air part first. *)
DeductParts(parts, deduction) ==
  [air |-> Remaining(parts.air, deduction),
   sea |-> Remaining(parts.sea, Remaining(deduction, parts.air))]

(* Zero is read as absent: int(row.sea_quantity or original_quantity). *)
OrElse(quantity, default) == IF quantity \in {None, 0} THEN default ELSE quantity

OriginalParts(row) ==
  [air |-> OrElse(row.companion, 0), sea |-> OrElse(row.seaQty, row.original)]

(* The quantities of a row once the FBA stock and the unlinked shipments are deducted. *)
Deducted(row) ==
  IF row.sheet = "sea"
  THEN LET fba == DeductParts(OriginalParts(row), row.fba)
           final == DeductParts(fba, row.unlinked)
       IN [afterFba |-> fba.air + fba.sea, final |-> final.air + final.sea,
           sea |-> final.sea, air |-> final.air]
  ELSE LET fba == Remaining(row.original, row.fba)
       IN [afterFba |-> fba, final |-> Remaining(fba, row.unlinked), sea |-> 0, air |-> 0]

(* _with_clearance_split *)
WithClearanceSplit(row) ==
  IF row.sheet \in ShippedSheets /\ row.qty > 0 /\ row.clearance
  THEN [row EXCEPT !.sheet = "clearance", !.channel = row.sheet]
  ELSE row

(* The deducted row; covered: nothing is left to ship and the parts are zeroed. *)
WithQuantities(row, d, covered) ==
  [row EXCEPT !.qty = IF covered THEN 0 ELSE d.final,
              !.afterFba = d.afterFba,
              !.seaQty = IF row.sheet = "sea" THEN (IF covered THEN 0 ELSE d.sea) ELSE row.seaQty,
              !.companion = IF row.companion = None THEN None ELSE IF covered THEN 0 ELSE d.air]

TooLittleForSea(row, d, minWeight, minSea) ==
  /\ row.sheet = "sea" /\ row.weight # None
  /\ \/ minSea # None /\ d.sea < minSea
     \/ minWeight # None /\ d.sea * row.weight <= minWeight * 1000

(* _with_inventory_deductions *)
WithInventoryDeductions(row, minWeight, minSea) ==
  LET d == Deducted(row)
  IN IF d.final <= 0 THEN [WithQuantities(row, d, TRUE) EXCEPT !.sheet = "noShip"]
     ELSE IF TooLittleForSea(row, d, minWeight, minSea)
          THEN [WithQuantities(row, d, FALSE) EXCEPT !.sheet = "noShip"]
          ELSE WithClearanceSplit(WithQuantities(row, d, FALSE))

(* The row before a means of transport is chosen. *)
BaseRow(entry, detail, daily, unlinked) ==
  [msku |-> entry.row.msku, parent |-> entry.row.parent, sku |-> entry.row.sku,
   clearance |-> entry.row.clearance, actual |-> entry.actual, fba |-> entry.row.fba,
   weight |-> detail.row.weight, daily |-> daily, unlinked |-> unlinked,
   sheet |-> "noShip", channel |-> "", qty |-> None, original |-> None, afterFba |-> None,
   seaDays |-> None, seaQty |-> None, companion |-> None,
   restockNet |-> None, amazonNet |-> None]

WithTarget(base, quantity) == [base EXCEPT !.qty = quantity, !.original = quantity]

(* sales_days <= bound, where sales_days = fba / daily *)
SalesDaysAtMost(row, days) == row.fba * Scale <= days * row.daily

(* The sea branch: the candidate of the daily sales, alone or split with a companion by air. *)
SeaRow(base, row, p) ==
  LET days == SeaDays(row.daily, p, p.tiers)
      target == CeilDays(row.daily, days)
      airDays == SeaDays(row.daily, p, p.companionTiers)
      air == CeilDays(row.daily, airDays)
      sea == IF air >= target THEN 0 ELSE target - air
      split == [WithTarget(base, sea + air) EXCEPT !.sheet = "sea", !.seaDays = days,
                                                   !.seaQty = sea, !.companion = air]
      whole == [WithTarget(base, target) EXCEPT !.sheet = "sea", !.seaDays = days, !.seaQty = target]
  IN IF days = None \/ (p.companion /\ airDays = None) THEN row
     ELSE IF p.companion
          THEN WithInventoryDeductions(split, p.minWeight, IF p.minNet = None THEN 0 ELSE p.minNet)
     ELSE IF target * base.weight > p.minWeight * 1000
          THEN WithInventoryDeductions(whole, p.minWeight, None)
     ELSE row

(* calculate_replenishment_row *)
CalculateRow(entry, detail, template, unlinked) ==
  LET p == EffectiveParams(template, entry.row.msku)
      daily == WeightedDaily(detail.row, p)
      group == TrendGroups[detail.trend]
      base == BaseRow(entry, detail, daily, unlinked)
      row == WithTarget(base, CeilDays(daily, ReplenishmentDays(daily, group, p)))
  IN CASE group = "skip" -> [base EXCEPT !.sheet = "few"]
       [] group # "skip" /\ daily = 0 -> row
       [] OTHER ->
            IF SalesDaysAtMost(row, p.urgent)
            THEN WithInventoryDeductions([row EXCEPT !.sheet = "urgent"], None, None)
            ELSE IF SalesDaysAtMost(row, p.air)
            THEN WithInventoryDeductions([row EXCEPT !.sheet = "air"], None, None)
            ELSE IF ~p.seaEnabled \/ ~SeaDailyMeetsMin(daily, p) \/ row.weight = None THEN row
            ELSE SeaRow(base, row, p)

(* _with_amazon_restock_inventory_snapshot, _with_amazon_fba_inventory_snapshot: what would
   be left had Amazon's own stock been deducted; shown beside the quantity, never used. *)
AmazonNet(row, quantities) ==
  IF row.msku \notin DOMAIN quantities \/ row.original = None THEN None
  ELSE Remaining(Remaining(row.original, quantities[row.msku]), row.unlinked)

(* load_inventory_rows: the bundle and the single sheets; the other two are not read. *)
InventoryEntries(report) ==
  [i \in 1..(Len(report.combo) + Len(report.stock)) |->
     LET e == (report.combo \o report.stock)[i]
     IN [e EXCEPT !.row.parent = IF e.row.parent = Blank THEN "no parent" ELSE e.row.parent]]

DetailsFor(sales, entry) == {d \in Range(sales.details) : Key(d.row) = Key(entry.row)}

(* load_sales_details and calculate_replenishment_rows raise for a duplicate or a missing key. *)
RowsRefused(sales, inventory) ==
  \/ \E i, j \in DOMAIN sales.details : i < j /\ Key(sales.details[i].row) = Key(sales.details[j].row)
  \/ \E e \in Range(InventoryEntries(inventory)) : DetailsFor(sales, e) = {}

CalculateRows(sales, inventory, template, unlinked, restock, amazon) ==
  LET entries == InventoryEntries(inventory)
      Quantity(m) == IF m \in DOMAIN unlinked THEN unlinked[m] ELSE 0
      Row(e) == CalculateRow(e, CHOOSE d \in DetailsFor(sales, e) : TRUE, template,
                             Quantity(e.row.msku))
  IN [i \in DOMAIN entries |->
        LET row == Row(entries[i])
        IN [row EXCEPT !.restockNet = AmazonNet(row, restock), !.amazonNet = AmazonNet(row, amazon)]]

(* summarize_links: one line per parent; rows of the clearance sheet are left out. *)
Count(quantity) == IF quantity = None THEN 0 ELSE quantity

(* Mutant: the clearance rows are summed up too. *)
ListedRowsAll(rows) == rows
ListedRows(rows) == SelectSeq(rows, LAMBDA r : r.sheet # "clearance")

LinkSummary(rows) ==
  LET listed == ListedRows(rows)
      Mine(p) == SelectSeq(listed, LAMBDA r : r.parent = p)
      On(p, sheet, Value(_)) == SumOver(SelectSeq(Mine(p), LAMBDA r : r.sheet = sheet), Value)
  IN [p \in {r.parent : r \in Range(listed)} |->
        [count  |-> Len(Mine(p)),
         total  |-> SumOver(SelectSeq(Mine(p), LAMBDA r : r.sheet # "few"), LAMBDA r : Count(r.qty)),
         urgent |-> On(p, "urgent", LAMBDA r : Count(r.qty)),
         air    |-> On(p, "air", LAMBDA r : Count(r.qty)),
         sea    |-> On(p, "sea", LAMBDA r : Count(r.seaQty)),
         daily  |-> SumOver(Mine(p), LAMBDA r : r.daily),
         unlinked |-> SumOver(Mine(p), LAMBDA r : r.unlinked),
         sheets |-> {r.sheet : r \in Range(Mine(p))}]]

(* inventory_shortage_rows: shipped rows the warehouse cannot fill. *)
Shortages(rows) ==
  LET Gap(r) == r.qty - r.actual
      short == SelectSeq(rows, LAMBDA r : /\ r.sheet \in ShippedSheets
                                          /\ r.qty # None /\ r.actual # None /\ Gap(r) > 0)
  IN [i \in DOMAIN short |-> [row |-> short[i], gap |-> Gap(short[i])]]

(* write_replenishment_report: the rows by sheet, with the shortage and the link sheets. *)
ReportSheets(rows) ==
  [shortage |-> Shortages(rows), links |-> LinkSummary(rows),
   by |-> [s \in {"urgent", "air", "sea", "clearance", "noShip", "few"} |->
             SelectSeq(rows, LAMBDA r : r.sheet = s)]]
=============================================================================
