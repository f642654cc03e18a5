---------------------------- MODULE StoreReports ----------------------------
(***************************************************************************)
(* The reports a store's replenishment is calculated from, each read from  *)
(* files and written to a file (services/mabang/amazon/fba): the analysis  *)
(* of sales, the stock of the Shenzhen warehouse, the shipments not yet    *)
(* linked, and Amazon's own inventory reports.                             *)
(*                                                                         *)
(* A listing is a row of the downloaded listing file: msku, parent and     *)
(* asin, sku (the local SKU), sales windows s7, s14, s30, weight, fba (the *)
(* six FBA quantities together) and clearance (the remark says so).        *)
(* Blank stands for an empty cell.                                         *)
(***************************************************************************)
EXTENDS ReplenishmentTemplate, FiniteSetsExt, Functions

CONSTANT Blank

Key(l) == <<l.msku, l.parent, l.asin, l.sku>>

SumOver(rows, Value(_)) == FoldSeq(LAMBDA r, acc : acc + Value(r), 0, rows)

LatestTime(files) == CHOOSE t \in DOMAIN files : \A u \in DOMAIN files : u <= t

(***************************************************************************)
(* Sales analysis.  Speeds are per day over 1120, so the ratio of the      *)
(* current speed to the baseline is compared exactly.                      *)
(***************************************************************************)
Baseline(l) == 96 * (l.s14 - l.s7) + 28 * (l.s30 - l.s14)

RatioAtLeast(l, tenths) == Baseline(l) > 0 /\ 1600 * l.s7 >= tenths * Baseline(l)
RatioAtMost(l, percent) == Baseline(l) < 0 \/ 16000 * l.s7 <= percent * Baseline(l)

SalesTrend(l) ==
  CASE l.s30 < 10                                -> "few"
    [] l.s30 >= 10 /\ Baseline(l) = 0 /\ l.s7 > 0 -> "resumed"
    [] l.s30 >= 10 /\ Baseline(l) = 0 /\ l.s7 = 0 -> "none"
    [] OTHER -> IF RatioAtLeast(l, 15) THEN "surging"
                ELSE IF RatioAtLeast(l, 12) THEN "growing"
                ELSE IF RatioAtMost(l, 60) THEN "plunging"
                ELSE IF RatioAtMost(l, 85) THEN "falling" ELSE "steady"

(* _summarize_links: one line per parent, with the sums of its listings. *)
SalesLinks(rows) ==
  LET parents == {rows[i].parent : i \in DOMAIN rows}
  IN [p \in parents |->
        LET mine == SelectSeq(rows, LAMBDA l : l.parent = p)
        IN [count |-> Len(mine), asins |-> {l.asin : l \in Range(mine)} \ {Blank},
            s7 |-> SumOver(mine, LAMBDA l : l.s7),
            s14 |-> SumOver(mine, LAMBDA l : l.s14),
            s30 |-> SumOver(mine, LAMBDA l : l.s30)]]

(* _summarize_asins refuses a file that lists the same listing twice. *)
ListedTwice(rows) ==
  \E i, j \in DOMAIN rows :
    i < j /\ <<rows[i].asin, rows[i].parent, rows[i].msku>>
             = <<rows[j].asin, rows[j].parent, rows[j].msku>>

(* analyze_store_msku_sales: the detail sheet keeps every column and adds the trend. *)
SalesReport(rows) ==
  [details |-> [i \in DOMAIN rows |-> [row |-> rows[i], trend |-> SalesTrend(rows[i])]],
   links |-> [p \in DOMAIN SalesLinks(rows) |->
                [sums |-> SalesLinks(rows)[p], trend |-> SalesTrend(SalesLinks(rows)[p])]]]

(***************************************************************************)
(* Warehouse stock.  combos maps the SKU of a bundle to the quantity of    *)
(* each of its components; stock maps the SKUs the warehouse export holds. *)
(***************************************************************************)
StockSkus(rows, combos) ==
  UNION {IF l.sku = Blank THEN {}
         ELSE IF l.sku \in DOMAIN combos THEN DOMAIN combos[l.sku] ELSE {l.sku} :
         l \in Range(rows)}

(* calculate_inventory_rows: what can be built of a listing's SKU. *)
ActualInventory(sku, combos, stock) ==
  IF sku = Blank THEN None
  ELSE IF sku \notin DOMAIN combos
       THEN IF sku \in DOMAIN stock THEN stock[sku] ELSE None
       ELSE IF DOMAIN combos[sku] \subseteq DOMAIN stock
            THEN Min({stock[c] \div combos[sku][c] : c \in DOMAIN combos[sku]})
            ELSE None

MissingStock(rows, combos, stock) == StockSkus(rows, combos) \ DOMAIN stock

(* split_inventory_rows and write_actual_inventory_xlsx: the sheets of the report. *)
InventoryReport(rows, combos, stock) ==
  LET actual(l) == ActualInventory(l.sku, combos, stock)
      Sheet(Keep(_)) == SelectSeq([i \in DOMAIN rows |-> [row |-> rows[i], actual |-> actual(rows[i])]],
                                  LAMBDA r : Keep(r))
  IN [combo   |-> Sheet(LAMBDA r : r.actual # None /\ r.row.sku \in DOMAIN combos),
      stock   |-> Sheet(LAMBDA r : r.actual # None /\ r.row.sku \notin DOMAIN combos),
      noSku   |-> Sheet(LAMBDA r : r.row.sku = Blank),
      noStock |-> Sheet(LAMBDA r : r.row.sku # Blank /\ r.actual = None)]

(***************************************************************************)
(* Unlinked shipments.  A raw file is a sequence of lines with the store,  *)
(* the MSKU and the quantity (None when the cell is empty).                *)
(***************************************************************************)
RawLineRefused(line, store) ==
  /\ line.msku # Blank
  /\ \/ line.store \notin {Blank, store}
     \/ line.quantity = None
     \/ line.quantity # None /\ line.quantity < 0

UnlinkedDetails(lines) ==
  SelectSeq(lines, LAMBDA l : l.msku # Blank /\ l.quantity > 0)

UnlinkedSummary(lines) ==
  LET details == UnlinkedDetails(lines)
  IN [m \in {d.msku : d \in Range(details)} |->
        SumOver(SelectSeq(details, LAMBDA d : d.msku = m), LAMBDA d : d.quantity)]

(***************************************************************************)
(* Amazon's inventory reports: the planning report (fba) and the restock   *)
(* report, whose totals must add up.                                       *)
(***************************************************************************)
RestockFormulasHold(line) ==
  /\ line.inbound = line.working + line.shipped + line.receiving
  /\ line.total = line.onHand + line.inbound

AmazonSummary(lines) ==
  LET named == SelectSeq(lines, LAMBDA l : l.msku # Blank)
  IN [m \in {l.msku : l \in Range(named)} |->
        SumOver(SelectSeq(named, LAMBDA l : l.msku = m), LAMBDA l : l.total)]

(* _validate_snapshot: enough SKUs, and enough of the best stocked ones, are the store's. *)
AmazonFileIsOfStore(summary, mskus, ratio, topLimit, topRatio) ==
  LET skus == DOMAIN summary
      top == CHOOSE T \in SUBSET skus :
               /\ Cardinality(T) = Min({topLimit, Cardinality(skus)})
               /\ \A m \in T, n \in skus \ T : summary[m] >= summary[n]
  IN /\ 100 * Cardinality(skus \cap mskus) >= ratio * Cardinality(skus)
     /\ 100 * Cardinality(top \cap mskus) >= topRatio * Cardinality(top)

(* _aggregate_amazon_rows: one snapshot date; for the planning report one marketplace too. *)
AmazonDates(lines) == {l.date : l \in Range(lines)} \ {None}

AmazonFileRefused(kind, lines) ==
  \/ lines = <<>>
  \/ DOMAIN AmazonSummary(lines) = {}
  \/ Cardinality(AmazonDates(lines)) > 1
  \/ /\ kind = "fba"
     /\ Cardinality(AmazonDates(lines)) # 1 \/ Cardinality({l.market : l \in Range(lines)} \ {Blank}) # 1
  \/ kind = "restock" /\ \E i \in DOMAIN lines : lines[i].msku # Blank /\ ~RestockFormulasHold(lines[i])

(* A restock report without a date column is dated on the day it is read. *)
AmazonDate(lines, today) ==
  IF AmazonDates(lines) = {} THEN today ELSE CHOOSE d \in AmazonDates(lines) : TRUE
=============================================================================
