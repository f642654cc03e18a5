--------------------------- MODULE Replenishment ---------------------------
(***************************************************************************)
(* From a store's downloaded listings to its replenishment report.  Each   *)
(* action is one command of the lxeskill command line; the commands meet   *)
(* in the files they leave in the dataset directories, named by the time   *)
(* of the listing download they were made from.                            *)
(***************************************************************************)
EXTENDS ReplenishmentRows

CONSTANTS
  Store,           \* the store's name
  Schemes,         \* the parameter schemes that can be named: name -> parameters
  Downloads,       \* the listing files the ERP may return: a set of sequences of listings
  Combos, Stocks,  \* the bundles, and the warehouse exports that may come back
  RawShipments,    \* unlinked shipment files
  AmazonFiles,     \* kind -> the CSV files a user may hand in
  MaxTime, PerDay, \* bounds: commands are at times 0..MaxTime, PerDay of them to a day
  MaxDownloads,    \* bound: downloads of listings
  MaxSnapshots     \* bound: unlinked shipments snapshots

VARIABLES
  now,
  listings,        \* time -> listing file
  sales,           \* time -> sales report
  inventory,       \* time -> inventory report
  unlinked,        \* time -> unlinked shipments snapshot
  amazon,          \* kind -> None or the last snapshot of the kind
  report,          \* the report just written, or None: it is looked at as it is written
  downloads,       \* history: how many listing files were downloaded
  outdated         \* history: <<kind, time>> of reports whose listing file was overwritten since

fileVars == <<listings, sales, inventory, unlinked, amazon>>
historyVars == <<downloads, outdated>>
vars == <<now, fileVars, report, historyVars>>

DayOf(t) == t \div PerDay

NoFiles == [t \in {} |-> None]
Put(files, t, content) == [u \in DOMAIN files \cup {t} |-> IF u = t THEN content ELSE files[u]]

Init ==
  /\ now = 0
  /\ listings = NoFiles /\ sales = NoFiles /\ inventory = NoFiles /\ unlinked = NoFiles
  /\ amazon = [k \in {"restock", "fba"} |-> None]
  /\ report = None
  /\ downloads = 0 /\ outdated = {}

Tick ==
  /\ now < MaxTime
  /\ now' = now + 1
  /\ report' = None
  /\ UNCHANGED <<fileVars, historyVars>>

(* download_store_msku_excel: the file is named by the minute, and a second download in a
   minute overwrites it, whatever was made of it meanwhile. *)
DownloadListings(rows) ==
  /\ downloads < MaxDownloads
  /\ downloads' = downloads + 1
  /\ listings' = Put(listings, now, rows)
  /\ LET again == DOMAIN listings \cap {now}
     IN outdated' = outdated \cup {<<"sales", t>> : t \in DOMAIN sales \cap again}
                             \cup {<<"inventory", t>> : t \in DOMAIN inventory \cap again}
  /\ report' = None
  /\ UNCHANGED <<now, sales, inventory, unlinked, amazon>>

(* analyze_store_msku_sales: of the latest listing file; a listing named twice is an error. *)
AnalyzeSales ==
  /\ DOMAIN listings # {}
  /\ LET t == LatestTime(listings)
     IN /\ ~ListedTwice(listings[t])
        /\ sales' = Put(sales, t, SalesReport(listings[t]))
        /\ outdated' = outdated \ {<<"sales", t>>}
  /\ report' = None
  /\ UNCHANGED <<now, listings, inventory, unlinked, amazon, downloads>>

(* Mutant: the report is named by the time of the export. *)
ExportInventoryNamedNow(stock) ==
  /\ DOMAIN listings # {}
  /\ LET t == LatestTime(listings)
         known == Restrict(stock, DOMAIN stock \cap StockSkus(listings[t], Combos))
     IN /\ inventory' = Put(inventory, now, InventoryReport(listings[t], Combos, known))
        /\ outdated' = outdated \ {<<"inventory", now>>}
  /\ report' = None
  /\ UNCHANGED <<now, listings, sales, unlinked, amazon, downloads>>

(* export_store_msku_actual_inventory: of the latest listing file; the warehouse export holds
   the SKUs asked for that the warehouse knows. *)
ExportInventory(stock) ==
  /\ DOMAIN listings # {}
  /\ LET t == LatestTime(listings)
         known == Restrict(stock, DOMAIN stock \cap StockSkus(listings[t], Combos))
     IN /\ inventory' = Put(inventory, t, InventoryReport(listings[t], Combos, known))
        /\ outdated' = outdated \ {<<"inventory", t>>}
  /\ report' = None
  /\ UNCHANGED <<now, listings, sales, unlinked, amazon, downloads>>

(* build_store_unlinked_shipments_snapshot *)
SnapshotUnlinked(lines) ==
  /\ Cardinality(DOMAIN unlinked) < MaxSnapshots
  /\ \A i \in DOMAIN lines : ~RawLineRefused(lines[i], Store)
  /\ unlinked' = Put(unlinked, now, UnlinkedSummary(lines))
  /\ report' = None
  /\ UNCHANGED <<now, listings, sales, inventory, amazon, historyVars>>

(* build_amazon_restock_inventory_snapshot, build_amazon_fba_inventory_snapshot *)
SnapshotAmazon(kind, lines) ==
  /\ DOMAIN listings # {}
  /\ ~AmazonFileRefused(kind, lines)
  /\ LET mskus == {l.msku : l \in Range(listings[LatestTime(listings)])}
         summary == AmazonSummary(lines)
     IN /\ AmazonFileIsOfStore(summary, mskus, 70, 10, 70)
        /\ amazon' = [amazon EXCEPT ![kind] = [date |-> AmazonDate(lines, DayOf(now)),
                                               quantities |-> summary]]
  /\ report' = None
  /\ UNCHANGED <<now, listings, sales, inventory, unlinked, historyVars>>

(* find_matching_report_files: the newest download both reports were made from. *)
MatchingTimes == DOMAIN sales \cap DOMAIN inventory

(* find_same_day_unlinked_shipments_snapshot: the newest of the download's day, or none. *)
SameDayUnlinked(t) ==
  LET same == {u \in DOMAIN unlinked : DayOf(u) = DayOf(t)}
  IN IF same = {} THEN None ELSE CHOOSE u \in same : \A v \in same : v <= u

(* validate_amazon_fba_inventory_snapshot_date: at most a day away from the download. *)
AmazonUsable(kind, t) ==
  amazon[kind] # None /\ amazon[kind].date - DayOf(t) \in -1..1

QuantitiesOf(kind, use) == IF use THEN amazon[kind].quantities ELSE NoFiles

(* calculate_store_msku_replenishment; withAmazon: the kinds of snapshot the user names. *)
Calculate(name, withAmazon) ==
  /\ ValidTemplate(Schemes[name])
  /\ MatchingTimes # {}
  /\ LET t == CHOOSE u \in MatchingTimes : \A v \in MatchingTimes : v <= u
         snap == SameDayUnlinked(t)
         quantities == IF snap = None THEN NoFiles ELSE unlinked[snap]
     IN /\ \A k \in withAmazon : AmazonUsable(k, t)
        /\ ~RowsRefused(sales[t], inventory[t])
        /\ report' = [time |-> t, scheme |-> name, snap |-> snap, amazon |-> withAmazon,
                      rows |-> CalculateRows(sales[t], inventory[t], Schemes[name], quantities,
                                             QuantitiesOf("restock", "restock" \in withAmazon),
                                             QuantitiesOf("fba", "fba" \in withAmazon))]
  /\ UNCHANGED <<now, fileVars, historyVars>>

Next ==
  \/ Tick
  \/ \E rows \in Downloads : DownloadListings(rows)
  \/ AnalyzeSales
  \/ \E stock \in Stocks : ExportInventory(stock)
  \/ \E lines \in RawShipments : SnapshotUnlinked(lines)
  \/ \E kind \in {"restock", "fba"} : \E lines \in AmazonFiles[kind] : SnapshotAmazon(kind, lines)
  \/ \E name \in DOMAIN Schemes, with \in SUBSET {"restock", "fba"} : Calculate(name, with)

Spec == Init /\ [][Next]_vars

----------------------------------------------------------------------------
(* The listings of the two reports are those of one download: each row is decided from the
   sales and the stock of the same file (find_matching_report_files). *)
JoinsOneDownload(t) ==
  \A d \in Range(sales[t].details), e \in Range(InventoryEntries(inventory[t])) :
    Key(d.row) = Key(e.row) => d.row = e.row

ReportsAreJoined == report # None => JoinsOneDownload(report.time)

(* A calculation joins reports of one download, unless the listing file of one of them was
   overwritten by another download of its minute: the time in their names is all that is
   compared, and both downloads have it. *)
ReportJoinsOneDownload ==
  report # None /\ {"sales", "inventory"} \X {report.time} \cap outdated = {} =>
    JoinsOneDownload(report.time)

(* What a shipped row asks for is exactly what the stock at Amazon and the unlinked shipments
   leave open of its target, never more (_with_inventory_deductions). *)
ShipsWhatIsMissing ==
  report # None =>
    \A r \in Range(report.rows) :
      r.sheet \in ShippedSheets \cup {"clearance"} =>
        r.qty > 0 /\ r.fba + r.unlinked + r.qty = r.original

(* Every suggested unit is counted once: the link totals and the clearance sheet together hold
   the quantities of all rows (summarize_links, write_replenishment_report). *)
EveryUnitIsCountedOnce ==
  report # None =>
    LET sheets == ReportSheets(report.rows)
        total == MapThenSumSet(LAMBDA p : sheets.links[p].total, DOMAIN sheets.links)
        clearance == SumOver(sheets.by["clearance"], LAMBDA r : r.qty)
    IN /\ total + clearance = SumOver(report.rows, LAMBDA r : Count(r.qty))
       /\ \A p \in DOMAIN sheets.links :
            LET l == sheets.links[p] IN l.urgent + l.air + l.sea <= l.total

(* A listing with more units under way is never suggested more units
   (calculate_replenishment_row). *)
MoreUnderWayNeverShipsMore ==
  report # None =>
    LET entries == InventoryEntries(inventory[report.time])
    IN \A i \in DOMAIN entries :
         LET details == CHOOSE d \in DetailsFor(sales[report.time], entries[i]) : TRUE
             Row(n) == CalculateRow(entries[i], details, Schemes[report.scheme], n)
             now_ == report.rows[i]
         IN \A more \in {1, 20, 1000} :
              LET row == Row(now_.unlinked + more)
              IN row.sheet \in ShippedSheets =>
                   now_.sheet \in ShippedSheets /\ row.qty <= now_.qty
=============================================================================
