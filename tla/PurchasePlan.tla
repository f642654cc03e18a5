---------------------------- MODULE PurchasePlan ----------------------------
(***************************************************************************)
(* The purchase plan of a batch of FBA delivery orders                     *)
(* (services/agent_cli/mabang): what a delivery CSV and the master         *)
(* workbook of tax-refunded products ask the ERP to plan, what an answer   *)
(* of the ERP must satisfy, and the rows of the workbooks written from it. *)
(*                                                                         *)
(* A model is a pair of its casefolded name and its spelling.              *)
(***************************************************************************)
EXTENDS DeliveryCsv

(***************************************************************************)
(* Delivery CSVs.                                                          *)
(***************************************************************************)
CsvReadable(csv) ==
  /\ CsvSkus(csv) # {}
  /\ \A i \in DOMAIN csv : csv[i].msku = Blank => csv[i].ship = None /\ DOMAIN csv[i].parts = {}

(* summarize_tax_sku_quantities_in_delivery_order, positive quantities only. *)
SkuTotals(csv) ==
  LET total(s) == SumAt([i \in DOMAIN csv |-> PartOf(csv[i], s)], DOMAIN csv)
  IN [s \in {s \in CsvSkus(csv) : total(s) > 0} |-> total(s)]

(* _unit_components: each MSKU holds a whole number of each of its stock SKUs. *)
ExactUnits(csv) ==
  \A m \in {csv[i].msku : i \in DOMAIN csv} \ {Blank} :
    LET ship == MskuShip(csv, m)
        parts == MskuParts(csv, m)
    IN /\ ship # None /\ ship > 0
       /\ DOMAIN parts # {}
       /\ \A s \in DOMAIN parts : parts[s] > 0 /\ parts[s] % ship = 0

(***************************************************************************)
(* The master workbook: products [sku, supplier, model, price], and the    *)
(* contract terms of the suppliers [supplier, unit, prefix, tax].          *)
(***************************************************************************)
MasterReadable(master) ==
  /\ master.products # <<>>
  /\ \A p, q \in Range(master.products) : p.sku = q.sku => p = q

TrackedSkus(master) == {p.sku : p \in Range(master.products)}
ProductOf(master, sku) == CHOOSE p \in Range(master.products) : p.sku = sku

(* _load_contract_mappings: rows that disagree on the unit drop the supplier, rows that
   disagree on the prefix or on the tax rate blank that field. *)
ContractOf(master, supplier) ==
  LET mine == {c \in Range(master.contracts) : c.supplier = supplier}
      Agreed(values) == IF Cardinality(values) = 1 THEN CHOOSE v \in values : TRUE ELSE Blank
  IN IF Cardinality({c.unit : c \in mine}) # 1 THEN None
     ELSE [unit   |-> Agreed({c.unit : c \in mine}),
           prefix |-> Agreed({c.prefix : c \in mine}),
           tax    |-> Agreed({c.tax : c \in mine})]

ContractComplete(c) == c # None /\ Blank \notin {c.unit, c.prefix, c.tax}

LineKey(p) == <<p.supplier, p.model[1]>>

(***************************************************************************)
(* build_purchase_intent: csvs maps the SPs of the sequence sps to CSVs.   *)
(***************************************************************************)
PlannedSkus(csv, master) == DOMAIN SkuTotals(csv) \cap TrackedSkus(master)

(* The products the batch plans for. *)
PlannedProducts(sps, csvs, master) ==
  {ProductOf(master, s) : s \in UNION {PlannedSkus(csvs[sp], master) : sp \in Range(sps)}}

Unmatched(sps, csvs, master) ==
  UNION {{[sp |-> sp, sku |-> s, quantity |-> SkuTotals(csvs[sp])[s]] :
            s \in DOMAIN SkuTotals(csvs[sp]) \ TrackedSkus(master)} : sp \in Range(sps)}

(* Units of some of the shares of a line. *)
SharedUnits(shares, I) == SumAt([i \in I |-> shares[i].quantity], I)

(* The lines of the contracts, one per supplier and model, with the share of each SP. *)
IntentLines(sps, csvs, master) ==
  LET products == PlannedProducts(sps, csvs, master)
      Of(k) == {p \in products : LineKey(p) = k}
      InSp(k, sp) == SetToSeq({p.sku : p \in Of(k)} \cap PlannedSkus(csvs[sp], master))
      Share(k, sp) == [i \in DOMAIN InSp(k, sp) |->
                         [sp |-> sp, sku |-> InSp(k, sp)[i], quantity |-> SkuTotals(csvs[sp])[InSp(k, sp)[i]]]]
  IN [k \in {LineKey(p) : p \in products} |->
        LET shares == FlattenSeq([i \in DOMAIN sps |-> Share(k, sps[i])])
        IN [price   |-> (CHOOSE p \in Of(k) : TRUE).price,
            planned |-> SharedUnits(shares, DOMAIN shares),
            shares  |-> shares]]

(* Terms a contract cannot be made of: nothing may be missing, a model has one price, and two
   suppliers never share the prefix of their contract numbers. *)
TermsRefused(products, master) ==
  LET Contract(p) == ContractOf(master, p.supplier)
  IN \/ \E p \in products : \/ Blank \in {p.supplier, p.model[1]} \/ p.price < 0
                            \/ ~ContractComplete(Contract(p))
     \/ \E p, q \in products :
          \/ LineKey(p) = LineKey(q) /\ p.price # q.price
          \/ p.supplier # q.supplier /\ Contract(p).prefix = Contract(q).prefix

IntentRefused(sps, csvs, master) ==
  \/ ~MasterReadable(master)
  \/ \E sp \in Range(sps) : ~CsvReadable(csvs[sp]) \/ ~ExactUnits(csvs[sp])
  \/ PlannedProducts(sps, csvs, master) = {}
  \/ TermsRefused(PlannedProducts(sps, csvs, master), master)

(***************************************************************************)
(* What the ERP answers: mode is the stock route it took ("fifo", "none",  *)
(* or None from a server that does not know of routes), lines give for     *)
(* each line what is taken from stock and what is bought, details what     *)
(* each share (of an SP and SKU) has of each source (None: bought now),    *)
(* applied what is taken of each stock entry, contracts the suppliers with *)
(* a contract.                                                             *)
(***************************************************************************)
ModeOf(answer) == IF answer.mode = None THEN "fifo" ELSE answer.mode

UnitsIn(rows) == SumAt([r \in rows |-> r.quantity], rows)
DetailSum(details, Keep(_)) == UnitsIn({d \in details : Keep(d)})

(* Mutant: the share of each SP and SKU is not compared with the plan. *)
AllocationsAgreeInSum(details, shares) ==
  DetailSum(details, LAMBDA d : TRUE) = SharedUnits(shares, DOMAIN shares)

(* _validate_allocation_details: every share of the plan is accounted for, and no other. *)
AllocationsAgree(details, shares) ==
  LET pairs == {<<d.sp, d.sku>> : d \in details}
      Planned(pair) == SharedUnits(shares, {i \in DOMAIN shares : <<shares[i].sp, shares[i].sku>> = pair})
  IN /\ \A d \in details : d.quantity > 0
     /\ pairs = {<<shares[i].sp, shares[i].sku>> : i \in DOMAIN shares}
     /\ \A pair \in pairs : DetailSum(details, LAMBDA d : <<d.sp, d.sku>> = pair) = Planned(pair)

ValidLine(line, asked, mode) ==
  /\ line.planned = asked.planned
  /\ line.planned = line.carryover + line.purchase
  /\ mode = "none" => line.carryover = 0
  /\ AllocationsAgree(line.details, asked.shares)
  /\ DetailSum(line.details, LAMBDA d : d.entry # None) = line.carryover
  /\ DetailSum(line.details, LAMBDA d : d.entry = None) = line.purchase
  /\ SumAt(line.applied, DOMAIN line.applied) = line.carryover

SuppliersBought(lines) == {k[1] : k \in {k \in DOMAIN lines : lines[k].purchase > 0}}

(* _validate_success_response; a preview carries no number of a batch. *)
ValidAnswer(answer, request, preview) ==
  /\ ModeOf(answer) = request.mode
  /\ preview <=> answer.batch = None
  /\ answer.sps = request.sps
  /\ DOMAIN answer.lines = DOMAIN request.lines
  /\ \A k \in DOMAIN request.lines : ValidLine(answer.lines[k], request.lines[k], request.mode)
  /\ answer.contracts = SuppliersBought(answer.lines)

(* A line of a quote takes stock that is there to take. *)
QuoteLineHolds(line, asked, stock) ==
  /\ line.carryover > 0
  /\ line.planned = asked.planned
  /\ line.planned = line.carryover + line.purchase
  /\ SumAt(line.applied, DOMAIN line.applied) = line.carryover
  /\ \A e \in DOMAIN line.applied :
       /\ 0 < line.applied[e] /\ line.applied[e] <= stock[e].remaining
       /\ stock[e].remaining <= stock[e].original

(* _validate_inventory_confirmation: no entry is taken by two lines. *)
ValidQuote(quote, request) ==
  /\ request.mode # "none"
  /\ DOMAIN quote.lines \subseteq DOMAIN request.lines
  /\ \A k \in DOMAIN quote.lines : QuoteLineHolds(quote.lines[k], request.lines[k], quote.stock)
  /\ \A k, l \in DOMAIN quote.lines :
       k # l => DOMAIN quote.lines[k].applied \cap DOMAIN quote.lines[l].applied = {}

(***************************************************************************)
(* Workbooks.  A row is [key, contract, price, quantity]; contract None    *)
(* is the contract this batch makes.  A key is <<supplier, model>>.        *)
(***************************************************************************)
FoldKey(key) == <<key[1], key[2][1]>>

(* _build_restock_entries: the rows a set of CSVs makes, merged by supplier and model as the
   master workbook spells it. *)
RestockKeys(sps, csvs, master) ==
  {<<p.supplier, p.model>> : p \in PlannedProducts(sps, csvs, master)}

(* _purchase_source_rows, _restock_source_rows: one row for what is bought, and one for each
   old contract and price the stock comes from. *)
SourceRows(key, price, details, stock) ==
  LET bought == DetailSum(details, LAMBDA d : d.entry = None)
      taken == {d \in details : d.entry # None}
      old == {<<stock[d.entry].contract, stock[d.entry].price>> : d \in taken}
  IN (IF bought = 0 THEN {}
      ELSE {[key |-> key, contract |-> None, price |-> price, quantity |-> bought]})
     \cup {[key |-> key, contract |-> o[1], price |-> o[2],
            quantity |-> DetailSum(taken, LAMBDA d : <<stock[d.entry].contract,
                                                       stock[d.entry].price>> = o)] : o \in old}

(* _rebuild_purchase_sheet and, for one SP, _rebuild_restock_sheet. *)
SheetRefused(keys, lines) == \E key \in keys : FoldKey(key) \notin DOMAIN lines

PurchaseSheet(keys, lines, prices, stock) ==
  UNION {SourceRows(key, prices[FoldKey(key)], lines[FoldKey(key)].details, stock) : key \in keys}

RestockSheet(sp, keys, lines, prices, stock) ==
  UNION {SourceRows(key, prices[FoldKey(key)],
                    {d \in lines[FoldKey(key)].details : d.sp = sp}, stock) : key \in keys}

(* generate_purchase_batch_workbooks, apply_formal_erp_result: the summary and the sheet of
   each SP, of the CSVs as they are read then. *)
Workbooks(sps, csvs, master, lines, prices, stock) ==
  [summary |-> PurchaseSheet(RestockKeys(sps, csvs, master), lines, prices, stock),
   restock |-> [sp \in Range(sps) |->
                  RestockSheet(sp, RestockKeys(<<sp>>, csvs, master), lines, prices, stock)]]

WorkbooksRefused(sps, csvs, master, lines) ==
  \/ \E sp \in Range(sps) : ~CsvReadable(csvs[sp])
  \/ SheetRefused(RestockKeys(sps, csvs, master), lines)

(* generate_purchase_batch_workbooks_from_snapshot: the keys are the lines of the batch. *)
SnapshotRefused(sps, lines) ==
  \/ sps = <<>> \/ DOMAIN lines = {}
  \/ \E k \in DOMAIN lines : DetailSum(lines[k].details, LAMBDA d : TRUE) # lines[k].planned

SnapshotKeys(details) == {<<k[1], <<k[2], Blank>>>> : k \in {k \in DOMAIN details : details[k] # {}}}

SnapshotWorkbooks(sps, lines, prices, stock) ==
  LET Of(sp) == [k \in DOMAIN lines |-> {d \in lines[k].details : d.sp = sp}]
      all == SnapshotKeys([k \in DOMAIN lines |-> lines[k].details])
  IN [summary |-> PurchaseSheet(all, lines, prices, stock),
      restock |-> [sp \in Range(sps) |-> RestockSheet(sp, SnapshotKeys(Of(sp)), lines, prices, stock)]]

(* load_purchase_summary_lines: what is bought now, by supplier. *)
BoughtRows(summary) == {r \in summary : r.contract = None}
ContractRows(summary, supplier) == {r \in BoughtRows(summary) : r.key[1] = supplier}

(* Mutant: the quantities are not compared. *)
ContractsRefusedBySupplier(summary, answer) ==
  /\ answer.contracts # {}
  /\ {r.key[1] : r \in BoughtRows(summary)} # answer.contracts

(* _fill_erp_purchase_contracts: the summary and the answer must agree before a contract is
   written. *)
ContractsRefused(summary, answer) ==
  LET bought == {k \in DOMAIN answer.lines : answer.lines[k].purchase > 0}
      listed == {FoldKey(r.key) : r \in BoughtRows(summary)}
  IN /\ answer.contracts # {}
     /\ \/ {r.key[1] : r \in BoughtRows(summary)} # answer.contracts
        \/ listed # bought
        \/ \E k \in bought :
             UnitsIn({r \in BoughtRows(summary) : FoldKey(r.key) = k}) # answer.lines[k].purchase

=============================================================================
