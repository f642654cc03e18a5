----------------------------- MODULE InvoiceRows -----------------------------
(***************************************************************************)
(* The rows of a shipment invoice                                          *)
(* (services/agent_cli/mabang/fill_invoice_template.py): the same packing  *)
(* list as the customs declaration, box by box, each model of a box under  *)
(* the one summary row that stands for the model.  What a stock SKU is     *)
(* comes from the ledger sheet, rows [sku, model, quantity], and not from  *)
(* the restock sheet.                                                      *)
(***************************************************************************)
EXTENDS CustomsRows

Ledger(book) == {r \in Range(book.ledger) : r.sku # Blank}

LedgerModels(book) ==
  [s \in {r.sku : r \in Ledger(book)} |-> (CHOOSE r \in Ledger(book) : r.sku = s).model]

LedgerRefused(book) ==
  \/ Ledger(book) = {}
  \/ \E r \in Ledger(book) : r.model = Blank
  \/ \E r, q \in Ledger(book) : r.sku = q.sku /\ r.model # q.model

(* The quantities the first sheet planned. *)
Planned(book) ==
  [s \in DOMAIN LedgerModels(book) |->
     SumOver(LAMBDA i : book.ledger[i].quantity, {i \in DOMAIN book.ledger : book.ledger[i].sku = s})]

(* Only the rows without a model need the ledger to have one. *)
InferredModel(book, row) == IF row.model # Blank THEN row.model ELSE LedgerModels(book)[row.sku]
InferenceRefused(book) ==
  \E r \in Range(SourceRows(book)) : r.model = Blank /\ (r.sku = Blank \/ r.sku \notin DOMAIN LedgerModels(book))

(* One summary row for each model: goods from stock and goods bought cannot be told apart here. *)
RowModels(book) == [i \in DOMAIN SourceRows(book) |-> LedgerModels(book)[SourceRows(book)[i].sku]]
RowsByModelRefused(book) ==
  LET rows == SourceRows(book)
  IN \/ \E i \in DOMAIN rows : rows[i].sku \notin DOMAIN LedgerModels(book)
     \/ \E i, j \in DOMAIN rows : i # j /\ RowModels(book)[i] = RowModels(book)[j]

RowStandingFor(book, model) == CHOOSE i \in DOMAIN SourceRows(book) : RowModels(book)[i] = model

(***************************************************************************)
(* Box by box: what a row of the packing list holds of each model.         *)
(***************************************************************************)
InRow(infos, book, row, model) ==
  LET parts == infos[row.msku].parts
      mine == {s \in DOMAIN parts : LedgerModels(book)[s] = model}
  IN SumOver(LAMBDA s : row.quantity * UnitOf(parts)[s], mine)

(* Mutant: a box holds what its last row says. *)
InBoxLast(infos, book, list, box, model) ==
  LET mine == {i \in DOMAIN list : list[i].box = box /\ InRow(infos, book, list[i], model) > 0}
  IN IF mine = {} THEN 0 ELSE InRow(infos, book, list[Max(mine)], model)
InBox(infos, book, list, box, model) ==
  SumOver(LAMBDA i : InRow(infos, book, list[i], model), {i \in DOMAIN list : list[i].box = box})

BoxRows(infos, book, list) ==
  LET all == {[box |-> b, row |-> RowStandingFor(book, m), quantity |-> InBox(infos, book, list, b, m)] :
                b \in {list[i].box : i \in DOMAIN list}, m \in Range(RowModels(book))}
      Before(r, q) == r.box < q.box \/ (r.box = q.box /\ r.row < q.row)
  IN SetToSortSeq({r \in all : r.quantity > 0}, Before)

UnitsOutsideRefused(infos, book, list) ==
  \E s \in UNION {DOMAIN infos[list[i].msku].parts : i \in DOMAIN list} :
    s \notin DOMAIN LedgerModels(book) \/ LedgerModels(book)[s] \notin Range(RowModels(book))

InvoicedUnits(rows, i) == SumOver(LAMBDA k : rows[k].quantity, {k \in DOMAIN rows : rows[k].row = i})

InvoiceComparison(book, rows) ==
  [i \in DOMAIN SourceRows(book) |-> ComparedRow(SourceRows(book)[i], RowModels(book)[i], InvoicedUnits(rows, i))]

(***************************************************************************)
(* What is said of a product: name, use and price in hundredths.           *)
(***************************************************************************)
Bands == {"band", "nylon band"}

EnglishName(commodity) ==
  CASE commodity = "nylon band" -> "Braided Watch Band"
    [] commodity = "band" -> "Watch Band"
    [] commodity = "case" -> "Watch Case"
    [] commodity = "box" -> "Packaging Box"
    [] commodity = "cover" -> "Watch Protective Case"
    [] OTHER -> Blank

Usage(commodity) ==
  CASE commodity \in Bands \cup {"case"} -> "decorate"
    [] commodity = "cover" -> "protect"
    [] commodity = "box" -> "hold"
    [] OTHER -> Blank

DeclaredPrice(commodity, material) ==
  CASE commodity \in Bands /\ material = "silicone" -> 35
    [] commodity \in Bands /\ material \in {"nylon", "leather"} -> 50
    [] commodity \in Bands /\ material \in {"metal", "base metal"} -> 100
    [] commodity \in {"case", "cover"} -> 35
    [] commodity = "box" -> 32
    [] OTHER -> None

(* images: the stock SKUs the export has a picture of. *)
InvoiceLine(book, row, images) ==
  LET source == SourceRows(book)[row.row]
      class == Classified(source)
  IN [box |-> row.box, quantity |-> row.quantity, code |-> class[1], material |-> class[2],
      name |-> EnglishName(source.commodity), usage |-> Usage(source.commodity),
      price |-> DeclaredPrice(source.commodity, class[2]), image |-> source.sku \in images]

Notices(lines) ==
  {i \in DOMAIN lines : Blank \in {lines[i].code, lines[i].name, lines[i].usage} \/ lines[i].price = None \/ ~lines[i].image}

(***************************************************************************)
(* fill_invoice_template.                                                  *)
(***************************************************************************)
InvoiceRefused(book, csv, list) ==
  LET infos == DeliveryInfos(csv)
  IN \/ SourceRows(book) = <<>> \/ LedgerRefused(book) \/ InferenceRefused(book)
     \/ DeliveryRefused(csv) \/ BoxesRefused(list)
     \/ RowsByModelRefused(book)
     \/ Blocked(infos, Packed(list))
     \/ UnitsOutsideRefused(infos, book, list)

(* The report takes what was expected from the workbook and not from the delivery CSV. *)
InvoiceReport(book, csv, list, rows) ==
  LET infos == DeliveryInfos(csv)
  IN Report(ValidationRows(infos, Planned(book), Actual(infos, Packed(list))), Issues(infos, Packed(list)),
            InvoiceComparison(book, rows))

Invoice(book, csv, list, images) ==
  LET rows == BoxRows(DeliveryInfos(csv), book, list)
      lines == [i \in DOMAIN rows |-> InvoiceLine(book, rows[i], images)]
  IN [rows |-> rows, lines |-> lines, notices |-> Notices(lines), csv |-> csv, list |-> list,
      report |-> InvoiceReport(book, csv, list, rows)]
=============================================================================
