---------------------------- MODULE Declarations ----------------------------
(***************************************************************************)
(* The commands that declare what a shipment holds                         *)
(* (services/agent_cli/mabang: fill_customs_declaration,                   *)
(* fill_invoice_template, erp_packing_upload, download_wms_consignment_-   *)
(* excel).  They share two files of each delivery order (SP): the delivery *)
(* CSV, whose quantities are the planned ones until Mabang has the packing *)
(* back, and the packing list of the warehouse.  Commands may run side by  *)
(* side and the files be downloaded again meanwhile.                       *)
(***************************************************************************)
EXTENDS InvoiceRows, CustomsSheets, ChineseAmount, PackingUpload

CONSTANTS
  Books,        \* [sp -> the workbook of a delivery order]
  PlannedCsv,   \* [sp -> CSV before packing]
  PackedCsv,    \* [sp -> CSV with the real quantities]
  Lists,        \* [sp -> packing lists the warehouse may give]
  Joint,        \* sequences of SPs a declaration is asked for
  Template,     \* [detail, formulas]: the sheets of the template
  MaxRows,      \* MAX_CUSTOMS_PRODUCT_ROWS
  MaxCommands   \* bound

VARIABLES
  packed,    \* SPs whose real quantities are in Mabang
  csv, wms,  \* the files: [sp -> content or None]
  command,   \* bundles a customs declaration has read
  customs,   \* [file name -> document]
  invoices,  \* [sp -> document or None]
  plan,      \* [sp -> quantities of the ERP's batch]
  shown,     \* quotes shown to the user, each with the ground on which it was let through
  refusals,  \* quotes refused as identical to the plan
  stored,    \* [sp -> the quote the ERP has stored or None]
  commands

files == <<packed, csv, wms>>
erp == <<plan, stored>>
vars == <<files, command, customs, invoices, erp, shown, refusals, commands>>

Orders == DOMAIN Books
Idle == <<>>
Counted == commands < MaxCommands /\ commands' = commands + 1

(***************************************************************************)
(* Mabang (external) and the downloads.                                    *)
(***************************************************************************)
Backfill(sp) == /\ sp \notin packed
                /\ packed' = packed \cup {sp}
                /\ UNCHANGED <<csv, wms, command, customs, invoices, erp, shown, refusals, commands>>

DownloadDelivery(sp) ==
  /\ csv' = [csv EXCEPT ![sp] = IF sp \in packed THEN PackedCsv[sp] ELSE PlannedCsv[sp]]
  /\ UNCHANGED <<packed, wms, command, customs, invoices, erp, shown, refusals, commands>>

DownloadPacking(sp) ==
  /\ \E list \in Lists[sp] : wms' = [wms EXCEPT ![sp] = list]
  /\ UNCHANGED <<packed, csv, command, customs, invoices, erp, shown, refusals, commands>>

(***************************************************************************)
(* fill_customs_declaration: everything is read first ...                  *)
(***************************************************************************)
OneCountry(sps) == \A i, j \in DOMAIN sps : Books[sps[i]].country = Books[sps[j]].country

Readable(sp) == csv[sp] # None /\ wms[sp] # None /\ ~BundleRefused(Books[sp], csv[sp], wms[sp])

BundleOf(sp) == [csv |-> csv[sp], list |-> wms[sp], bundle |-> Bundle(sp, Books[sp], csv[sp], wms[sp])]

FillCustoms(sps) ==
  /\ command = Idle /\ Counted
  /\ OneCountry(sps)
  /\ \A i \in DOMAIN sps : Readable(sps[i])
  /\ Len(FlattenSeq([i \in DOMAIN sps |-> BundleOf(sps[i]).bundle.rows])) <= MaxRows
  /\ command' = [i \in DOMAIN sps |-> BundleOf(sps[i])]
  /\ UNCHANGED <<files, customs, invoices, erp, shown, refusals>>

(* ... but the report reads the files a second time, and the template is copied before it is filled. *)
CustomsReport(read) ==
  LET infos == DeliveryInfos(csv[read.bundle.sp])
      amounts == Packed(wms[read.bundle.sp])
  IN Report(ValidationRows(infos, Expected(infos), Actual(infos, amounts)), Issues(infos, amounts), read.bundle.comparison)

SheetsRefused(n) ==
  \/ DetailFillRefused(Template.detail, n)
  \/ \E i \in DOMAIN Template.formulas : FormulaFillRefused(Template.formulas[i], n)

CustomsDocument(reads) ==
  LET Part(Of(_)) == FlattenSeq([i \in DOMAIN reads |-> Of(reads[i].bundle)])
      rows == Part(LAMBDA b : b.rows)
  IN [filled |-> TRUE, reads |-> reads, rows |-> rows,
      gross  |-> Part(LAMBDA b : b.gross), net |-> Part(LAMBDA b : b.net),
      boxes  |-> SumOver(LAMBDA i : reads[i].bundle.boxes, DOMAIN reads),
      weight |-> SumOver(LAMBDA i : reads[i].bundle.weight, DOMAIN reads),
      amount |-> AmountText(AmountOf(rows)),
      report |-> [i \in DOMAIN reads |-> CustomsReport(reads[i]).status],
      detail |-> DetailSheet(Template.detail, Len(rows)),
      formulas |-> [i \in DOMAIN Template.formulas |-> FormulaSheet(Template.formulas[i], Len(rows))]]

WriteCustoms ==
  LET n == Len(FlattenSeq([i \in DOMAIN command |-> command[i].bundle.rows]))
      name == FileName([i \in DOMAIN command |-> command[i].bundle.sp])
      document == IF SheetsRefused(n) THEN [filled |-> FALSE] ELSE CustomsDocument(command)
  IN /\ command # Idle
     /\ customs' = [f \in DOMAIN customs \cup {name} |-> IF f = name THEN document ELSE customs[f]]
     /\ command' = Idle
     /\ UNCHANGED <<files, invoices, erp, shown, refusals, commands>>

(***************************************************************************)
(* fill_invoice_template.  The pictures come from an export of the stock   *)
(* SKUs, which may fail and may lack some.                                 *)
(***************************************************************************)
Pictures(sp) == {{}, {r.sku : r \in Range(SourceRows(Books[sp]))}}

FillInvoice(sp) ==
  /\ Counted
  /\ csv[sp] # None /\ wms[sp] # None
  /\ ~InvoiceRefused(Books[sp], csv[sp], wms[sp])
  /\ \E images \in Pictures(sp) :
       invoices' = [invoices EXCEPT ![sp] = Invoice(Books[sp], csv[sp], wms[sp], images)]
  /\ UNCHANGED <<files, command, customs, erp, shown, refusals>>

(***************************************************************************)
(* erp_packing_upload.                                                     *)
(***************************************************************************)
Show(quote, ground) == shown' = shown \cup {[quote |-> quote, ground |-> ground]}

(* Mutant: --confirm-identical the wrong way round. *)
PreviewPackingAskedWrongly(sp, identical, readable) ==
  LET quote == QuoteFor(sp, plan[sp], PackingQuantities(csv[sp]))
      ground == IF identical THEN "asked" ELSE IF readable THEN "differs" ELSE "unread"
  IN /\ Counted
     /\ csv[sp] # None /\ ~UploadRefused(csv[sp])
     /\ IF identical /\ readable /\ IdenticalToPlan(quote.summary)
        THEN refusals' = refusals \cup {quote} /\ UNCHANGED shown
        ELSE Show(quote, ground) /\ UNCHANGED refusals
     /\ UNCHANGED <<files, command, customs, invoices, erp>>

(* The ERP's answer may lack its summary or say a number in it no one can read: what it      *)
(* answers is then let through.                                                              *)
PreviewPacking(sp, identical, readable) ==
  LET quote == QuoteFor(sp, plan[sp], PackingQuantities(csv[sp]))
      ground == IF identical THEN "asked" ELSE IF readable THEN "differs" ELSE "unread"
  IN /\ Counted
     /\ csv[sp] # None /\ ~UploadRefused(csv[sp])
     /\ IF ground = "differs" /\ IdenticalToPlan(quote.summary)
        THEN refusals' = refusals \cup {quote} /\ UNCHANGED shown
        ELSE Show(quote, ground) /\ UNCHANGED refusals
     /\ UNCHANGED <<files, command, customs, invoices, erp>>

(* A quote whose plan has been replaced is answered with a new one, shown like a preview's. *)
ConfirmPacking(quote) ==
  /\ Counted
  /\ IF quote.planned = plan[quote.sp]
     THEN stored' = [stored EXCEPT ![quote.sp] = quote] /\ UNCHANGED shown
     ELSE Show(QuoteFor(quote.sp, plan[quote.sp], quote.packed), "requoted") /\ UNCHANGED stored
  /\ UNCHANGED <<files, command, customs, invoices, plan, refusals>>

(* The purchase batch is replaced by one planned from the delivery CSV of now (external). *)
ReplacePlan(sp) ==
  /\ csv[sp] # None /\ ~UploadRefused(csv[sp])
  /\ plan' = [plan EXCEPT ![sp] = PackingQuantities(csv[sp])]
  /\ UNCHANGED <<files, command, customs, invoices, stored, shown, refusals, commands>>

(***************************************************************************)
(* The specification.                                                      *)
(***************************************************************************)
Init ==
  /\ packed = {}
  /\ csv = [sp \in Orders |-> None] /\ wms = [sp \in Orders |-> None]
  /\ command = Idle /\ customs = <<>>
  /\ invoices = [sp \in Orders |-> None]
  /\ plan = [sp \in Orders |-> PackingQuantities(PlannedCsv[sp])]
  /\ stored = [sp \in Orders |-> None]
  /\ shown = {} /\ refusals = {} /\ commands = 0

Next ==
  \/ \E sp \in Orders : Backfill(sp) \/ DownloadDelivery(sp) \/ DownloadPacking(sp) \/ FillInvoice(sp) \/ ReplacePlan(sp)
  \/ \E sps \in Joint : FillCustoms(sps)
  \/ WriteCustoms
  \/ \E sp \in Orders, identical, readable \in BOOLEAN : PreviewPacking(sp, identical, readable)
  \/ \E s \in shown : ConfirmPacking(s.quote)

Spec == Init /\ [][Next]_vars

Documents == {customs[f] : f \in {f \in DOMAIN customs : customs[f].filled}}

(***************************************************************************)
(* Properties.                                                             *)
(***************************************************************************)
ModelTotal(rows, model) == SumOver(LAMBDA i : rows[i].quantity, {i \in DOMAIN rows : rows[i].model = model})

(* What customs is told of an order and what its invoice says agree, model by model, when both were  *)
(* made from the same files: one from the restock sheet row by row, the other from the ledger box by *)
(* box.                                                                                              *)
CustomsMatchesInvoice ==
  \A d \in Documents : \A i \in DOMAIN d.reads :
    LET sp == d.reads[i].bundle.sp
        rows == d.reads[i].bundle.rows
    IN invoices[sp] # None /\ invoices[sp].csv = d.reads[i].csv /\ invoices[sp].list = d.reads[i].list
         => \A r \in DOMAIN SourceRows(Books[sp]) :
              InvoicedUnits(invoices[sp].rows, r) = ModelTotal(rows, RowModel(Books[sp], SourceRows(Books[sp])[r]))

(* A declaration's shares of the weight make up what the boxes weigh, no product weighs more net      *)
(* than gross, and the amount in words reads back as the amount of its rows with no place unspoken.   *)
TotalsAreConserved ==
  \A d \in Documents :
    /\ SumOver(LAMBDA i : d.gross[i], DOMAIN d.gross) = d.weight
    /\ \A i \in DOMAIN d.gross : d.net[i] <= 10 * d.gross[i]
    /\ AmountRead(d.amount) = AmountOf(d.rows) /\ NoPlaceSkipped(d.amount)

(* Goods from stock are declared before goods bought, in the order of their rows and never more than  *)
(* a row has, and nothing packed is left out of the declaration.                                       *)
StockIsDeclaredFirst ==
  \A d \in Documents : \A i \in DOMAIN d.reads :
    LET book == Books[d.reads[i].bundle.sp]
        rows == SourceRows(book)
        declared(r) == d.reads[i].bundle.comparison[r].actual
        units == ModelUnits(book, Units(d.reads[i].csv, d.reads[i].list))
    IN \A r \in DOMAIN rows :
         LET mine == OfModel(book, RowModel(book, rows[r]))
         IN /\ SumOver(declared, mine) = Count(units, RowModel(book, rows[r]))
            /\ FromStock(rows[r]) /\ mine # {r} =>
                 /\ declared(r) <= rows[r].quantity
                 /\ declared(r) < rows[r].quantity =>
                      \A q \in mine : (q > r /\ FromStock(rows[q])) \/ ~FromStock(rows[q]) => declared(q) = 0

(* However many rows a declaration has, each of its sheets sums exactly those rows, what is written    *)
(* below the summary row still refers to the rows it referred to in the template, the merged cell of   *)
(* the box count covers the products, and only a few empty rows are left.                              *)
FormulasFollowTheirRows ==
  \A d \in Documents :
    LET n == Len(d.rows)
        Named(sheet, row) == {sheet.rows[r.to].id : r \in {r \in row.refs : r.own /\ ~r.fixed /\ r.to \in DOMAIN sheet.rows}}
    IN /\ \A k \in DOMAIN d.formulas :
            LET sheet == d.formulas[k]
                old == Template.formulas[k]
                total == RowOf(sheet, "total")
                items == {i \in DOMAIN sheet.rows : sheet.rows[i].id = "item"}
                Below(s) == {i \in DOMAIN s.rows : i > RowOf(s, "total")}
            IN /\ Cardinality(items) = n
               /\ {r.to : r \in sheet.rows[total].refs} = items
               /\ total - RowOf(sheet, "header") - 1 - n <= KeptRows
               /\ \A i \in Below(old) : \E j \in Below(sheet) :
                    sheet.rows[j].id = old.rows[i].id /\ Named(sheet, sheet.rows[j]) = Named(old, old.rows[i])
       /\ LET items == {i \in DOMAIN d.detail.rows : d.detail.rows[i].id = "item"}
              blank == {i \in DOMAIN d.detail.rows : d.detail.rows[i].id = "blank"}
          IN /\ Cardinality(items) = n * BlockRows
             /\ \E m \in d.detail.merges : m.what = "boxes" /\ m.first .. m.last = items
             /\ Cardinality(blank) <= KeptBlocks * BlockRows

(* A preview that was not asked for as identical, and whose summary can be read, is refused exactly   *)
(* when no MSKU differs from the plan: quantities that only cancel out are not taken for the plan,     *)
(* and the plan itself never passes for a difference.  So what the ERP stores though it says what was  *)
(* planned was asked for, or was quoted without a summary or anew when the plan had been replaced.     *)
OnlyThePlanItselfIsRefused ==
  LET Same(quote) == \A m \in DOMAIN quote.planned \cup DOMAIN quote.packed : Count(quote.planned, m) = Count(quote.packed, m)
  IN /\ \A q \in refusals : Same(q)
     /\ \A s \in shown : s.ground = "differs" => ~Same(s.quote)
     /\ \A sp \in Orders : stored[sp] # None /\ Same(stored[sp]) =>
                            \E s \in shown : s.quote = stored[sp] /\ s.ground # "differs"

(* erp_packing_upload.py: what equals the plan MSKU by MSKU is not uploaded unless the user says so.   *)
IdenticalNeedsAsking ==
  \A sp \in Orders :
    LET quote == stored[sp]
    IN quote # None /\ IdenticalToPlan(quote.summary) => \E s \in shown : s.quote = quote /\ s.ground = "asked"
=============================================================================
