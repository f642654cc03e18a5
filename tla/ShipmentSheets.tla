---------------------------- MODULE ShipmentSheets ----------------------------
(***************************************************************************)
(* The two sheets Amazon is given for a shipment, both made from the rows  *)
(* of one consignment: the list of SKUs with their quantities (step 1) and *)
(* the contents and particulars of every box (step 2).  A row is           *)
(*   [sku, box, qty, kg]   box = 0: no box number is given                 *)
(* A row without a SKU is not left out: the blank reads as a SKU, "nan".   *)
(***************************************************************************)
EXTENDS Integers, Sequences, FiniteSets, FiniteSetsExt

CONSTANTS
  MaxWeight     \* kg a box may weigh

SumQuantity(rows, I) == MapThenSumSet(LAMBDA i : rows[i].qty, I)

Skus(rows) == {rows[i].sku : i \in DOMAIN rows}

(***************************************************************************)
(* Step 1: the quantity of every SKU, whatever box it is in.               *)
(***************************************************************************)
LoadConsignmentSummary(rows) ==
  [sku \in Skus(rows) |-> SumQuantity(rows, {i \in DOMAIN rows : rows[i].sku = sku})]

(* The template's old rows are cleared and the summary is written, SKU by SKU. *)
FillShipmentTemplate(template, rows) == [template EXCEPT !.listed = LoadConsignmentSummary(rows)]

(***************************************************************************)
(* Step 2.                                                                 *)
(***************************************************************************)
BoxNumbers(rows) == {rows[i].box : i \in DOMAIN rows} \ {0}

(* The number of boxes asked for is the highest box number. *)
ExtractBoxCount(rows) == Max(BoxNumbers(rows))

(* Mutant: two rows of one SKU in one box count once, the last of them. *)
ReadSourceDataOverwritten(rows) ==
  LET boxed == {i \in DOMAIN rows : rows[i].box # 0}
      of(sku, b) == {i \in boxed : rows[i].sku = sku /\ rows[i].box = b}
      boxes == BoxNumbers(rows)
      skus == {rows[i].sku : i \in boxed}
  IN [boxes |-> boxes, skus |-> skus,
      kg |-> [b \in boxes |-> rows[Min({i \in boxed : rows[i].box = b})].kg],
      cells |-> [c \in skus \X boxes |->
        IF of(c[1], c[2]) = {} THEN 0 ELSE rows[Max(of(c[1], c[2]))].qty]]

(* Rows without a box number are left out; the rest is summed by SKU and box, and the first *)
(* row of a box gives its particulars.                                                      *)
ReadSourceData(rows) ==
  LET boxed == {i \in DOMAIN rows : rows[i].box # 0}
      boxes == BoxNumbers(rows)
      skus == {rows[i].sku : i \in boxed}
  IN [boxes |-> boxes, skus |-> skus,
      kg |-> [b \in boxes |-> rows[Min({i \in boxed : rows[i].box = b})].kg],
      cells |-> [c \in skus \X boxes |->
        SumQuantity(rows, {i \in boxed : rows[i].sku = c[1] /\ rows[i].box = c[2]})]]

(* The template Amazon makes for some SKUs and a number of boxes (external). *)
Step2Template(skus, total) ==
  [kg |-> [b \in 1..total |-> 0], skus |-> skus, cells |-> [c \in skus \X (1..total) |-> 0], total |-> total]

ValidateTemplateSkus(source, template) == source.skus \subseteq template.skus

(* Only the highest box number is compared: a number may be missing. *)
ValidateSourceBoxes(source, template) == source.boxes # {} /\ Max(source.boxes) = template.total

WeightValue(kg) == IF kg > MaxWeight THEN MaxWeight ELSE kg

Step2Fits(rows, template) ==
  LET source == ReadSourceData(rows)
  IN ValidateTemplateSkus(source, template) /\ ValidateSourceBoxes(source, template)

(* Cells with a quantity are written; all others stay as Amazon made them. *)
FillMultiBoxStep2Template(rows, template) ==
  LET source == ReadSourceData(rows)
  IN [template EXCEPT
       !.cells = [c \in DOMAIN template.cells |->
          IF c \in DOMAIN source.cells /\ source.cells[c] > 0 THEN source.cells[c] ELSE template.cells[c]],
       !.kg = [b \in DOMAIN template.kg |->
          IF b \in source.boxes THEN WeightValue(source.kg[b]) ELSE template.kg[b]]]

(* The boxes whose weight was cut, which the notice of the stage names. *)
WeightCapped(rows) ==
  LET source == ReadSourceData(rows) IN {b \in source.boxes : source.kg[b] > MaxWeight}

PackedQuantity(sheet, sku) ==
  MapThenSumSet(LAMBDA c : sheet.cells[c], {c \in DOMAIN sheet.cells : c[1] = sku})
===============================================================================
