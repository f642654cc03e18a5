---------------------------- MODULE ExportResults ----------------------------
(***************************************************************************)
(* What the commands make of the files the ERP has exported.               *)
(***************************************************************************)
EXTENDS Naturals, Sequences, FiniteSets, SequencesExt

CONSTANT BoxLimit  \* BOX_SPLIT_SIZE

ASSUME BoxLimitAssumption == BoxLimit \in Nat \ {0}

(* The rows of a sequence that are among given ones, in their order. *)
Among(rows, given) ==
  LET kept[i \in 0..Len(rows)] ==
        IF i = 0 THEN <<>>
        ELSE IF rows[i] \in given THEN Append(kept[i - 1], rows[i]) ELSE kept[i - 1]
  IN kept[Len(rows)]

(***************************************************************************)
(* The details of a delivery's MSKUs: rows of msku and shop.               *)
(***************************************************************************)

(* _delivery_msku_source_from_rows: lines without MSKU or shop are left out. *)
DeliveryMskuPairs(lines) ==
  {<<lines[i].msku, lines[i].shop>> : i \in {j \in DOMAIN lines : lines[j].msku # "" /\ lines[j].shop # ""}}

(* split_msku_detail_by_delivery_shop: the details of other shops go to a sheet of their own. *)
SplitByDeliveryShop(rows, pairs) ==
  LET matched == {r \in Range(rows) : <<r.msku, r.shop>> \in pairs}
  IN [matched |-> Among(rows, matched), mismatch |-> Among(rows, Range(rows) \ matched)]

(***************************************************************************)
(* The names of stock SKUs: a file is a sequence of rows of sku and name.  *)
(***************************************************************************)

(* load_stock_sku_names: the first row of a SKU counts. *)
LoadStockSkuNames(rows) ==
  [sku \in {rows[i].sku : i \in DOMAIN rows} |->
     LET first == CHOOSE i \in DOMAIN rows : rows[i].sku = sku /\ \A j \in 1..(i - 1) : rows[j].sku # sku
     IN rows[first].name]

(* _export_stock_sku_names_once: the first batch that has a name of the SKU counts. *)
NamesByKey(files) == LoadStockSkuNames(FlattenSeq(files))

(***************************************************************************)
(* The store a name means: a name is a sequence of letters.                *)
(***************************************************************************)
HasPart(name, part) ==
  \E i \in 0..(Len(name) - Len(part)) : SubSeq(name, i + 1, i + Len(part)) = part

(* match_fba_store: the one store of that name, else the one store whose name contains it. *)
MatchFbaStore(query, stores) ==
  LET exact == {store \in stores : store.name = query}
      contains == {store \in stores : HasPart(store.name, query)}
  IN CASE Cardinality(exact) = 1 -> exact
       [] exact = {} /\ Cardinality(contains) = 1 -> contains
       [] Cardinality(exact) > 1 \/ (exact = {} /\ Cardinality(contains) # 1) -> {}

(* parse_fba_store_options: a store listed again with the same name, id and type is one store. *)
ParseFbaStoreOptions(listed) == Range(listed)

(***************************************************************************)
(* The boxes of a consignment: rows of box (a number) and what is in it.   *)
(***************************************************************************)
Boxes(rows) == {rows[i].box : i \in DOMAIN rows}

(* The place of a box in the order of the boxes, and the part it comes into. *)
BoxNumber(rows, box) == Cardinality({b \in Boxes(rows) : b <= box})
PartOfBox(rows, box) == ((BoxNumber(rows, box) - 1) \div BoxLimit) + 1

RowsOfPart(rows, k) == Among(rows, {r \in Range(rows) : PartOfBox(rows, r.box) = k})
PartsOfBoxes(rows) == 1..(((Cardinality(Boxes(rows)) - 1) \div BoxLimit) + 1)

(* Mutant: the boxes are counted through, and not anew in each part. *)
SplitByBoxCountedThrough(rows) ==
  [k \in PartsOfBoxes(rows) |->
     LET mine == RowsOfPart(rows, k)
     IN [i \in DOMAIN mine |-> [mine[i] EXCEPT !.box = BoxNumber(rows, mine[i].box)]]]

(* split_consignment_excel_by_box: parts of at most BoxLimit boxes, numbered from 1 in each. *)
SplitByBox(rows) ==
  [k \in PartsOfBoxes(rows) |->
     LET mine == RowsOfPart(rows, k)
     IN [i \in DOMAIN mine |->
           [mine[i] EXCEPT !.box = ((BoxNumber(rows, mine[i].box) - 1) % BoxLimit) + 1]]]

(* _download_and_split: the file itself when it has few boxes or the user wants it whole. *)
DeliverableFiles(rows, whole) ==
  IF whole \/ Cardinality(Boxes(rows)) <= BoxLimit THEN << rows >> ELSE SplitByBox(rows)
=============================================================================
