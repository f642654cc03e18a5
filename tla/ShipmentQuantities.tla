------------------------- MODULE ShipmentQuantities -------------------------
(***************************************************************************)
(* What was really packed, in stock SKUs                                   *)
(* (services/agent_cli/mabang/shipment_quantity_validation.py): the MSKUs  *)
(* of the warehouse's packing list, taken apart by the components the      *)
(* delivery CSV gives them, compared with what the CSV expected.  The      *)
(* customs and the invoice forms both start from it.                       *)
(*                                                                         *)
(* A packing list is a sequence of rows [box, msku, quantity, weight], the *)
(* weight that of the whole box, in hundredths of a kilogram.              *)
(***************************************************************************)
EXTENDS DeliveryCsv

DeliveryInfos(csv) ==
  [m \in DeliveryMskus(csv) |-> [ship |-> MskuShip(csv, m), parts |-> MskuParts(csv, m)]]

Expected(infos) ==
  LET total(s) == SumOver(LAMBDA m : PartOf(infos[m], s), DOMAIN infos)
  IN [s \in {s \in UNION {DOMAIN infos[m].parts : m \in DOMAIN infos} : total(s) > 0} |-> total(s)]

(***************************************************************************)
(* The packing list.                                                       *)
(***************************************************************************)
PackingRefused(list) == list = <<>> \/ \E i \in DOMAIN list : list[i].msku = Blank \/ list[i].quantity <= 0

(* A box has one weight and one size, on every row it has. *)
BoxesRefused(list) ==
  \/ PackingRefused(list)
  \/ \E i, j \in DOMAIN list : list[i].box = Blank \/ (list[i].box = list[j].box /\ list[i].weight # list[j].weight)

Packed(list) ==
  [m \in {list[i].msku : i \in DOMAIN list} |->
     SumOver(LAMBDA i : list[i].quantity, {i \in DOMAIN list : list[i].msku = m})]

(***************************************************************************)
(* One unit of an MSKU is its components divided by what divides them all. *)
(***************************************************************************)
UnitKnown(parts) == DOMAIN parts # {} /\ \A s \in DOMAIN parts : parts[s] > 0

CommonDivisor(numbers) == Max({d \in 1 .. Min(numbers) : \A n \in numbers : n % d = 0})

UnitOf(parts) == [s \in DOMAIN parts |-> parts[s] \div CommonDivisor(Range(parts))]

Resolved(infos, packed) == {m \in DOMAIN packed \cap DOMAIN infos : UnitKnown(infos[m].parts)}

Actual(infos, packed) ==
  LET known == Resolved(infos, packed)
      In(m, s) == IF s \in DOMAIN infos[m].parts THEN packed[m] * UnitOf(infos[m].parts)[s] ELSE 0
  IN [s \in UNION {DOMAIN infos[m].parts : m \in known} |-> SumOver(LAMBDA m : In(m, s), known)]

(* Only an MSKU that was to be shipped 0 times may be missing from the boxes. *)
Issues(infos, packed) ==
  {[msku |-> m, status |-> "unresolved"] : m \in DOMAIN packed \ Resolved(infos, packed)} \cup
  {[msku |-> m, status |-> IF infos[m].ship = 0 THEN "not shipped" ELSE "unresolved"] :
     m \in DOMAIN infos \ DOMAIN packed}

Blocked(infos, packed) == \E i \in Issues(infos, packed) : i.status = "unresolved"

(***************************************************************************)
(* The validation report.                                                  *)
(***************************************************************************)
Count(quantities, sku) == IF sku \in DOMAIN quantities THEN quantities[sku] ELSE 0

MskuSources(infos, sku) == {m \in DOMAIN infos : sku \in DOMAIN infos[m].parts}

SkuStatus(expected, actual) ==
  CASE actual = expected -> "same"
    [] actual = 0 /\ expected > 0 -> "missing"
    [] actual > 0 /\ expected = 0 -> "extra"
    [] OTHER -> "different"

ValidationRows(infos, expected, actual) ==
  {[sku |-> s, mskus |-> MskuSources(infos, s), status |-> SkuStatus(Count(expected, s), Count(actual, s))] :
     s \in DOMAIN expected \cup DOMAIN actual}

ReportStatus(rows, issues) ==
  IF \E i \in issues : i.status = "unresolved" THEN "incomplete"
  ELSE IF \E r \in rows : r.status # "same" THEN "mismatch" ELSE "passed"

(* comparison: a sequence of records with the planned and the actual quantity of a summary row. *)
Shortage(comparison) ==
  LET short == {i \in DOMAIN comparison : comparison[i].planned > comparison[i].actual}
  IN [kept    |-> SumOver(LAMBDA i : comparison[i].planned - comparison[i].actual, short),
      planned |-> SumOver(LAMBDA i : comparison[i].planned, DOMAIN comparison),
      actual  |-> SumOver(LAMBDA i : comparison[i].actual, DOMAIN comparison)]

Report(rows, issues, comparison) ==
  [status |-> ReportStatus(rows, issues), rows |-> rows, issues |-> issues, shortage |-> Shortage(comparison)]

(* ComparedRow: how a row of the summary sheet came out. *)
ComparedRow(row, model, actual) ==
  [sku |-> row.sku, model |-> model, planned |-> row.quantity, actual |-> actual, total |-> actual * row.price,
   status |-> IF actual = 0 THEN "not written"
              ELSE IF actual = row.quantity /\ actual * row.price = row.total THEN "same" ELSE "changed"]
=============================================================================
