----------------------------- MODULE DeliveryCsv -----------------------------
(***************************************************************************)
(* The delivery CSV of an FBA delivery order (SP), as the commands of      *)
(* services/agent_cli/mabang read it: a sequence of rows                   *)
(* [msku, ship, parts], parts mapping stock SKUs to quantities.  None is   *)
(* an absent or unreadable number, Blank an empty cell.                    *)
(***************************************************************************)
EXTENDS Integers, Sequences, FiniteSets, FiniteSetsExt, SequencesExt, Functions

CONSTANTS None, Blank

SumOver(Value(_), S) == MapThenSumSet(Value, S)
SumAt(f, S) == SumOver(LAMBDA x : f[x], S)

CsvSkus(csv) == UNION {DOMAIN csv[i].parts : i \in DOMAIN csv}

PartOf(row, sku) == IF sku \in DOMAIN row.parts THEN row.parts[sku] ELSE 0

(* read_delivery_msku_infos: the rows of an MSKU together. *)
MskuShip(csv, msku) ==
  LET stated == {i \in DOMAIN csv : csv[i].msku = msku /\ csv[i].ship # None}
  IN IF stated = {} THEN None ELSE SumOver(LAMBDA i : csv[i].ship, stated)

MskuParts(csv, msku) ==
  LET mine == {i \in DOMAIN csv : csv[i].msku = msku}
  IN [s \in UNION {DOMAIN csv[i].parts : i \in mine} |-> SumOver(LAMBDA i : PartOf(csv[i], s), mine)]

(* The MSKUs of the rows that say anything, and a CSV nothing can be read from. *)
DeliveryMskus(csv) == {csv[i].msku : i \in {i \in DOMAIN csv : csv[i].ship # None \/ DOMAIN csv[i].parts # {}}}

DeliveryRefused(csv) == DeliveryMskus(csv) = {} \/ Blank \in DeliveryMskus(csv)
=============================================================================
