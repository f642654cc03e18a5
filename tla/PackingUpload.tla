---------------------------- MODULE PackingUpload ----------------------------
(***************************************************************************)
(* The upload of the quantities really packed                              *)
(* (services/agent_cli/mabang/erp_packing_upload.py).  They are what the   *)
(* delivery CSV says now; the ERP (external) compares them with what the   *)
(* purchase batch was planned from.                                        *)
(***************************************************************************)
EXTENDS ShipmentQuantities

(* _normalized_delivery_quantities *)
Sent(csv) == {m \in DeliveryMskus(csv) : MskuShip(csv, m) > 0}

PackingQuantities(csv) == [m \in Sent(csv) |-> MskuShip(csv, m)]

UploadRefused(csv) ==
  \/ DeliveryRefused(csv)
  \/ \E m \in DeliveryMskus(csv) : MskuShip(csv, m) = None
  \/ Sent(csv) = {}

(* _request_id: the file and what it says. *)
PackingRequest(sp, csv) == <<sp, csv>>

(* The ERP's summary: the net difference, and what stays behind. *)
Reconciled(planned, packed) ==
  LET all == DOMAIN planned \cup DOMAIN packed
  IN [planned    |-> SumOver(LAMBDA m : Count(planned, m), all),
      difference |-> SumOver(LAMBDA m : Count(packed, m) - Count(planned, m), all),
      carryover  |-> SumOver(LAMBDA m : Max({0, Count(planned, m) - Count(packed, m)}), all)]

(* Mutant: more of one MSKU makes up for less of another. *)
IdenticalToPlanNet(summary) == summary.difference = 0 /\ summary.planned > 0
IdenticalToPlan(summary) == summary.difference = 0 /\ summary.carryover = 0 /\ summary.planned > 0

(* A quote is what a preview would store; it is good for the plan it was made from. *)
QuoteFor(sp, planned, packed) ==
  [sp |-> sp, packed |-> packed, planned |-> planned, summary |-> Reconciled(planned, packed)]
=============================================================================
