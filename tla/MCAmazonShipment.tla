-------------------------- MODULE MCAmazonShipment --------------------------
(* A consignment of two boxes, one SKU in both and twice in one of them, sent *)
(* near the end of a year; and one with a box number left out and a row       *)
(* without one, sent at the end of January.  Two shipments get their codes.   *)
(* The account has two regions, and a name of Italy's is in both labels; none *)
(* is in them of the site of a third task.                                    *)
EXTENDS AmazonShipment, TLC

(* The names that are in the text of a label ("IT" in "UNITEDKINGDOM"), and its site. *)
NamesIn == "Italy" :> {"IT", "ITALY"} @@ "United Kingdom" :> {"UNITEDKINGDOM", "IT"}
SiteOfLabel == "Italy" :> "IT" @@ "United Kingdom" :> "UK"

(* _SITE_ALIASES *)
Names == "UK" :> {"UK", "GB", "UNITEDKINGDOM", "BRITAIN"} @@ "IT" :> {"IT", "ITALY"}
      @@ "JP" :> {"JP", "JAPAN"}

SiteAliases == [site \in DOMAIN Names |-> {label \in DOMAIN NamesIn : Names[site] \cap NamesIn[label] # {}}]

Row(sku, box, qty, kg) == [sku |-> sku, box |-> box, qty |-> qty, kg |-> kg]

Consignment == <<Row("a", 1, 2, 20), Row("a", 2, 3, 24), Row("b", 2, 1, 24), Row("a", 1, 4, 20)>>

Unboxed == <<Row("a", 1, 2, 20), Row("b", 3, 1, 9), Row("b", 0, 5, 0)>>

December == [site |-> "UK", mode |-> "EXPRESS_AIR", rows |-> Consignment, today |-> <<2026, 12, 3>>]

January == [site |-> "IT", mode |-> "OCEAN", rows |-> Unboxed, today |-> <<2027, 1, 31>>]

Elsewhere == [January EXCEPT !.site = "JP"]

ThreeTasks == {December, January, Elsewhere}

TwoShipments == <<"s1", "s2">>
BoxesOf == "s1" :> 2 @@ "s2" :> 1
=============================================================================
