------------------------ MODULE ReplenishmentSchemes ------------------------
(* Parameter schemes like the built-in ones (replenishment_templates/ *.json), for the model
   checking instances. *)
EXTENDS ReplenishmentTemplate

Days(a, b, c) == <<[gt |-> 5 * Million, growth |-> a, stable |-> b, decline |-> c],
                   [gt |-> None, growth |-> b, stable |-> c, decline |-> c]>>
Base == [urgent |-> 40, air |-> 70, w7 |-> 6, w14 |-> 3, w30 |-> 1, days |-> Days(80, 70, 60),
         seaEnabled |-> FALSE, minDaily |-> 0, inclusive |-> FALSE, minWeight |-> 0,
         tiers |-> <<[gt |-> 0, days |-> 110, lte |-> None]>>, companion |-> FALSE,
         companionTiers |-> <<>>, minNet |-> 0, rules |-> <<>>]
Default == [Base EXCEPT !.seaEnabled = TRUE, !.minWeight = 3]
BySea == [Base EXCEPT !.seaEnabled = TRUE, !.inclusive = TRUE, !.minDaily = Million, !.minWeight = 3,
                      !.tiers = <<[gt |-> Million, days |-> 100, lte |-> Million],
                                  [gt |-> Million, days |-> 110, lte |-> None]>>]
Split == [BySea EXCEPT !.tiers = <<[gt |-> None, days |-> 110, lte |-> 5 * Million]>>,
                       !.companion = TRUE, !.minNet = 20,
                       !.companionTiers = <<[gt |-> Million, days |-> 30, lte |-> 5 * Million]>>,
                       !.rules = <<[mskus |-> {"m1"}, named |-> TRUE,
                                    overrides |-> [k \in {"minDaily", "air"} |->
                                                     IF k = "air" THEN 50 ELSE Million]]>>]
Odd == [Base EXCEPT !.w7 = 10, !.w14 = 0, !.w30 = 0]

(* A scheme whose companion air covers as many days as its sea shipment. *)
LongCompanion == [Split EXCEPT !.companionTiers = <<[gt |-> Million, days |-> 110, lte |-> 5 * Million]>>]

(* The workbooks handed in to the template commands: three that are taken, two of them with
   bounds of seven digits (rounded down and up from the middle, and up), one without its headers and one whose urgent bound is above the air
   bound. *)
MCSheets == { [ExportSheet(Split) EXCEPT !.body.tiers[1].range = Span("le", None, 5000005),
                                         !.body.companionTiers[1].range = Span("oc", Million, 5234567)],
              [ExportSheet(Odd) EXCEPT !.body.days[1].gt = Span("gt", 1000005, None)],
              [ExportSheet(BySea) EXCEPT !.body.tiers[1].range = Span("le", None, Million)],
              [ExportSheet(Base) EXCEPT !.complete = FALSE],
              ExportSheet([Base EXCEPT !.urgent = 90]) }

(* The workbook whose only sea tier is written as the low-sales fallback. *)
FallbackSheets == { [ExportSheet(BySea) EXCEPT !.body.tiers =
                       <<[days |-> 100, range |-> Span("fallback", None, None)]>>] }

MCTrendGroups == [t \in {"few", "resumed", "none", "surging", "growing", "plunging", "falling", "steady"} |->
                    CASE t = "few" -> "skip"
                      [] t \in {"resumed", "surging", "growing"} -> "growth"
                      [] t \in {"plunging", "falling"} -> "decline"
                      [] OTHER -> "stable"]
=============================================================================
