----------------------------- MODULE SellerPages -----------------------------
(***************************************************************************)
(* Amazon's pages as a stage of a shipment meets them: what a page offers  *)
(* and where a click leads.  page.at names what is on the screen, from the *)
(* home page through the steps of "Send to Amazon" to the tracking codes;  *)
(* Leads says which element of it leads where.                             *)
(*                                                                         *)
(* The pages are Amazon's; what they do is taken from what the code waits  *)
(* for after each click.                                                   *)
(***************************************************************************)
EXTENDS Integers, Sequences, FiniteSets

CONSTANTS
  Aliases,      \* site -> the labels of the account's regions that contain one of its names
  Marketplace,  \* label of a region -> the site it is the label of
  Shipments,    \* the shipments, in the order of their tabs
  Boxes         \* shipment -> its number of boxes

Leads == {
  <<"switcher", "region_confirm", "login">>, <<"switcher", "region_confirm", "home">>,
  <<"login", "login_button", "home">>, <<"login", "login_button", "login">>,
  <<"start", "start_new", "method">>, <<"start", "start_new", "template">>,
  <<"method", "file_upload", "template">>,
  <<"template", "file_input", "template">>, <<"template", "upload_file", "listed">>,
  <<"listed", "pack_single_units", "confirmed">>,
  <<"confirmed", "packing_card", "units">>,
  <<"units", "several_boxes", "several">>, <<"several", "confirm_boxes", "inputs">>,
  <<"inputs", "input_method", "options">>, <<"options", "excel_option", "count">>,
  <<"count", "box_count", "counted">>, <<"counted", "generate", "sheet">>,
  <<"sheet", "step2_input", "sheet">>, <<"sheet", "validate", "packed">>, <<"sheet", "validate", "rejected">>,
  <<"packed", "confirm_and_continue", "carrier">>,
  <<"carrier", "own_carrier", "dialog">>, <<"carrier", "own_carrier", "form">>, <<"form", "own_carrier", "form">>,
  <<"dialog", "confirm", "form">>,
  <<"form", "update", "form">>, <<"form", "accept_fees", "accepted">>,
  <<"accepted", "input_tracking", "tracking">>}

Offers(page, element) == \E l \in Leads : l[1] = page.at /\ l[2] = element

(* Where a click may lead. *)
Led(page, element) == {[page EXCEPT !.at = l[3]] : l \in {k \in Leads : k[1] = page.at /\ k[2] = element}}

(***************************************************************************)
(* Regions.  A label is taken for a site's when it contains one of the     *)
(* site's names, short ones included: another site's may contain it too.   *)
(***************************************************************************)
LabelMatchesSite(label, site) == label \in Aliases[site]

(* The option with a matching label is chosen; nothing is switched before the confirmation. *)
ChooseRegion(page, site) == {[page EXCEPT !.chosen = label] : label \in Aliases[site]}

ConfirmRegion(page) == {[p EXCEPT !.region = page.chosen] : p \in Led(page, "region_confirm")}

(***************************************************************************)
(* Send to Amazon, step 1 and 1b.                                          *)
(***************************************************************************)

(* Opening the page offers a new shipment, when another one is under way, or the way to     *)
(* give the SKUs of this one, or a list given before; global logistics may be ticked.       *)
OpenSendToAmazon(page) ==
  LET ways == {"start", "method", "template"} \cup (IF page.at = "listed" THEN {"listed"} ELSE {})
  IN {[page EXCEPT !.at = w[1], !.agl = w[2]] : w \in ways \X BOOLEAN}

(* The list of SKUs is taken from the file; with the next click it is the shipment's. *)
ListSkus(page, sheet) == [page EXCEPT !.at = "listed", !.skus = sheet.listed]

(* Errors on the page are the result of an upload; warnings let it pass. *)
Step2UploadResult(page) == IF page.at = "rejected" THEN "error" ELSE "success"

(* What may come back to step 2 is packed anew. *)
BackToStep2(page) == [page EXCEPT !.at = "units", !.packing = <<>>]

(***************************************************************************)
(* The page on which every box of every shipment is given its tracking     *)
(* code, the code shown in the box's own row: one tab per shipment, whose  *)
(* rows and "shipped" badge show while the tab is selected.                *)
(***************************************************************************)
Code(shipment, row) == <<shipment, row>>

TrackingInputReady(page) == page.at = "tracking"

ReadTrackingTabs(page) == IF page.at = "tracking" THEN Shipments ELSE <<>>

ClickTrackingTab(page, index) == [page EXCEPT !.tab = Shipments[index]]

(* Mutant: a badge counts, whosever it is. *)
ShipmentCompletedAny(page, shipment) == page.shipped # {}

(* The badge of a shipped shipment is looked for beside the link of this shipment. *)
ShipmentCompletedVisible(page, shipment) == page.tab = shipment /\ shipment \in page.shipped

ReadTrackingRows(page) ==
  IF page.tab \in page.shipped \/ page.tab = "none" THEN <<>>
  ELSE [row \in 1..Boxes[page.tab] |-> Code(page.tab, row)]

FillTrackingRowInput(page, row, code) == [page EXCEPT !.typed[page.tab][row] = code]

(* Amazon takes a shipment whose every box has a code. *)
SaveTracking(page) ==
  IF \A row \in 1..Boxes[page.tab] : page.typed[page.tab][row] # <<>>
  THEN [page EXCEPT !.shipped = @ \cup {page.tab}] ELSE page
===============================================================================
