---------------------------- MODULE AmazonShipment ----------------------------
(***************************************************************************)
(* Creating a shipment on Amazon's pages, in four stages run one after the *)
(* other by the agent, each a command of its own:                          *)
(*                                                                         *)
(*   1  prepare_upload           region, Send to Amazon, the list of SKUs  *)
(*   2  prepare_multi_box_excel  the contents of the boxes                 *)
(*   3  confirm_own_carrier      carrier, mode and dates; the acceptance   *)
(*   4  enter_tracking_codes     a code for every box                      *)
(*                                                                         *)
(* The page outlives the stages; a stage knows of it only what it reads.   *)
(* run.todo is what the stage still has to do.  Amazon may lose a click,   *)
(* be too slow, undo a choice, fall back to step 2 or refuse a file: such  *)
(* faults are bounded by MaxFaults, and run.met says that one has met the  *)
(* stages which they are not made for.                                     *)
(***************************************************************************)
EXTENDS OwnCarrierPage, ShipmentSheets

CONSTANTS
  Tasks,        \* the shipments that may be asked for: [site, mode, rows, today]
  Layouts, Regions,
  MaxFaults,
  MaxLoginClicks,   \* 10 in the code
  MaxRuns,      \* how many stages the agent begins
  MaxTurns      \* how many months a calendar can be turned in the time of a stage

(* A consignment numbers at least one box; what is packed is counted.  A calendar has the  *)
(* minute of its stage for the at most three months it is away from the date.               *)
ASSUME TasksAssumption ==
  \A task \in Tasks :
    /\ task.site \in DOMAIN Aliases
    /\ task.rows \in Seq({task.rows[i] : i \in DOMAIN task.rows})
    /\ \A i \in DOMAIN task.rows : task.rows[i].box \in Nat /\ task.rows[i].qty \in Nat
    /\ BoxNumbers(task.rows) # {}
    /\ task.today \in Int \X (1..12) \X (1..31)

ASSUME PagesAssumption ==
  /\ Layouts \subseteq {"legacy", "3_1", "3_2", "ca"}
  /\ Shipments \in Seq(DOMAIN Boxes)
  /\ \A s \in DOMAIN Boxes : Boxes[s] \in Nat

ASSUME BoundsAssumption ==
  /\ MaxFaults \in Nat /\ MaxRuns \in Nat /\ MaxLoginClicks \in Nat
  /\ MaxTurns \in Nat /\ MaxTurns >= 3

VARIABLES
  asked,        \* the shipment that is asked for
  page, run, faults

vars == <<asked, page, run, faults>>

EmptySheet == Step2Template({}, 0)
NoCodes == [s \in {Shipments[i] : i \in DOMAIN Shipments} |-> [row \in 1..Boxes[s] |-> <<>>]]

Rest == [stage |-> 0, state |-> "idle", todo |-> <<>>, begun |-> 0, met |-> FALSE,
         clicked |-> 0, tab |-> 0, shown |-> <<>>, turned |-> 0, filled |-> EmptySheet, codes |-> <<>>]

(* Any shipment is asked for, any region is shown; the shipment will get any layout. *)
Init ==
  /\ asked \in Tasks
  /\ \E region \in Regions, layout \in Layouts :
       page = [at |-> "home", region |-> region, chosen |-> region, agl |-> FALSE,
               skus |-> [s \in {} |-> 0], packing |-> EmptySheet, layout |-> layout,
               mode |-> "none", carrier |-> "none", ship |-> <<>>, deliver |-> <<>>,
               tab |-> "none", typed |-> NoCodes, shipped |-> {}]
  /\ run = Rest
  /\ faults = 0

Target == CalculatePickupDate(asked.today)

(***************************************************************************)
(* A stage on its way.  In stage 3 every wait looks first whether the page *)
(* has gone back to the start of step 2.                                   *)
(***************************************************************************)
BackAtStep2 == run.stage = 3 /\ page.at = "units"

Running == run.state = "running" /\ run.todo # <<>> /\ ~BackAtStep2

(* The pages a step finds what it works on; the others it finds on any page. *)
WorksOn(what) ==
  CASE what = "upload_mode" -> {"start", "method", "template", "listed"}
    [] what = "upload_file" -> {"template", "listed"}
    [] what = "packing_card" -> {"confirmed", "units"}
    [] what = "validate" -> {"sheet"}
    [] what \in {"mode_and_carrier", "mode", "carrier", "ship", "deliver"} -> {"form"}
    [] what \in {"tab", "details", "fill", "save", "shipped"} -> {"tracking"}
    [] OTHER -> {page.at}

Todo(what) == Running /\ Head(run.todo) = what /\ page.at \in WorksOn(what)

NothingToWorkOn ==
  /\ Running /\ page.at \notin WorksOn(Head(run.todo))
  /\ run' = [run EXCEPT !.state = "failed"]
  /\ UNCHANGED <<page, faults>>

Then == [run EXCEPT !.todo = Tail(@), !.clicked = 0, !.turned = 0, !.shown = <<>>]

Proceed == run' = Then
Repeat == run' = [run EXCEPT !.clicked = @ + 1]
Fail(met) == run' = [run EXCEPT !.state = "failed", !.met = @ \/ met]

NoFault == UNCHANGED faults
Fault == faults < MaxFaults /\ faults' = faults + 1

Stage1 == <<"region", "open", "upload_mode", "template", "upload_file", "pack_single_units", "confirmed">>
Stage2 == <<"packing_card", "several_boxes", "confirm_boxes", "input_method", "excel_option", "box_count",
            "generate", "sheet", "fill_sheet", "validate", "confirm_and_continue", "carrier_page">>
Stage4 == <<"tabs">>

(***************************************************************************)
(* The agent: a stage that is finished is followed by the next; a return   *)
(* to step 2 by stage 2; a stage that failed may be run again, or the      *)
(* first, for as long as anybody tries.                                    *)
(***************************************************************************)
Ready(stage) ==
  CASE stage = 1 -> TRUE
    [] stage = 2 -> page.at \in {"confirmed", "units"}
    [] stage = 3 -> ProbeOwnCarrierReady(page)
    [] stage = 4 -> TrackingInputReady(page)

PlanOf(stage) ==
  CASE stage = 1 -> Stage1 [] stage = 2 -> Stage2 [] stage = 3 -> OwnCarrierPlan(page) [] stage = 4 -> Stage4

Follows(stage) ==
  CASE run.state = "idle" -> stage = 1
    [] run.state = "finished" -> stage = run.stage + 1
    [] run.state = "returned" -> stage = 2
    [] run.state \in {"failed", "refused", "rejected"} -> stage \in {1, run.stage}
    [] OTHER -> FALSE

BeginStage(stage) ==
  /\ Follows(stage)
  /\ run.begun < MaxRuns
  /\ run' = [Rest EXCEPT !.stage = stage, !.begun = run.begun + 1, !.met = run.met,
                         !.todo = IF Ready(stage) THEN PlanOf(stage) ELSE <<>>,
                         !.state = IF Ready(stage) THEN "running" ELSE "refused"]
  /\ UNCHANGED <<page, faults>>

FinishStage ==
  /\ run.state = "running" /\ run.todo = <<>>
  /\ run' = [run EXCEPT !.state = "finished"]
  /\ UNCHANGED <<page, faults>>

(***************************************************************************)
(* Clicks and waits that every stage uses.                                 *)
(***************************************************************************)
PlainClicks == {
  "region_confirm", "pack_single_units", "several_boxes", "confirm_boxes", "input_method", "excel_option",
  "box_count", "generate", "confirm_and_continue", "own_carrier", "confirm", "update", "accept_fees",
  "input_tracking"}

AfterClick(what) ==
  CASE what = "own_carrier" -> EnterOwnCarrier(page)
    [] what = "region_confirm" -> ConfirmRegion(page)
    [] OTHER -> Led(page, what)

(* What is clicked is on the page; whether the click does anything is not looked at. *)
WaitForClick(what) ==
  /\ Todo(what)
  /\ \/ /\ Offers(page, what)
        /\ \/ page' \in AfterClick(what) /\ Proceed /\ NoFault
           \/ Fault /\ run' = [Then EXCEPT !.met = TRUE] /\ UNCHANGED page
     \/ ~Offers(page, what) /\ Fail(FALSE) /\ UNCHANGED page /\ NoFault

Awaited == {"confirmed", "template", "sheet", "carrier_page", "dialog", "accepted", "tracking"}

Arrived(what) ==
  CASE what = "carrier_page" -> page.at = "carrier"
    [] what = "template" -> page.at \in {"template", "listed"}
    [] OTHER -> page.at = what

WaitForCondition(what) ==
  /\ Todo(what)
  /\ IF Arrived(what) THEN Proceed ELSE Fail(FALSE)
  /\ UNCHANGED page /\ NoFault

(* Whatever is waited for may take longer than the stage waits, or be an error. *)
Timeout ==
  /\ Running
  /\ Fault /\ Fail(TRUE)
  /\ UNCHANGED page

(***************************************************************************)
(* Stage 1.                                                                *)
(***************************************************************************)

(* Mutant: the region on show is not looked at. *)
SwitchRegionUnread ==
  /\ Todo("region")
  /\ Proceed /\ UNCHANGED page
  /\ NoFault

(* The region on show is the one asked for, or it is switched: an option is chosen, if there *)
(* is one, and confirmed, a login that Amazon asks for is passed, and the home page must     *)
(* show it.                                                                                  *)
SwitchRegion ==
  /\ Todo("region")
  /\ \/ LabelMatchesSite(page.region, asked.site) /\ Proceed /\ UNCHANGED page
     \/ /\ ~LabelMatchesSite(page.region, asked.site)
        /\ page' \in ChooseRegion([page EXCEPT !.at = "switcher"], asked.site)
        /\ run' = [Then EXCEPT !.todo = <<"region_confirm", "login", "home_region">> \o @]
     \/ /\ Aliases[asked.site] = {}
        /\ page' = [page EXCEPT !.at = "switcher"] /\ Fail(TRUE)
  /\ NoFault

(* The button of the login page is clicked a number of times; then somebody must log in. *)
VerifySellerCentralLogin ==
  /\ Todo("login")
  /\ \/ page.at # "login" /\ Proceed /\ UNCHANGED page
     \/ page.at = "login" /\ run.clicked < MaxLoginClicks /\ page' \in Led(page, "login_button") /\ Repeat
     \/ page.at = "login" /\ run.clicked = MaxLoginClicks /\ Fail(TRUE) /\ UNCHANGED page
  /\ NoFault

WaitForHomeRegionMatch ==
  /\ Todo("home_region")
  /\ IF page.at = "home" /\ LabelMatchesSite(page.region, asked.site) THEN Proceed ELSE Fail(FALSE)
  /\ UNCHANGED page /\ NoFault

OpenSendToAmazonPage ==
  /\ Todo("open")
  /\ page' \in {[p EXCEPT !.mode = "none", !.carrier = "none", !.ship = <<>>, !.deliver = <<>>,
                          !.tab = "none", !.typed = NoCodes, !.shipped = {}] : p \in OpenSendToAmazon(page)}
  /\ Proceed /\ NoFault

(* A new shipment is started once, the file chosen as the way, and global logistics         *)
(* unticked, which is looked at again.                                                      *)
OpenUploadMode ==
  /\ Todo("upload_mode")
  /\ \/ /\ page.at \in {"template", "listed"} /\ ~page.agl
        /\ Proceed /\ UNCHANGED page /\ NoFault
     \/ /\ page.at \in {"template", "listed"} /\ page.agl
        /\ \/ page' = [page EXCEPT !.agl = FALSE] /\ UNCHANGED run /\ NoFault
           \/ Fault /\ Fail(TRUE) /\ UNCHANGED page
     \/ /\ page.at = "method"
        /\ page' \in Led(page, "file_upload") /\ UNCHANGED run /\ NoFault
     \/ /\ page.at = "start" /\ run.clicked = 0
        /\ Repeat
        /\ \/ page' \in Led(page, "start_new") /\ NoFault
           \/ Fault /\ UNCHANGED page
     \/ /\ page.at = "start" /\ run.clicked = 1
        /\ Fail(TRUE) /\ UNCHANGED page /\ NoFault

(* A list already on the page is taken for the result; no result at all is no error. *)
UploadFilledTemplate ==
  /\ Todo("upload_file")
  /\ \/ page.at = "listed" /\ Proceed /\ UNCHANGED page /\ NoFault
     \/ /\ Offers(page, "upload_file")
        /\ \/ page' = ListSkus(page, FillShipmentTemplate([listed |-> {}], asked.rows)) /\ Proceed /\ NoFault
           \/ Fault /\ run' = [Then EXCEPT !.met = TRUE] /\ UNCHANGED page

(***************************************************************************)
(* Stage 2.                                                                *)
(***************************************************************************)

(* The card is clicked at most twice, until it is selected. *)
ClickPackingMethodBox ==
  /\ Todo("packing_card")
  /\ \/ page.at = "units" /\ Proceed /\ UNCHANGED page /\ NoFault
     \/ /\ page.at = "confirmed" /\ run.clicked < 2 /\ Repeat
        /\ \/ page' \in Led(page, "packing_card") /\ NoFault
           \/ Fault /\ UNCHANGED page
     \/ page.at = "confirmed" /\ run.clicked = 2 /\ Fail(TRUE) /\ UNCHANGED page /\ NoFault

FillSheet ==
  LET template == Step2Template(DOMAIN page.skus, ExtractBoxCount(asked.rows))
  IN /\ Todo("fill_sheet")
     /\ IF Step2Fits(asked.rows, template)
        THEN run' = [Then EXCEPT !.filled = FillMultiBoxStep2Template(asked.rows, template)]
        ELSE Fail(FALSE)
     /\ UNCHANGED page /\ NoFault

(* A refused sheet ends the stage with Amazon's words, and without an error. *)
UploadFilledMultiBoxExcel ==
  /\ Todo("validate")
  /\ \E shown \in Led(page, "validate") :
       CASE Step2UploadResult(shown) = "success" ->
              page' = [shown EXCEPT !.packing = run.filled] /\ Proceed /\ NoFault
         [] Step2UploadResult(shown) = "error" ->
              page' = shown /\ Fault /\ run' = [run EXCEPT !.state = "rejected", !.met = TRUE]

(***************************************************************************)
(* Stage 3.                                                                *)
(***************************************************************************)
ReturnedToStep2Start ==
  /\ run.state = "running" /\ BackAtStep2
  /\ run' = [run EXCEPT !.state = "returned"]
  /\ UNCHANGED <<page, faults>>

ConfirmModalIfVisible ==
  /\ Todo("confirm_if_asked")
  /\ page' \in (IF page.at = "dialog" THEN Led(page, "confirm") ELSE {page})
  /\ Proceed /\ NoFault

Mode == TargetValue(asked.mode)

(* Mutant: the round is over with the carrier. *)
RoundSucceedsByCarrier(p) == DropdownSelected(p, "carrier", "OTHER")

(* Both dropdowns are looked at when both have been chosen. *)
RoundSucceeds(p) == DropdownSelected(p, "mode", Mode) /\ DropdownSelected(p, "carrier", "OTHER")

(* Mode and carrier are chosen in up to three rounds: choosing one may undo the other. *)
SelectCarrierMode ==
  /\ Todo("mode_and_carrier")
  /\ LET both == SelectOption(SelectOption(page, "mode", Mode), "carrier", "OTHER")
     IN \/ page' = both /\ NoFault
        \/ page' \in {EmptyOther(both, "mode"), EmptyOther(both, "carrier")} /\ Fault
  /\ IF RoundSucceeds(page') THEN Proceed ELSE IF run.clicked < 2 THEN Repeat ELSE Fail(TRUE)

(* In the old layouts an option is chosen and not looked at. *)
SelectDropdown(dropdown) ==
  /\ Todo(dropdown)
  /\ \/ /\ page' = SelectOption(page, dropdown, IF dropdown = "mode" THEN Mode ELSE "OTHER")
        /\ Proceed /\ NoFault
     \/ Fault /\ run' = [Then EXCEPT !.met = TRUE] /\ UNCHANGED page

DateFor(picker) == IF picker = "ship" THEN asked.today ELSE Target

(* The calendar opens at some month near the date. *)
ClickDateInput(picker) ==
  /\ Todo(picker) /\ run.shown = <<>>
  /\ \E month \in {MonthOf(asked.today), MonthOf(Target), NextMonth(MonthOf(Target))} :
       run' = [run EXCEPT !.shown = month]
  /\ UNCHANGED page /\ NoFault

(* The day is clicked until it is the date; a click that is lost is repeated. *)
ClickCalendarDay(picker) ==
  /\ Todo(picker) /\ run.shown # <<>> /\ ShowsMonth(run.shown, DateFor(picker))
  /\ \/ page' \in ClickDay(page, picker, DateFor(picker)) /\ NoFault
     \/ Fault /\ UNCHANGED page
  /\ IF DateCompleted(page', picker, DateFor(picker)) THEN Proceed ELSE UNCHANGED run

TurnMonth(picker) ==
  /\ Todo(picker) /\ run.shown # <<>> /\ ~ShowsMonth(run.shown, DateFor(picker))
  /\ IF run.turned < MaxTurns
     THEN run' = [run EXCEPT !.shown = TurnCalendar(@, DateFor(picker)), !.turned = @ + 1]
     ELSE Fail(FALSE)
  /\ UNCHANGED page /\ NoFault

(* The particulars of the shipments are read and written to a sheet of their own. *)
WriteShipmentSummary ==
  /\ Todo("summary")
  /\ Proceed /\ UNCHANGED page /\ NoFault

(***************************************************************************)
(* Stage 4: run.tab is the tab being done.                                 *)
(***************************************************************************)
ReadTabs ==
  /\ Todo("tabs")
  /\ run' = [Then EXCEPT !.todo = IF ReadTrackingTabs(page) = <<>> THEN <<>> ELSE <<"tab">>, !.tab = 1]
  /\ UNCHANGED page /\ NoFault

NextTab ==
  run' = [run EXCEPT !.tab = @ + 1, !.clicked = 0,
                     !.todo = IF run.tab = Len(Shipments) THEN <<>> ELSE <<"tab">>]

SelectTab ==
  /\ Todo("tab")
  /\ run' = [run EXCEPT !.todo = <<"details">>]
  /\ \/ page' = ClickTrackingTab(page, run.tab) /\ NoFault
     \/ Fault /\ UNCHANGED page

(* A shipment that is shipped already is passed over; the rows on show are the ones filled. *)
ShowDetails ==
  /\ Todo("details")
  /\ IF ShipmentCompletedVisible(page, Shipments[run.tab]) THEN NextTab
     ELSE IF ReadTrackingRows(page) # <<>>
     THEN run' = [run EXCEPT !.codes = ReadTrackingRows(page), !.todo = <<"fill">>]
     ELSE Fail(TRUE)
  /\ UNCHANGED page /\ NoFault

FillRow ==
  /\ Todo("fill")
  /\ page' = FillTrackingRowInput(page, run.clicked + 1, run.codes[run.clicked + 1])
  /\ IF run.clicked + 1 = Len(run.codes) THEN run' = [run EXCEPT !.todo = <<"save">>] ELSE Repeat
  /\ NoFault

Save ==
  /\ Todo("save")
  /\ run' = [run EXCEPT !.todo = <<"shipped">>]
  /\ \/ page' = SaveTracking(page) /\ NoFault
     \/ Fault /\ UNCHANGED page

AwaitShipped ==
  /\ Todo("shipped")
  /\ IF ShipmentCompletedVisible(page, Shipments[run.tab]) THEN NextTab ELSE Fail(TRUE)
  /\ UNCHANGED page /\ NoFault

(***************************************************************************)
(* What Amazon does by itself.                                             *)
(***************************************************************************)
FallBackToStep2 ==
  /\ OnCarrierPage(page) /\ Fault
  /\ page' = BackToStep2(page)
  /\ run' = IF run.stage = 3 /\ run.state = "running" THEN run ELSE [run EXCEPT !.met = TRUE]

(* The browser is started anew: a stage that uses it fails, and the page is the home page. *)
BrowserRestarts ==
  /\ page.at # "home" /\ Fault
  /\ \E region \in Regions : page' = [page EXCEPT !.at = "home", !.region = region, !.chosen = region]
  /\ run' = [run EXCEPT !.met = TRUE, !.state = IF @ = "running" THEN "failed" ELSE @]

Stopped ==
  \/ run.state = "finished" /\ run.stage = 4
  \/ run.state \notin {"running"} /\ run.begun = MaxRuns

Step ==
  \/ \E stage \in 1..4 : BeginStage(stage)
  \/ FinishStage
  \/ \E what \in PlainClicks : WaitForClick(what)
  \/ \E what \in Awaited : WaitForCondition(what)
  \/ Timeout \/ NothingToWorkOn
  \/ SwitchRegion \/ VerifySellerCentralLogin \/ WaitForHomeRegionMatch
  \/ OpenSendToAmazonPage \/ OpenUploadMode \/ UploadFilledTemplate
  \/ ClickPackingMethodBox \/ FillSheet \/ UploadFilledMultiBoxExcel
  \/ ReturnedToStep2Start \/ ConfirmModalIfVisible \/ SelectCarrierMode
  \/ \E dropdown \in {"mode", "carrier"} : SelectDropdown(dropdown)
  \/ \E picker \in {"ship", "deliver"} :
       ClickDateInput(picker) \/ ClickCalendarDay(picker) \/ TurnMonth(picker)
  \/ WriteShipmentSummary
  \/ ReadTabs \/ SelectTab \/ ShowDetails \/ FillRow \/ Save \/ AwaitShipped
  \/ FallBackToStep2 \/ BrowserRestarts
  \/ Stopped /\ UNCHANGED <<page, run, faults>>

Next == Step /\ UNCHANGED asked

Spec == Init /\ [][Next]_vars

(***************************************************************************)
(* Properties.                                                             *)
(***************************************************************************)
AllBoxed(rows) == \A i \in DOMAIN rows : rows[i].box # 0

(* No other region of the account has a label with a name of this site in it. *)
ToldApart(site) == \A label \in Aliases[site] : Marketplace[label] = site

(* What Amazon has accepted is what was asked for: the marketplace, if its names are in no  *)
(* other region's label, the quantity of every SKU and, box by box, the same quantities;    *)
(* and in the layouts whose choices are verified the mode, the seller's own carrier, today  *)
(* as ship date and the delivery a month later, whatever Amazon undid, lost or made anew on *)
(* the way.                                                                                 *)
AcceptedShipmentIsTheOneAsked ==
  page.at \in {"accepted", "tracking"} =>
    /\ ToldApart(asked.site) => Marketplace[page.region] = asked.site
    /\ ~page.agl
    /\ page.skus = LoadConsignmentSummary(asked.rows)
    /\ AllBoxed(asked.rows) => \A sku \in DOMAIN page.skus : PackedQuantity(page.packing, sku) = page.skus[sku]
    /\ page.layout \in {"3_2", "ca"} =>
         page.mode = Mode /\ page.carrier = "OTHER" /\ page.ship = asked.today /\ page.deliver = Target

(* region_switch.py, "target site": a shipment is made in the marketplace that was asked for. *)
MarketplaceIsTheOneAsked ==
  page.at \in {"accepted", "tracking"} => Marketplace[page.region] = asked.site

(* A stage that follows its predecessor does its work on every layout, region and calendar, *)
(* through logins, undone choices, lost clicks on days and falls back to step 2, unless     *)
(* something it is not made for has met the shipment.                                       *)
UndisturbedStagesSucceed == run.state \in {"failed", "refused", "rejected"} => run.met

(* Stage 4 says it is finished only when every shipment is shipped, each box with the code  *)
(* of its own row, however often it was begun anew.                                         *)
FinishedMeansShipped ==
  run.state = "finished" /\ run.stage = 4 =>
    \A i \in DOMAIN Shipments :
      LET s == Shipments[i]
      IN s \in page.shipped /\ \A row \in 1..Boxes[s] : page.typed[s][row] = Code(s, row)
===============================================================================
