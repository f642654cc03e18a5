---------------------------- MODULE OwnCarrierPage ----------------------------
(***************************************************************************)
(* The page on which a shipment is given the seller's own carrier: its     *)
(* four layouts, the two dropdowns and the two dates.  A date is           *)
(* <<year, month, day>>, a shown month of a calendar <<year, month>>.      *)
(***************************************************************************)
EXTENDS SellerPages

Modes == {"AIR", "OCEAN", "GROUND", "EXPRESS_AIR"}

(* What the dropdown calls a mode: air express is air. *)
TargetValue(mode) == IF mode = "EXPRESS_AIR" THEN "AIR" ELSE mode

(***************************************************************************)
(* Dates.                                                                  *)
(***************************************************************************)
DaysIn(y, mo) ==
  CASE mo \in {4, 6, 9, 11} -> 30
    [] mo = 2 -> IF y % 4 = 0 /\ (y % 100 # 0 \/ y % 400 = 0) THEN 29 ELSE 28
    [] OTHER -> 31

NextMonth(ym) == IF ym[2] = 12 THEN <<ym[1] + 1, 1>> ELSE <<ym[1], ym[2] + 1>>
PrevMonth(ym) == IF ym[2] = 1 THEN <<ym[1] - 1, 12>> ELSE <<ym[1], ym[2] - 1>>
MonthOf(date) == <<date[1], date[2]>>

(* Thirty days later, whatever the mode. *)
CalculatePickupDate(today) ==
  LET over == today[3] + 30 - DaysIn(today[1], today[2])
      next == NextMonth(MonthOf(today))
      left == over - DaysIn(next[1], next[2])
  IN CASE over <= 0 -> <<today[1], today[2], today[3] + 30>>
       [] over > 0 /\ left <= 0 -> next \o <<over>>
       [] OTHER -> NextMonth(next) \o <<left>>

(* Mutant: the month alone is compared. *)
BeforeInTheYear(ym, date) == ym[2] < date[2]

(* The shown month comes before the month of the date. *)
Before(ym, date) == ym[1] < date[1] \/ (ym[1] = date[1] /\ ym[2] < date[2])

ShowsMonth(ym, date) == ym = MonthOf(date)

TurnCalendar(ym, date) == IF Before(ym, date) THEN NextMonth(ym) ELSE PrevMonth(ym)

(***************************************************************************)
(* Layouts.                                                                *)
(***************************************************************************)
OnCarrierPage(page) == page.at \in {"carrier", "dialog", "form"}

(* A page that shows none of the others' elements counts as the legacy layout. *)
DetectOwnCarrierLayout(page) == IF OnCarrierPage(page) THEN page.layout ELSE "legacy"

ProbeOwnCarrierReady(page) ==
  OnCarrierPage(page) /\ (page.layout # "legacy" \/ page.at \in {"carrier", "form"})

(* A dialog may ask for a confirmation; the tile of layout ca may be selected already. *)
EntrySteps(page) ==
  CASE DetectOwnCarrierLayout(page) = "legacy" ->
         IF page.at = "form" THEN <<>> ELSE <<"own_carrier", "dialog", "confirm">>
    [] page.layout = "3_1" -> <<"own_carrier">>
    [] page.layout = "3_2" -> <<"own_carrier", "confirm_if_asked">>
    [] page.layout = "ca" -> IF page.at = "form" THEN <<>> ELSE <<"own_carrier">>

(* The old layout always asks for a confirmation, 3_2 sometimes. *)
EnterOwnCarrier(page) ==
  {p \in Led(page, "own_carrier") :
     CASE page.layout = "legacy" -> p.at = "dialog" [] page.layout = "3_2" -> TRUE [] OTHER -> p.at = "form"}

(* The new layouts take mode and carrier first, the old ones the delivery date. *)
FormSteps(layout) ==
  CASE layout \in {"3_2", "ca"} -> <<"mode_and_carrier", "ship", "deliver">>
    [] layout = "3_1" -> <<"deliver", "update", "carrier">>
    [] OTHER -> <<"deliver", "update", "carrier", "mode">>

AcceptSteps == <<"accept_fees", "accepted", "summary", "input_tracking", "tracking">>

OwnCarrierPlan(page) ==
  EntrySteps(page) \o FormSteps(DetectOwnCarrierLayout(page)) \o AcceptSteps

(***************************************************************************)
(* The form.                                                               *)
(***************************************************************************)
DropdownSelected(page, dropdown, value) == page[dropdown] = value

(* Choosing an option leaves the other dropdown alone, or, in some layouts, empties it. *)
SelectOption(page, dropdown, value) ==
  [page EXCEPT !.mode = IF dropdown = "mode" THEN value ELSE @,
               !.carrier = IF dropdown = "carrier" THEN value ELSE @]

EmptyOther(page, dropdown) ==
  [page EXCEPT !.mode = IF dropdown = "carrier" THEN "none" ELSE @,
               !.carrier = IF dropdown = "mode" THEN "none" ELSE @]

(* A ship date may empty the delivery date. *)
ClickDay(page, picker, date) ==
  IF picker = "ship" THEN {[page EXCEPT !.ship = date], [page EXCEPT !.ship = date, !.deliver = <<>>]}
  ELSE {[page EXCEPT !.deliver = date]}

DateCompleted(page, picker, date) == page[picker] = date
===============================================================================
