----------------------- MODULE ReplenishmentTemplate -----------------------
(***************************************************************************)
(* The parameter schemes of the replenishment calculation                 *)
(* (services/mabang/amazon/fba/replenishment_template.py): validation, the *)
(* lookups the calculation makes, and the workbook through which a scheme  *)
(* is exported, edited and imported.                                       *)
(*                                                                         *)
(* A scheme is a record of its parameters.  Daily sales are kept as        *)
(* integers over Scale, so that weights in tenths and windows of 7, 14 and *)
(* 30 days are exact; the bounds they are compared with (gt, lte,          *)
(* minDaily) are kept in millionths.  None is an absent bound.             *)
(***************************************************************************)
EXTENDS Integers, Sequences, SequencesExt

CONSTANTS None, TrendGroups,   \* a missing number; trend -> group of the default scheme
          TiesUp               \* bounds half-way between two texts of which the upper is written

ASSUME NoneAssumption == None \notin Int

Scale == 2100                  \* 7 * 14 * 30 / 14 days, weights in tenths
Million == 1000000

OverrideKeys == {"w7", "w14", "w30", "urgent", "air", "minDaily", "minWeight"}

IsNonNegative(x) == x # None /\ x >= 0

(* validate_template: weights, trends, the tiers of air replenishment. *)
ValidWeights(p) == \A k \in {"w7", "w14", "w30"} : IsNonNegative(p[k])

ValidDays(p) ==
  /\ p.days # <<>>
  /\ \A i \in DOMAIN p.days :
       /\ p.days[i].gt # None => p.days[i].gt >= 0
       /\ \A k \in {"growth", "stable", "decline"} : IsNonNegative(p.days[i][k])
       /\ \A j \in 1..(i - 1) :
            (p.days[i].gt # None /\ p.days[j].gt # None) => p.days[i].gt < p.days[j].gt
  /\ \E i \in DOMAIN p.days : p.days[i].gt = None

ValidShipping(p) == IsNonNegative(p.urgent) /\ IsNonNegative(p.air) /\ p.urgent <= p.air

(* _validate_sea_tiers: the lower bound is compared with the last upper bound seen. *)
ValidSeaTiers(tiers) ==
  \A i \in DOMAIN tiers :
    LET t == tiers[i]
        uppers == {j \in 1..(i - 1) : tiers[j].lte # None}
    IN /\ t.gt # None => t.gt >= 0
       /\ t.lte # None => t.lte >= 0
       /\ (t.gt # None /\ t.lte # None) => t.gt < t.lte
       /\ (uppers # {} /\ t.gt # None) =>
            t.gt >= tiers[CHOOSE j \in uppers : \A k \in uppers : k <= j].lte
       /\ t.days > 0

ValidSea(p) ==
  /\ IsNonNegative(p.minDaily) /\ IsNonNegative(p.minWeight)
  /\ ValidSeaTiers(p.tiers)
  /\ p.companion => p.companionTiers # <<>>
  /\ ValidSeaTiers(p.companionTiers)
  /\ IF p.companion THEN IsNonNegative(p.minNet) ELSE p.minNet # None => p.minNet >= 0

(* apply_overrides: a blank override keeps the value of the scheme. *)
ApplyOverrides(p, overrides) ==
  [k \in DOMAIN p |-> IF k \in DOMAIN overrides THEN overrides[k] ELSE p[k]]

ValidBase(p) == ValidWeights(p) /\ ValidDays(p) /\ ValidShipping(p) /\ ValidSea(p)

ValidTemplate(p) ==
  /\ ValidBase(p)
  /\ \A i \in DOMAIN p.rules :
       /\ p.rules[i].mskus # {}
       /\ ValidBase(ApplyOverrides(p, p.rules[i].overrides))

(* effective_params_for_msku: the first special rule that names the MSKU. *)
EffectiveParams(p, msku) ==
  LET named == {i \in DOMAIN p.rules : msku \in p.rules[i].mskus}
  IN IF named = {} THEN p
     ELSE ApplyOverrides(p, p.rules[CHOOSE i \in named : \A j \in named : i <= j].overrides)

WeightedDaily(d, p) == 30 * d.s7 * p.w7 + 15 * d.s14 * p.w14 + 7 * d.s30 * p.w30

(* Daily sales above a bound, or at least as high: Scale / Million = 21 / 10000. *)
SalesAbove(daily, bound) == daily > (21 * bound) \div 10000
SalesReach(daily, bound) == daily >= (21 * bound + 9999) \div 10000

CeilDays(daily, days) == (daily * days + Scale - 1) \div Scale

(* replenishment_days_from_template: the first tier below the daily sales. *)
ReplenishmentDays(daily, group, p) ==
  LET hit == {i \in DOMAIN p.days : p.days[i].gt = None \/ SalesAbove(daily, p.days[i].gt)}
  IN p.days[CHOOSE i \in hit : \A j \in hit : i <= j][group]

SeaDailyMeetsMin(daily, p) ==
  IF p.inclusive THEN SalesReach(daily, p.minDaily) ELSE SalesAbove(daily, p.minDaily)

LowerBoundMatches(daily, gt, p) ==
  \/ gt = None
  \/ IF p.inclusive /\ gt = p.minDaily THEN SalesReach(daily, gt) ELSE SalesAbove(daily, gt)

(* _sea_days_from_tiers: the days of the first tier that holds the daily sales, or none. *)
SeaDays(daily, p, tiers) ==
  LET hit == {i \in DOMAIN tiers :
                /\ LowerBoundMatches(daily, tiers[i].gt, p)
                /\ tiers[i].lte = None \/ ~SalesAbove(daily, tiers[i].lte)}
  IN IF ~SeaDailyMeetsMin(daily, p) \/ hit = {} THEN None
     ELSE tiers[CHOOSE i \in hit : \A j \in hit : i <= j].days

(***************************************************************************)
(* The workbook.  The daily sales range of a line is written in one of the *)
(* forms _parse_daily_sales_range reads, or "all", which it does not.      *)
(***************************************************************************)
Span(kind, lo, hi) == [kind |-> kind, lo |-> lo, hi |-> hi]

RangeReadable(r) ==
  /\ r.kind \in {"fallback", "gt", "ge", "le", "oc", "cc"}      \* oc = (lo,hi], cc = [lo,hi]
  /\ r.kind \in {"oc", "cc"} => r.lo < r.hi

LowerOf(r) == IF r.kind \in {"gt", "ge", "oc", "cc"} THEN r.lo ELSE None
UpperOf(r) == IF r.kind \in {"le", "oc", "cc"} THEN r.hi ELSE None
LowerInclusive(r) == r.kind \in {"ge", "cc"}

(* _display_number_text: a whole number as it is, any other with six digits. *)
Places == {1, 10, 100, 1000, 10000, 100000, 1000000}

(* Mutant: five digits. *)
LastPlaceOfFive(b) == CHOOSE s \in Places : /\ s <= b \div 10000 \/ s = 1
                                            /\ \A t \in Places : t <= b \div 10000 => t <= s
LastPlace(b) == CHOOSE s \in Places : /\ s <= b \div 100000 \/ s = 1
                                      /\ \A t \in Places : t <= b \div 100000 => t <= s

RoundedAt(b, s) ==
  LET rest == b % s
  IN IF 2 * rest > s \/ (2 * rest = s /\ b \in TiesUp) THEN b - rest + s ELSE b - rest

Shown(b) == IF b = None \/ b % Million = 0 THEN b ELSE RoundedAt(b, LastPlace(b))

(* Below a ten-thousandth and from a million on it is written with an exponent, which no
   range is read with. *)
ShownPlain(b) ==
  b = None \/ b % Million = 0 \/ (b >= 100 /\ Shown(b) \div Million < Million)

Written(kind, lo, hi) ==
  IF ShownPlain(lo) /\ ShownPlain(hi) THEN Span(kind, Shown(lo), Shown(hi))
                                       ELSE Span("exponent", None, None)

(* _replenishment_range_label and _sea_range_label *)
DaysRangeLabel(days, i) ==
  LET above == {j \in 1..(i - 1) : days[j].gt # None}
      gt == days[i].gt
  IN IF gt = None THEN Span("fallback", None, None)
     ELSE IF above = {} THEN Written("gt", gt, None)
     ELSE Written("oc", gt, days[CHOOSE j \in above : \A k \in above : k <= j].gt)

SeaRangeLabel(t, p) ==
  LET closed == p.inclusive /\ t.gt # None /\ t.gt = p.minDaily
  IN CASE t.gt = None /\ t.lte = None -> Span("all", None, None)
       [] t.gt = None /\ t.lte # None -> Written("le", None, t.lte)
       [] t.gt # None /\ t.lte = None -> Written(IF closed THEN "ge" ELSE "gt", t.gt, None)
       [] OTHER -> Written(IF closed THEN "cc" ELSE "oc", t.gt, t.lte)

(* export_template_xlsx: one sheet per group of parameters. *)
LabelTiers(tiers, p) ==
  [i \in DOMAIN tiers |-> [days |-> tiers[i].days, range |-> SeaRangeLabel(tiers[i], p)]]

(* Mutant: the companion sheet is filled from the sea tiers. *)
ExportSheetMixed(p) ==
  [body |-> [p EXCEPT !.days = [i \in DOMAIN p.days |->
                                  [p.days[i] EXCEPT !.gt = DaysRangeLabel(p.days, i)]],
                      !.tiers = LabelTiers(p.tiers, p),
                      !.companionTiers = LabelTiers(p.tiers, p)],
   complete |-> TRUE]

ExportSheet(p) ==
  [body |-> [p EXCEPT !.days = [i \in DOMAIN p.days |->
                                  [p.days[i] EXCEPT !.gt = DaysRangeLabel(p.days, i)]],
                      !.tiers = LabelTiers(p.tiers, p),
                      !.companionTiers = LabelTiers(p.companionTiers, p)],
   complete |-> TRUE]

(* _ensure_supported_sea_range: only the lowest tier may include its lower bound. *)
SupportedSeaRange(r, body) ==
  LowerInclusive(r) => body.inclusive /\ r.lo = body.minDaily

ReadableTiers(tiers, body) ==
  \A i \in DOMAIN tiers : RangeReadable(tiers[i].range) /\ SupportedSeaRange(tiers[i].range, body)

ReadTiers(tiers) ==
  [i \in DOMAIN tiers |-> [gt |-> LowerOf(tiers[i].range), days |-> tiers[i].days,
                           lte |-> UpperOf(tiers[i].range)]]

(* parse_template_xlsx skips a line of the special rules that says nothing. *)
SaysSomething(rule) == rule.mskus # {} \/ rule.named

ReadRules(rules) ==
  LET read[i \in 0..Len(rules)] ==
        IF i = 0 THEN <<>>
        ELSE IF SaysSomething(rules[i]) THEN Append(read[i - 1], rules[i]) ELSE read[i - 1]
  IN read[Len(rules)]

(* parse_template_xlsx: what the sheets say; a range of the air tiers keeps only its lower
   bound, a tier without one is the fallback, and a blank number of pieces is none. *)
SheetParams(sheet) ==
  LET body == sheet.body
  IN [body EXCEPT !.days = [i \in DOMAIN body.days |->
                              [body.days[i] EXCEPT !.gt = LowerOf(body.days[i].gt)]],
                  !.tiers = ReadTiers(body.tiers),
                  !.companionTiers = ReadTiers(body.companionTiers),
                  !.minNet = IF body.minNet = None THEN 0 ELSE body.minNet,
                  !.rules = ReadRules(body.rules)]

(* Mutant: the parsed scheme is not validated. *)
SheetAcceptedUnchecked(sheet) ==
  /\ sheet.complete
  /\ \A i \in DOMAIN sheet.body.days : RangeReadable(sheet.body.days[i].gt)

(* _ensure_new_template_xlsx and the parse errors; complete: every sheet has its headers. *)
SheetAccepted(sheet) ==
  /\ sheet.complete
  /\ \A i \in DOMAIN sheet.body.days : RangeReadable(sheet.body.days[i].gt)
  /\ ReadableTiers(sheet.body.tiers, sheet.body)
  /\ ReadableTiers(sheet.body.companionTiers, sheet.body)
  /\ ValidTemplate(SheetParams(sheet))
=============================================================================
