------------------------- MODULE AmazonShipmentProofs -------------------------
(***************************************************************************)
(* Theorems about the stages of a shipment.                                *)
(***************************************************************************)
EXTENDS AmazonShipment, SequenceTheorems, FiniteSetTheorems, TLAPS

(***************************************************************************)
(* The inductive invariant.                                                *)
(***************************************************************************)
Labelled == {Shipments[i] : i \in DOMAIN Shipments}

IsPage(p) ==
  p = [at |-> p.at, region |-> p.region, chosen |-> p.chosen, agl |-> p.agl, skus |-> p.skus,
       packing |-> p.packing, layout |-> p.layout, mode |-> p.mode, carrier |-> p.carrier,
       ship |-> p.ship, deliver |-> p.deliver, tab |-> p.tab, typed |-> p.typed, shipped |-> p.shipped]

IsRun(r) ==
  r = [stage |-> r.stage, state |-> r.state, todo |-> r.todo, begun |-> r.begun, met |-> r.met,
       clicked |-> r.clicked, tab |-> r.tab, shown |-> r.shown, turned |-> r.turned,
       filled |-> r.filled, codes |-> r.codes]

Types ==
  /\ asked \in Tasks
  /\ IsPage(page) /\ IsRun(run)
  /\ page.layout \in Layouts
  /\ run.stage \in 0..4
  /\ run.state \in {"idle", "running", "finished", "returned", "failed", "refused", "rejected"}
  /\ run.met \in BOOLEAN
  /\ run.clicked \in Nat /\ run.turned \in Nat

(***************************************************************************)
(* What the place of the page says of it.                                  *)
(***************************************************************************)
Home == {"home", "switcher", "login"}
Unlisted == {"start", "method", "template"}
Accepted == {"accepted", "tracking"}
OnStep3 == {"carrier", "dialog", "form"}
Packed == {"packed"} \cup OnStep3 \cup Accepted
Confirmed == {"confirmed", "units", "several", "inputs", "options", "count", "counted", "sheet", "rejected"} \cup Packed

Sheet == FillMultiBoxStep2Template(asked.rows, Step2Template(Skus(asked.rows), ExtractBoxCount(asked.rows)))

PageIsRight ==
  /\ page.at \in Home \cup Unlisted \cup {"listed"} \cup Confirmed
  /\ page.at \notin Home => LabelMatchesSite(page.region, asked.site)
  /\ page.at \notin Home \cup Unlisted => page.skus = LoadConsignmentSummary(asked.rows)
  /\ page.at \in Confirmed => ~page.agl
  /\ page.at \in Packed => page.packing = Sheet
  /\ page.at \in Accepted /\ page.layout \in {"3_2", "ca"} =>
       page.mode = Mode /\ page.carrier = "OTHER" /\ page.ship = asked.today /\ page.deliver = Target

(* Every code is the one of its box, and a shipped shipment has them all. *)
CodesAreRight ==
  /\ page.tab \in Labelled \cup {"none"}
  /\ DOMAIN page.typed = Labelled
  /\ \A s \in Labelled :
       /\ DOMAIN page.typed[s] = 1..Boxes[s]
       /\ \A row \in 1..Boxes[s] :
            /\ page.typed[s][row] \in {<<>>, Code(s, row)}
            /\ s \in page.shipped => page.typed[s][row] = Code(s, row)

(***************************************************************************)
(* What is left of a stage, and what is then done.                         *)
(***************************************************************************)
Left(plan, n) == [i \in 1..(Len(plan) - n + 1) |-> plan[n + i - 1]]

SwitchingPlan == <<"region_confirm", "login", "home_region", "open", "upload_mode", "template", "upload_file",
                   "pack_single_units", "confirmed">>

FullPlan(layout) ==
  CASE layout = "legacy" -> <<"own_carrier", "dialog", "confirm", "deliver", "update", "carrier", "mode",
                              "accept_fees", "accepted", "summary", "input_tracking", "tracking">>
    [] layout = "3_1" -> <<"own_carrier", "deliver", "update", "carrier",
                           "accept_fees", "accepted", "summary", "input_tracking", "tracking">>
    [] layout = "3_2" -> <<"own_carrier", "confirm_if_asked", "mode_and_carrier", "ship", "deliver",
                           "accept_fees", "accepted", "summary", "input_tracking", "tracking">>
    [] layout = "ca" -> <<"own_carrier", "mode_and_carrier", "ship", "deliver",
                          "accept_fees", "accepted", "summary", "input_tracking", "tracking">>

Stage1Follows ==
  \/ run.todo = Stage1
  \/ \E n \in 1..10 :
       /\ run.todo = Left(SwitchingPlan, n)
       /\ n > 3 => LabelMatchesSite(page.region, asked.site)
       /\ n > 5 => ~page.agl

Stage2Follows ==
  \E n \in 1..13 :
    /\ run.todo = Left(Stage2, n)
    /\ n > 9 => run.filled = FillMultiBoxStep2Template(asked.rows,
                   Step2Template(DOMAIN page.skus, ExtractBoxCount(asked.rows)))

Stage3Follows ==
  /\ \E n \in 1..(Len(FullPlan(page.layout)) + 1) : run.todo = Left(FullPlan(page.layout), n)
  /\ page.layout \in {"3_2", "ca"} =>
       /\ Len(run.todo) < 8 => page.mode = Mode /\ page.carrier = "OTHER"
       /\ Len(run.todo) < 7 => page.ship = asked.today
       /\ Len(run.todo) < 6 => page.deliver = Target

Stage4Follows ==
  /\ page.at = "tracking"
  /\ run.todo \in {<<>>, <<"tabs">>, <<"tab">>, <<"details">>, <<"fill">>, <<"save">>, <<"shipped">>}
  /\ run.todo \in {<<"tab">>, <<"details">>, <<"fill">>, <<"save">>, <<"shipped">>} =>
       /\ run.tab \in DOMAIN Shipments
       /\ \A i \in 1..(run.tab - 1) : Shipments[i] \in page.shipped
  /\ run.todo \in {<<"fill">>, <<"save">>} => page.tab \in Labelled
  /\ run.todo \in {<<"tab">>, <<"details">>} => run.clicked = 0
  /\ run.todo = <<"fill">> =>
       /\ run.codes = [row \in 1..Boxes[page.tab] |-> Code(page.tab, row)]
       /\ run.clicked < Boxes[page.tab]
  /\ run.todo = <<>> => Labelled \subseteq page.shipped

StageFollows ==
  run.state = "running" =>
    /\ run.stage \in 1..4
    /\ run.stage = 1 => Stage1Follows
    /\ run.stage = 2 => Stage2Follows
    /\ run.stage = 3 => Stage3Follows
    /\ run.stage = 4 => Stage4Follows

FinishedIsShipped == run.state = "finished" /\ run.stage = 4 => Labelled \subseteq page.shipped

(***************************************************************************)
(* Where the page of an undisturbed stage is.                              *)
(***************************************************************************)
PlaceFor(what, at) ==
  CASE what = "region_confirm" -> {"switcher"}
    [] what = "login" -> {"login", "home"}
    [] what = "home_region" -> {"home"}
    [] what = "upload_mode" -> Unlisted \cup {"listed"}
    [] what \in {"template", "upload_file"} -> {"template", "listed"}
    [] what = "pack_single_units" -> {"listed"}
    [] what = "confirmed" -> {"confirmed"}
    [] what = "packing_card" -> {"confirmed", "units"}
    [] what = "several_boxes" -> {"units"}
    [] what = "confirm_boxes" -> {"several"}
    [] what = "input_method" -> {"inputs"}
    [] what = "excel_option" -> {"options"}
    [] what = "box_count" -> {"count"}
    [] what = "generate" -> {"counted"}
    [] what \in {"sheet", "fill_sheet", "validate"} -> {"sheet"}
    [] what = "confirm_and_continue" -> {"packed"}
    [] what \in {"carrier_page", "own_carrier"} -> {"carrier"}
    [] what \in {"dialog", "confirm"} -> {"dialog"}
    [] what = "confirm_if_asked" -> {"dialog", "form"}
    [] what \in {"mode_and_carrier", "ship", "deliver", "update", "carrier", "mode", "accept_fees"} -> {"form"}
    [] what \in {"accepted", "summary", "input_tracking"} -> {"accepted"}
    [] what \in {"tracking", "tabs", "tab", "details", "fill", "save", "shipped"} -> {"tracking"}
    [] OTHER -> {at}

PlaceAfter(stage) ==
  CASE stage = 1 -> {"confirmed"} [] stage = 2 -> {"carrier"} [] OTHER -> {"tracking"}

(* The page a step is taken on; what a switch of the region has come to. *)
WellPlaced(what) ==
  /\ page.at \in PlaceFor(what, page.at)
  /\ what = "region_confirm" => LabelMatchesSite(page.chosen, asked.site)
  /\ what \in {"login", "home_region"} => LabelMatchesSite(page.region, asked.site)

Undisturbed ==
  ~run.met =>
    /\ run.state \in {"idle", "running", "finished", "returned"}
    /\ run.state = "running" =>
         IF run.todo = <<>> THEN page.at \in PlaceAfter(run.stage)
         ELSE BackAtStep2 \/ WellPlaced(Head(run.todo))
    /\ run.state = "finished" => page.at \in PlaceAfter(run.stage)
    /\ run.state = "returned" => page.at = "units"

MonthIndex(ym) == 12 * ym[1] + ym[2]
MonthsApart(ym, date) ==
  LET d == MonthIndex(ym) - MonthIndex(date) IN IF d < 0 THEN 0 - d ELSE d

CalendarIsNear ==
  /\ run.shown = <<>> => run.turned = 0
  /\ run.state = "running" /\ run.shown # <<>> =>
       /\ run.stage = 3 /\ run.todo # <<>> /\ Head(run.todo) \in {"ship", "deliver"}
       /\ run.shown \in Int \X (1..12)
       /\ MonthsApart(run.shown, DateFor(Head(run.todo))) + run.turned <= 3

ShipmentInv ==
  /\ Types /\ PageIsRight /\ CodesAreRight
  /\ StageFollows /\ FinishedIsShipped
  /\ Undisturbed /\ CalendarIsNear

(* Induction on a finite set: what holds of a set whenever it holds of its   *)
(* proper subsets.  G is the set of the sets it holds of.                    *)
LEMMA SubsetInduction ==
  ASSUME NEW S, IsFiniteSet(S), NEW G,
         \A T \in SUBSET S : (\A U \in SUBSET T : U # T => U \in G) => T \in G
  PROVE  S \in G
<1> DEFINE Bad == {T \in SUBSET S : T \notin G}
<1>1. SUFFICES ASSUME S \notin G PROVE FALSE
  OBVIOUS
<1>2. FiniteSubsetsOf(S) = SUBSET S
  BY FS_FiniteSubsetsOfFinite
<1>3. IsWellFoundedOn(StrictSubsetOrdering(S), SUBSET S)
  BY <1>2, FS_StrictSubsetOrderingWellFounded
<1>4. Bad \subseteq SUBSET S /\ Bad # {}
  BY <1>1
<1> HIDE DEF Bad
<1>5. PICK T \in Bad : \A U \in Bad : ~(<<U, T>> \in StrictSubsetOrdering(S))
  BY <1>3, <1>4, WFMin
<1> USE DEF Bad
<1>6. ASSUME NEW U \in SUBSET T, U # T PROVE U \in G
  <2>1. <<U, T>> \in StrictSubsetOrdering(S)
    BY <1>6, T \in SUBSET S, U \in SUBSET S DEF StrictSubsetOrdering
  <2> QED BY <2>1, <1>5
<1> QED BY <1>6

----------------------------------------------------------------------------
(* The sums over the subsets of S, in the order in which a fold takes them.   *)
First(s) == CHOOSE x \in s : TRUE

IsSums(F, S, g) ==
  g = [s \in SUBSET S |-> IF s = {} THEN 0 ELSE F[First(s)] + g[s \ {First(s)}]]

Total(F, S) == (CHOOSE g : IsSums(F, S, g))[S]

LEMMA FirstIsIn == ASSUME NEW s, s # {} PROVE First(s) \in s
  BY DEF First

LEMMA SumsUnique ==
  ASSUME NEW F, NEW S, NEW T, NEW g, NEW h, IsSums(F, S, g), IsSums(F, T, h),
         NEW s, s \subseteq S, s \subseteq T, IsFiniteSet(s)
  PROVE  g[s] = h[s]
<1> DEFINE G == {u \in SUBSET s : g[u] = h[u]}
<1>1. ASSUME NEW u \in SUBSET s, \A v \in SUBSET u : v # u => v \in G
      PROVE  u \in G
  <2>1. /\ g[u] = IF u = {} THEN 0 ELSE F[First(u)] + g[u \ {First(u)}]
        /\ h[u] = IF u = {} THEN 0 ELSE F[First(u)] + h[u \ {First(u)}]
    BY DEF IsSums
  <2>2. CASE u = {}
    BY <2>1, <2>2
  <2>3. CASE u # {}
    <3>1. u \ {First(u)} \in G
      BY <1>1, <2>3, FirstIsIn
    <3> QED BY <3>1, <2>1, <2>3
  <2> QED BY <2>2, <2>3
<1> HIDE DEF G
<1>2. s \in G
  BY <1>1, SubsetInduction
<1> QED BY <1>2 DEF G

LEMMA SumsExist ==
  ASSUME NEW F, NEW S, IsFiniteSet(S)
  PROVE  \E g : IsSums(F, S, g)
<1> DEFINE G == {T \in SUBSET S : \E g : IsSums(F, T, g)}
<1>1. ASSUME NEW T \in SUBSET S, \A U \in SUBSET T : U # T => U \in G
      PROVE  T \in G
  <2> DEFINE g[s \in SUBSET T] ==
               IF s = {} THEN 0 ELSE F[First(s)] + Total(F, s \ {First(s)})
  <2>1. ASSUME NEW s \in SUBSET T, s # T
        PROVE  g[s] = Total(F, s)
    <3> DEFINE h == CHOOSE f : IsSums(F, s, f)
    <3>1. IsSums(F, s, h)
      BY <1>1, <2>1
    <3> HIDE DEF h
    <3>2. h[s] = IF s = {} THEN 0 ELSE F[First(s)] + h[s \ {First(s)}]
      BY <3>1 DEF IsSums
    <3>3. Total(F, s) = h[s]
      BY DEF Total, h
    <3>4. CASE s = {}
      BY <3>2, <3>3, <3>4
    <3>5. CASE s # {}
      <4> DEFINE r == s \ {First(s)}
                 k == CHOOSE f : IsSums(F, r, f)
      <4>1. r \subseteq s /\ r # s /\ r \in SUBSET T /\ r # T
        BY <3>5, FirstIsIn
      <4>2. IsSums(F, r, k)
        BY <4>1, <1>1
      <4>3. IsFiniteSet(r)
        BY <4>1, FS_Subset
      <4> HIDE DEF r, k
      <4>4. k[r] = h[r]
        BY <4>1, <4>2, <4>3, <3>1, SumsUnique
      <4>5. Total(F, r) = h[r]
        BY <4>4 DEF Total, k
      <4> QED BY <4>5, <3>2, <3>3, <3>5 DEF r
    <3> QED BY <3>4, <3>5
  <2>2. ASSUME NEW s \in SUBSET T
        PROVE  g[s] = IF s = {} THEN 0 ELSE F[First(s)] + g[s \ {First(s)}]
    <3>1. CASE s = {}
      BY <3>1
    <3>2. CASE s # {}
      <4>1. s \ {First(s)} \in SUBSET T /\ s \ {First(s)} # T
        BY <3>2, FirstIsIn
      <4>2. g[s \ {First(s)}] = Total(F, s \ {First(s)})
        BY <4>1, <2>1
      <4> QED BY <4>2, <3>2
    <3> QED BY <3>1, <3>2
  <2>3. IsSums(F, T, g)
    <3> HIDE DEF Total
    <3>1. g = [s \in SUBSET T |-> IF s = {} THEN 0 ELSE F[First(s)] + Total(F, s \ {First(s)})]
      OBVIOUS
    <3> HIDE DEF g
    <3> QED BY <3>1, <2>2 DEF IsSums
  <2> QED BY <2>3
<1> HIDE DEF G
<1>2. S \in G
  BY <1>1, SubsetInduction
<1> QED BY <1>2 DEF G

LEMMA TotalOf ==
  ASSUME NEW F, NEW S, IsFiniteSet(S), NEW g, IsSums(F, S, g)
  PROVE  \A s \in SUBSET S : Total(F, s) = g[s]
<1> TAKE s \in SUBSET S
<1>1. IsFiniteSet(s)
  BY FS_Subset
<1>2. PICK h : IsSums(F, s, h)
  BY <1>1, SumsExist
<1> DEFINE k == CHOOSE f : IsSums(F, s, f)
<1>3. IsSums(F, s, k)
  BY <1>2
<1> HIDE DEF k
<1>4. k[s] = g[s]
  BY <1>1, <1>3, SumsUnique
<1> QED BY <1>4 DEF Total, k

LEMMA TotalStep ==
  ASSUME NEW F, NEW S, IsFiniteSet(S)
  PROVE  /\ S = {} => Total(F, S) = 0
         /\ S # {} => Total(F, S) = F[First(S)] + Total(F, S \ {First(S)})
<1>1. PICK g : IsSums(F, S, g)
  BY SumsExist
<1>2. Total(F, S) = g[S] /\ Total(F, S \ {First(S)}) = g[S \ {First(S)}]
  BY <1>1, TotalOf
<1>3. g[S] = IF S = {} THEN 0 ELSE F[First(S)] + g[S \ {First(S)}]
  BY <1>1 DEF IsSums
<1> QED BY <1>2, <1>3

(* A total is a number, and depends on nothing but the values added. *)
LEMMA TotalType ==
  ASSUME NEW F, NEW S, IsFiniteSet(S), \A x \in S : F[x] \in Nat
  PROVE  Total(F, S) \in Nat
<1> DEFINE G == {T \in SUBSET S : Total(F, T) \in Nat}
<1>1. ASSUME NEW T \in SUBSET S, \A U \in SUBSET T : U # T => U \in G
      PROVE  T \in G
  <2>1. IsFiniteSet(T)
    BY FS_Subset
  <2>2. CASE T = {}
    <3>1. Total(F, T) = 0
      BY <2>1, <2>2, TotalStep
    <3> QED BY <3>1
  <2>3. CASE T # {}
    <3>1. T \ {First(T)} \in G /\ F[First(T)] \in Nat
      BY <1>1, <2>3, FirstIsIn
    <3>2. Total(F, T) = F[First(T)] + Total(F, T \ {First(T)})
      BY <2>1, <2>3, TotalStep
    <3> QED BY <3>1, <3>2
  <2> QED BY <2>2, <2>3
<1> HIDE DEF G
<1>2. S \in G
  BY <1>1, SubsetInduction
<1> QED BY <1>2 DEF G

LEMMA TotalSame ==
  ASSUME NEW F, NEW H, NEW S, IsFiniteSet(S), \A x \in S : F[x] = H[x]
  PROVE  Total(F, S) = Total(H, S)
<1> DEFINE G == {T \in SUBSET S : Total(F, T) = Total(H, T)}
<1>1. ASSUME NEW T \in SUBSET S, \A U \in SUBSET T : U # T => U \in G
      PROVE  T \in G
  <2>1. IsFiniteSet(T)
    BY FS_Subset
  <2>2. CASE T = {}
    BY <2>1, <2>2, TotalStep
  <2>3. CASE T # {}
    <3>1. T \ {First(T)} \in G /\ F[First(T)] = H[First(T)]
      BY <1>1, <2>3, FirstIsIn
    <3>2. /\ Total(F, T) = F[First(T)] + Total(F, T \ {First(T)})
          /\ Total(H, T) = H[First(T)] + Total(H, T \ {First(T)})
      BY <2>1, <2>3, TotalStep
    <3> QED BY <3>1, <3>2
  <2> QED BY <2>2, <2>3
<1> HIDE DEF G
<1>2. S \in G
  BY <1>1, SubsetInduction
<1> QED BY <1>2 DEF G

(* Any element may be added last. *)
LEMMA TotalRemove ==
  ASSUME NEW F, NEW S, IsFiniteSet(S), \A x \in S : F[x] \in Nat
  PROVE  \A x \in S : Total(F, S) = F[x] + Total(F, S \ {x})
<1> DEFINE G == {T \in SUBSET S : \A x \in T : Total(F, T) = F[x] + Total(F, T \ {x})}
<1>1. ASSUME NEW T \in SUBSET S, \A U \in SUBSET T : U # T => U \in G, NEW x \in T
      PROVE  Total(F, T) = F[x] + Total(F, T \ {x})
  <2> DEFINE c == First(T)
  <2>1. IsFiniteSet(T) /\ IsFiniteSet(T \ {c}) /\ IsFiniteSet(T \ {x}) /\ IsFiniteSet((T \ {c}) \ {x})
    <3>1. IsFiniteSet(T)
      BY FS_Subset
    <3> QED BY <3>1, FS_RemoveElement
  <2>2. c \in T
    BY FirstIsIn
  <2>3. Total(F, T) = F[c] + Total(F, T \ {c})
    BY <2>1, TotalStep
  <2>4. CASE x = c
    BY <2>3, <2>4
  <2>5. CASE x # c
    <3>1. T \ {c} \in G /\ T \ {x} \in G /\ x \in T \ {c} /\ c \in T \ {x}
      BY <1>1, <2>2, <2>5
    <3>2. Total(F, T \ {c}) = F[x] + Total(F, (T \ {c}) \ {x})
      BY <3>1
    <3>3. Total(F, T \ {x}) = F[c] + Total(F, (T \ {x}) \ {c})
      BY <3>1
    <3>4. (T \ {c}) \ {x} = (T \ {x}) \ {c}
      OBVIOUS
    <3>5. Total(F, (T \ {c}) \ {x}) \in Nat /\ F[x] \in Nat /\ F[c] \in Nat
      <4>1. \A y \in (T \ {c}) \ {x} : F[y] \in Nat
        OBVIOUS
      <4>2. Total(F, (T \ {c}) \ {x}) \in Nat
        BY <2>1, <4>1, TotalType
      <4> QED BY <4>2, <2>2
    <3> HIDE DEF c
    <3>6. \A a, b, t \in Nat : a + (b + t) = b + (a + t)
      OBVIOUS
    <3> QED BY <2>3, <3>2, <3>3, <3>4, <3>5, <3>6
  <2> QED BY <2>4, <2>5
<1>2. \A T \in SUBSET S : (\A U \in SUBSET T : U # T => U \in G) => T \in G
  BY <1>1
<1> HIDE DEF G
<1>3. S \in G
  BY <1>2, SubsetInduction
<1> QED BY <1>3 DEF G

LEMMA TotalUnion ==
  ASSUME NEW F, NEW A, NEW B, IsFiniteSet(A), IsFiniteSet(B), A \cap B = {},
         \A x \in A \cup B : F[x] \in Nat
  PROVE  Total(F, A \cup B) = Total(F, A) + Total(F, B)
<1> DEFINE G == {T \in SUBSET A : Total(F, T \cup B) = Total(F, T) + Total(F, B)}
<1>1. ASSUME NEW T \in SUBSET A, \A U \in SUBSET T : U # T => U \in G
      PROVE  T \in G
  <2>1. IsFiniteSet(T) /\ IsFiniteSet(T \cup B)
    BY FS_Subset, FS_Union
  <2>2. Total(F, B) \in Nat
    BY TotalType
  <2>3. CASE T = {}
    <3>1. T \cup B = B /\ Total(F, T) = 0
      BY <2>1, <2>3, TotalStep
    <3> QED BY <3>1, <2>2
  <2>4. CASE T # {}
    <3>1. PICK x : x \in T
      BY <2>4
    <3>2. T \ {x} \in G /\ F[x] \in Nat /\ (T \cup B) \ {x} = (T \ {x}) \cup B
      BY <1>1, <3>1
    <3>3. \A y \in T : F[y] \in Nat
      OBVIOUS
    <3>4. Total(F, T) = F[x] + Total(F, T \ {x})
      BY <2>1, <3>1, <3>3, TotalRemove
    <3>5. \A y \in T \cup B : F[y] \in Nat
      OBVIOUS
    <3>6. Total(F, T \cup B) = F[x] + Total(F, (T \ {x}) \cup B)
      BY <2>1, <3>1, <3>2, <3>5, TotalRemove
    <3>7. Total(F, T \ {x}) \in Nat
      <4>1. IsFiniteSet(T \ {x})
        BY <2>1, FS_RemoveElement
      <4> QED BY <4>1, <3>3, TotalType
    <3>8. Total(F, (T \ {x}) \cup B) = Total(F, T \ {x}) + Total(F, B)
      BY <3>2
    <3> HIDE DEF G
    <3>9. \A a, t, b \in Nat : a + (t + b) = (a + t) + b
      OBVIOUS
    <3>10. Total(F, T \cup B) = Total(F, T) + Total(F, B)
      BY <3>2, <3>4, <3>6, <3>7, <3>8, <3>9, <2>2
    <3> QED BY <3>10 DEF G
  <2> QED BY <2>3, <2>4
<1> HIDE DEF G
<1>2. A \in G
  BY <1>1, SubsetInduction
<1> QED BY <1>2 DEF G

(* A total may be taken class by class. *)
LEMMA TotalByClass ==
  ASSUME NEW F, NEW I, IsFiniteSet(I), \A i \in I : F[i] \in Nat,
         NEW K, IsFiniteSet(K), NEW class, \A i \in I : class[i] \in K,
         NEW H, NEW P, \A k \in K : H[k] = Total(F, P[k]),
         \A k \in K : P[k] \subseteq I /\ \A i \in I : i \in P[k] <=> class[i] = k
  PROVE  Total(H, K) = Total(F, I)
<1> DEFINE Of(L) == {i \in I : class[i] \in L}
           G == {L \in SUBSET K : Total(H, L) = Total(F, Of(L))}
<1>1. \A L : IsFiniteSet(Of(L)) /\ Of(L) \subseteq I
  BY FS_Subset
<1>2. \A k \in K : H[k] \in Nat
  <2> TAKE k \in K
  <2> DEFINE J == P[k]
  <2>1. IsFiniteSet(J) /\ \A i \in J : F[i] \in Nat
    BY FS_Subset
  <2> HIDE DEF J
  <2>2. Total(F, J) \in Nat
    BY <2>1, TotalType
  <2> QED BY <2>2 DEF J
<1>3. ASSUME NEW L \in SUBSET K, \A U \in SUBSET L : U # L => U \in G
      PROVE  L \in G
  <2>1. IsFiniteSet(L)
    BY FS_Subset
  <2>2. CASE L = {}
    <3>1. Of(L) = {} /\ Total(H, L) = 0
      BY <2>1, <2>2, TotalStep
    <3>2. Total(F, {}) = 0
      BY FS_EmptySet, TotalStep
    <3> HIDE DEF Of
    <3>3. Total(H, L) = Total(F, Of(L))
      BY <3>1, <3>2
    <3> QED BY <3>3
  <2>3. CASE L # {}
    <3>1. PICK k : k \in L
      BY <2>3
    <3>2. Total(H, L) = H[k] + Total(H, L \ {k})
      <4>1. \A l \in L : H[l] \in Nat
        BY <1>2
      <4> QED BY <2>1, <3>1, <4>1, TotalRemove
    <3>3. Total(H, L \ {k}) = Total(F, Of(L \ {k}))
      <4>1. L \ {k} \in G
        BY <1>3, <3>1
      <4> QED BY <4>1
    <3> DEFINE J == P[k]
    <3>4. Of(L) = J \cup Of(L \ {k}) /\ J \cap Of(L \ {k}) = {}
      BY <3>1
    <3>5. IsFiniteSet(J) /\ J \subseteq I
      <4>1. J \subseteq I
        BY <3>1
      <4> HIDE DEF J
      <4> QED BY <4>1, FS_Subset
    <3>6. H[k] = Total(F, J)
      BY <3>1
    <3> DEFINE R == Of(L \ {k})
    <3>7. IsFiniteSet(R) /\ R \subseteq I
      BY <1>1
    <3>8. \A x \in J \cup R : F[x] \in Nat
      BY <3>5, <3>7
    <3>9. J \cap R = {}
      BY <3>4
    <3> HIDE DEF J, R
    <3>10. Total(F, J \cup R) = Total(F, J) + Total(F, R)
      BY <3>5, <3>7, <3>8, <3>9, TotalUnion
    <3> HIDE DEF G
    <3>11. Total(H, L) = Total(F, Of(L))
      BY <3>2, <3>3, <3>4, <3>6, <3>10 DEF R
    <3> QED BY <3>11 DEF G
  <2> QED BY <2>2, <2>3
<1> HIDE DEF G
<1>4. K \in G
  BY <1>3, SubsetInduction
<1>5. Of(K) = I
  OBVIOUS
<1> HIDE DEF Of
<1> QED BY <1>4, <1>5 DEF G

----------------------------------------------------------------------------
(* What the sheets add up are totals. *)
LEMMA QuantityIsTotal ==
  ASSUME NEW rows, NEW I, IsFiniteSet(I)
  PROVE  SumQuantity(rows, I) = Total([i \in I |-> rows[i].qty], I)
<1> DEFINE F == [i \in I |-> rows[i].qty]
           Body(g) == [s \in SUBSET I |-> IF s = {} THEN 0
                         ELSE rows[First(s)].qty + g[s \ {First(s)}]]
           iter == CHOOSE g : g = Body(g)
<1>1. \A g : IsSums(F, I, g) <=> g = Body(g)
  <2> TAKE g
  <2>1. \A s \in SUBSET I : s # {} => F[First(s)] = rows[First(s)].qty
    BY FirstIsIn
  <2>2. [s \in SUBSET I |-> IF s = {} THEN 0 ELSE F[First(s)] + g[s \ {First(s)}]] = Body(g)
    BY <2>1
  <2> QED BY <2>2 DEF IsSums
<1>2. IsSums(F, I, iter)
  BY <1>1, SumsExist
<1>3. SumQuantity(rows, I) = iter[I]
  BY DEF SumQuantity, MapThenSumSet, MapThenFoldSet, First
<1> HIDE DEF iter, F
<1>4. Total(F, I) = iter[I]
  BY <1>2, TotalOf
<1> QED BY <1>3, <1>4 DEF F

LEMMA PackedIsTotal ==
  ASSUME NEW sheet, NEW sku, IsFiniteSet({c \in DOMAIN sheet.cells : c[1] = sku})
  PROVE  PackedQuantity(sheet, sku) = Total(sheet.cells, {c \in DOMAIN sheet.cells : c[1] = sku})
<1> DEFINE K == {c \in DOMAIN sheet.cells : c[1] = sku}
           iter == CHOOSE g : g = [s \in SUBSET K |-> IF s = {} THEN 0
                         ELSE sheet.cells[First(s)] + g[s \ {First(s)}]]
<1>1. IsSums(sheet.cells, K, iter)
  <2>1. \E g : IsSums(sheet.cells, K, g)
    BY SumsExist
  <2> HIDE DEF K
  <2> QED BY <2>1 DEF IsSums
<1>2. PackedQuantity(sheet, sku) = iter[K]
  BY DEF PackedQuantity, MapThenSumSet, MapThenFoldSet, First
<1> HIDE DEF iter, K
<1>3. Total(sheet.cells, K) = iter[K]
  BY <1>1, TotalOf DEF K
<1> QED BY <1>2, <1>3 DEF K
(* A plan is a sequence of its words. *)
WordsOf(plan) == {plan[i] : i \in 1..Len(plan)}

LEMMA LeftStep ==
  ASSUME NEW plan, plan \in Seq(WordsOf(plan)), NEW n \in 1..Len(plan)
  PROVE  /\ Left(plan, n) \in Seq(WordsOf(plan)) /\ Left(plan, n) # <<>>
         /\ Len(Left(plan, n)) = Len(plan) - n + 1
         /\ Head(Left(plan, n)) = plan[n]
         /\ Tail(Left(plan, n)) = Left(plan, n + 1)
<1>1. Left(plan, n) \in Seq(WordsOf(plan)) /\ Len(Left(plan, n)) = Len(plan) - n + 1
  BY DEF Left
<1>2. Left(plan, n) # <<>>
  BY <1>1
<1>3. Head(Left(plan, n)) = plan[n]
  BY <1>1, <1>2 DEF Left
<1>4. Tail(Left(plan, n)) = Left(plan, n + 1)
  BY <1>1 DEF Left
<1> QED BY <1>1, <1>2, <1>3, <1>4

LEMMA LeftNone ==
  ASSUME NEW plan, plan \in Seq(WordsOf(plan))
  PROVE  Left(plan, Len(plan) + 1) = <<>>
<1>1. Left(plan, Len(plan) + 1) \in Seq(WordsOf(plan)) /\ Len(Left(plan, Len(plan) + 1)) = 0
  BY DEF Left
<1> QED BY <1>1

LEMMA IsJoined ==
  ASSUME NEW W, NEW s \in Seq(W), NEW t \in Seq(W), NEW u \in Seq(W), Len(u) = Len(s) + Len(t),
         \A i \in 1..Len(s) : u[i] = s[i], \A i \in 1..Len(t) : u[Len(s) + i] = t[i]
  PROVE  s \o t = u
<1>1. s \o t \in Seq(W) /\ Len(s \o t) = Len(u)
  OBVIOUS
<1>2. ASSUME NEW i \in 1..Len(u)
      PROVE (s \o t)[i] = u[i]
  <2>1. CASE i <= Len(s)
    BY <2>1
  <2>2. CASE i > Len(s)
    <3>1. i - Len(s) \in 1..Len(t) /\ u[i] = t[i - Len(s)]
      BY <2>2
    <3>2. (s \o t)[i] = t[i - Len(s)]
      BY <2>2
    <3> QED BY <3>1, <3>2
  <2> QED BY <2>1, <2>2
<1> QED BY <1>1, <1>2, SeqEqual

LEMMA Switching ==
  /\ SwitchingPlan \in Seq(WordsOf(SwitchingPlan)) /\ Len(SwitchingPlan) = 9
  /\ <<"region_confirm", "login", "home_region">> \o Tail(Stage1) = Left(SwitchingPlan, 1)
  /\ Head(Stage1) = "region" /\ Stage1 # <<>>
  /\ Tail(Stage1) = Left(SwitchingPlan, 4)
<1> DEFINE W == WordsOf(SwitchingPlan)
<1>1. SwitchingPlan \in Seq(W) /\ Len(SwitchingPlan) = 9
  <2>1. SwitchingPlan = [i \in 1..9 |-> SwitchingPlan[i]] /\ Len(SwitchingPlan) = 9
    BY DEF SwitchingPlan
  <2> QED BY <2>1 DEF WordsOf
<1>2. Tail(Stage1) = <<"open", "upload_mode", "template", "upload_file", "pack_single_units", "confirmed">>
  BY DEF Stage1
<1>3. Head(Stage1) = "region" /\ Stage1 # <<>>
  BY DEF Stage1
<1>4. Left(SwitchingPlan, 4) = <<"open", "upload_mode", "template", "upload_file", "pack_single_units", "confirmed">>
  BY DEF SwitchingPlan, Left
<1>5. Left(SwitchingPlan, 1) = SwitchingPlan
  BY DEF SwitchingPlan, Left
<1>6. <<"region_confirm", "login", "home_region">> \o Tail(Stage1) = SwitchingPlan
  <2> DEFINE s == <<"region_confirm", "login", "home_region">>
             t == <<"open", "upload_mode", "template", "upload_file", "pack_single_units", "confirmed">>
  <2>1. /\ \A i \in 1..3 : s[i] = SwitchingPlan[i]
        /\ \A i \in 1..6 : t[i] = SwitchingPlan[3 + i]
    BY DEF SwitchingPlan
  <2>2. s = [i \in 1..3 |-> s[i]] /\ Len(s) = 3 /\ t = [i \in 1..6 |-> t[i]] /\ Len(t) = 6
    OBVIOUS
  <2> HIDE DEF s, t
  <2>3. s \in Seq(W) /\ t \in Seq(W)
    BY <1>1, <2>1, <2>2 DEF WordsOf
  <2>4. s \o t = SwitchingPlan
    BY <1>1, <2>1, <2>2, <2>3, IsJoined
  <2> QED BY <2>4, <1>2 DEF s, t
<1> QED BY <1>1, <1>2, <1>3, <1>4, <1>5, <1>6
----------------------------------------------------------------------------
(* The plans of stages 2 and 3. *)
LEMMA IsPlan ==
  ASSUME NEW plan, NEW n \in Nat, plan = [i \in 1..n |-> plan[i]], Len(plan) = n
  PROVE  plan \in Seq(WordsOf(plan))
<1>1. \A i \in 1..n : plan[i] \in WordsOf(plan)
  BY DEF WordsOf
<1> QED BY <1>1

LEMMA IsSequence ==
  ASSUME NEW W, NEW n \in Nat, NEW s, s = [i \in 1..n |-> s[i]], \A i \in 1..n : s[i] \in W
  PROVE  s \in Seq(W) /\ Len(s) = n
<1> DEFINE r == [i \in 1..n |-> s[i]]
<1>1. r \in Seq(W) /\ Len(r) = n
  OBVIOUS
<1> QED BY <1>1

LEMMA Stage2Words == Stage2 \in Seq(WordsOf(Stage2)) /\ Len(Stage2) = 12
<1>1. Stage2 = [i \in 1..12 |-> Stage2[i]] /\ Len(Stage2) = 12
  BY DEF Stage2
<1> QED BY <1>1, IsPlan

LEMMA Stage2Whole == Stage2 = Left(Stage2, 1)
  BY DEF Stage2, Left

LayoutNames == {"legacy", "3_1", "3_2", "ca"}

LEMMA Stage3Words ==
  ASSUME NEW layout \in LayoutNames
  PROVE  /\ FullPlan(layout) \in Seq(WordsOf(FullPlan(layout)))
         /\ Len(FullPlan(layout)) = CASE layout = "legacy" -> 12 [] layout = "3_2" -> 10 [] OTHER -> 9
<1>1. CASE layout = "legacy"
  <2>1. FullPlan(layout) = [i \in 1..12 |-> FullPlan(layout)[i]] /\ Len(FullPlan(layout)) = 12
    BY <1>1 DEF FullPlan
  <2>2. FullPlan(layout) \in Seq(WordsOf(FullPlan(layout)))
    BY ONLY <2>1, IsPlan
  <2> QED BY <1>1, <2>1, <2>2
<1>2. CASE layout = "3_1"
  <2>1. FullPlan(layout) = [i \in 1..9 |-> FullPlan(layout)[i]] /\ Len(FullPlan(layout)) = 9
    BY <1>2 DEF FullPlan
  <2>2. FullPlan(layout) \in Seq(WordsOf(FullPlan(layout)))
    BY ONLY <2>1, IsPlan
  <2> QED BY <1>2, <2>1, <2>2
<1>3. CASE layout = "3_2"
  <2>1. FullPlan(layout) = [i \in 1..10 |-> FullPlan(layout)[i]] /\ Len(FullPlan(layout)) = 10
    BY <1>3 DEF FullPlan
  <2>2. FullPlan(layout) \in Seq(WordsOf(FullPlan(layout)))
    BY ONLY <2>1, IsPlan
  <2> QED BY <1>3, <2>1, <2>2
<1>4. CASE layout = "ca"
  <2>1. FullPlan(layout) = [i \in 1..9 |-> FullPlan(layout)[i]] /\ Len(FullPlan(layout)) = 9
    BY <1>4 DEF FullPlan
  <2>2. FullPlan(layout) \in Seq(WordsOf(FullPlan(layout)))
    BY ONLY <2>1, IsPlan
  <2> QED BY <1>4, <2>1, <2>2
<1> QED BY <1>1, <1>2, <1>3, <1>4 DEF LayoutNames

LEMMA IsJoinedTwice ==
  ASSUME NEW W, NEW s \in Seq(W), NEW t \in Seq(W), NEW v \in Seq(W), NEW u \in Seq(W),
         Len(u) = Len(s) + Len(t) + Len(v),
         \A i \in 1..Len(s) : u[i] = s[i], \A i \in 1..Len(t) : u[Len(s) + i] = t[i],
         \A i \in 1..Len(v) : u[Len(s) + Len(t) + i] = v[i]
  PROVE  s \o t \o v = u
<1>0. Len(s) \in Nat /\ Len(t) \in Nat /\ Len(v) \in Nat
  OBVIOUS
<1>1. s \o t \in Seq(W) /\ Len(s \o t) = Len(s) + Len(t)
  OBVIOUS
<1>2. ASSUME NEW i \in 1..Len(s \o t)
      PROVE  u[i] = (s \o t)[i]
  <2>1. CASE i <= Len(s)
    <3>1. i \in 1..Len(s) /\ (s \o t)[i] = s[i]
      BY <2>1, <1>0, <1>1
    <3> QED BY <3>1
  <2>2. CASE i > Len(s)
    <3>1. i - Len(s) \in 1..Len(t) /\ Len(s) + (i - Len(s)) = i
      BY <1>0, <1>1, <2>2
    <3>2. u[Len(s) + (i - Len(s))] = t[i - Len(s)]
      BY <3>1
    <3>3. (s \o t)[i] = t[i - Len(s)]
      BY <1>0, <1>1, <2>2
    <3> QED BY <3>1, <3>2, <3>3
  <2> QED BY <2>1, <2>2, <1>0, <1>1
<1>3. \A i \in 1..Len(v) : u[Len(s \o t) + i] = v[i]
  BY <1>1
<1> DEFINE st == s \o t
<1>4. Len(u) = Len(st) + Len(v) /\ st \in Seq(W) /\ st \o v = s \o t \o v
  BY <1>0, <1>1
<1>5. /\ \A i \in 1..Len(st) : u[i] = st[i]
      /\ \A i \in 1..Len(v) : u[Len(st) + i] = v[i]
  BY <1>2, <1>3
<1> HIDE DEF st
<1>6. st \o v = u
  BY <1>4, <1>5, IsJoined
<1> QED BY <1>4, <1>6

(* A stage 3 that begins on a form that has been entered leaves out the entry. *)
LEMMA Stage3Whole ==
  ASSUME NEW p, p.layout \in LayoutNames, ProbeOwnCarrierReady(p)
  PROVE  \E n \in 1..4 :
           /\ OwnCarrierPlan(p) = Left(FullPlan(p.layout), n)
           /\ n = 1 \/ p.at = "form"
           /\ p.layout \in {"3_2", "ca"} => n <= 2
<1> DEFINE full == FullPlan(p.layout)
           W == WordsOf(full)
           e == EntrySteps(p)
           f == FormSteps(DetectOwnCarrierLayout(p))
           a == AcceptSteps
<1>1. OwnCarrierPlan(p) = e \o f \o a
  BY DEF OwnCarrierPlan
<1>2. full \in Seq(W)
  BY Stage3Words
<1>3. DetectOwnCarrierLayout(p) = p.layout
  BY DEF ProbeOwnCarrierReady, DetectOwnCarrierLayout
<1>4. ASSUME NEW n \in 1..4, NEW k \in 0..3, NEW l \in 3..4,
             e = [i \in 1..k |-> e[i]], f = [i \in 1..l |-> f[i]], a = [i \in 1..5 |-> a[i]],
             Len(full) = k + l + 4 + n,
             \A i \in 1..k : e[i] = full[n + i - 1],
             \A i \in 1..l : f[i] = full[n + k + i - 1],
             \A i \in 1..5 : a[i] = full[n + k + l + i - 1]
      PROVE  OwnCarrierPlan(p) = Left(full, n)
  <2> DEFINE u == Left(full, n)
  <2> HIDE DEF full, e, f, a
  <2>0. /\ n \in 1..Len(full) /\ Len(full) = k + l + 4 + n
        /\ n \in 1..4 /\ k \in 0..3 /\ l \in 3..4
    BY <1>4
  <2>1. u \in Seq(W) /\ Len(u) = k + l + 5
    BY <1>2, <2>0, LeftStep
  <2>2. \A i \in 1..Len(u) : u[i] = full[n + i - 1]
    BY <2>0, <2>1 DEF Left
  <2>3. e \in Seq(W) /\ Len(e) = k /\ f \in Seq(W) /\ Len(f) = l /\ a \in Seq(W) /\ Len(a) = 5
    <3>1. /\ \A i \in 1..k : n + i - 1 \in 1..Len(full)
          /\ \A i \in 1..l : n + k + i - 1 \in 1..Len(full)
          /\ \A i \in 1..5 : n + k + l + i - 1 \in 1..Len(full)
      BY <2>0
    <3>2. /\ \A i \in 1..k : e[i] \in W
          /\ \A i \in 1..l : f[i] \in W
          /\ \A i \in 1..5 : a[i] \in W
      BY <3>1, <1>4 DEF WordsOf
    <3> HIDE DEF W
    <3>3. e \in Seq(W) /\ Len(e) = k
      <4>1. k \in Nat /\ e = [i \in 1..k |-> e[i]]
        BY <2>0, <1>4
      <4> QED BY ONLY <4>1, <3>2, IsSequence
    <3>4. f \in Seq(W) /\ Len(f) = l
      <4>1. l \in Nat /\ f = [i \in 1..l |-> f[i]]
        BY <2>0, <1>4
      <4> QED BY ONLY <4>1, <3>2, IsSequence
    <3>5. a \in Seq(W) /\ Len(a) = 5
      BY <3>2, <1>4
    <3> QED BY <3>3, <3>4, <3>5
  <2>4. /\ \A i \in 1..k : u[i] = e[i]
        /\ \A i \in 1..l : u[k + i] = f[i]
        /\ \A i \in 1..5 : u[k + l + i] = a[i]
    <3>1. /\ \A i \in 1..k : i \in 1..Len(u)
          /\ \A i \in 1..l : k + i \in 1..Len(u) /\ n + (k + i) - 1 = n + k + i - 1
          /\ \A i \in 1..5 : k + l + i \in 1..Len(u) /\ n + (k + l + i) - 1 = n + k + l + i - 1
      BY <2>1
    <3> HIDE DEF u
    <3>2. /\ \A i \in 1..k : u[i] = e[i]
          /\ \A i \in 1..l : u[k + i] = full[n + (k + i) - 1]
          /\ \A i \in 1..5 : u[k + l + i] = full[n + (k + l + i) - 1]
      BY <3>1, <2>2, <1>4
    <3>3. \A i \in 1..l : u[k + i] = f[i]
      <4> TAKE i \in 1..l
      <4>1. f[i] = full[n + k + i - 1]
        BY <1>4
      <4>2. n + (k + i) - 1 = n + k + i - 1
        BY <3>1
      <4>3. u[k + i] = full[n + (k + i) - 1]
        BY <3>2
      <4> QED BY ONLY <4>1, <4>2, <4>3
    <3>4. \A i \in 1..5 : u[k + l + i] = a[i]
      <4> TAKE i \in 1..5
      <4>1. a[i] = full[n + k + l + i - 1]
        BY <1>4
      <4>2. n + (k + l + i) - 1 = n + k + l + i - 1
        BY <3>1
      <4>3. u[k + l + i] = full[n + (k + l + i) - 1]
        BY <3>2
      <4> QED BY ONLY <4>1, <4>2, <4>3
    <3> QED BY <3>2, <3>3, <3>4
  <2> HIDE DEF u, W
  <2>5. e \o f \o a = u
    <3>1. Len(u) = Len(e) + Len(f) + Len(a) /\ Len(e) = k /\ Len(f) = l /\ Len(a) = 5
      BY <2>0, <2>1, <2>3
    <3>2. /\ e \in Seq(W) /\ f \in Seq(W) /\ a \in Seq(W) /\ u \in Seq(W)
          /\ \A i \in 1..Len(e) : u[i] = e[i]
          /\ \A i \in 1..Len(f) : u[Len(e) + i] = f[i]
          /\ \A i \in 1..Len(a) : u[Len(e) + Len(f) + i] = a[i]
      BY <2>1, <2>3, <2>4
    <3> QED BY ONLY <3>1, <3>2, IsJoinedTwice
  <2> QED BY <2>5, <1>1 DEF u
<1>5. a = [i \in 1..5 |-> a[i]]
  BY DEF AcceptSteps
<1>6. CASE p.layout = "legacy" /\ p.at = "form"
  <2>1. e = <<>> /\ f = <<"deliver", "update", "carrier", "mode">>
    BY <1>3, <1>6 DEF EntrySteps, FormSteps
  <2>2. OwnCarrierPlan(p) = Left(full, 4)
    <3>1. e = [i \in 1..0 |-> e[i]] /\ f = [i \in 1..4 |-> f[i]]
      BY <2>1
    <3>2. /\ Len(full) = 12
          /\ \A i \in 1..4 : f[i] = full[i + 3]
          /\ \A i \in 1..5 : a[i] = full[i + 7]
      BY <1>6, <2>1 DEF FullPlan, AcceptSteps
    <3> HIDE DEF full, e, f, a
    <3>3. /\ \A i \in 1..4 : f[i] = full[4 + 0 + i - 1]
          /\ \A i \in 1..5 : a[i] = full[4 + 0 + 4 + i - 1]
      BY <3>2
    <3> QED BY <3>1, <3>2, <3>3, <1>4, <1>5
  <2> QED BY <2>2, <1>6
<1>7. CASE p.layout = "legacy" /\ p.at # "form"
  <2>1. e = <<"own_carrier", "dialog", "confirm">> /\ f = <<"deliver", "update", "carrier", "mode">>
    BY <1>3, <1>7 DEF EntrySteps, FormSteps
  <2>2. OwnCarrierPlan(p) = Left(full, 1)
    <3>1. e = [i \in 1..3 |-> e[i]] /\ f = [i \in 1..4 |-> f[i]]
      BY <2>1
    <3>2. /\ Len(full) = 12
          /\ \A i \in 1..3 : e[i] = full[i]
          /\ \A i \in 1..4 : f[i] = full[i + 3]
          /\ \A i \in 1..5 : a[i] = full[i + 7]
      BY <1>7, <2>1 DEF FullPlan, AcceptSteps
    <3> HIDE DEF full, e, f, a
    <3>3. /\ \A i \in 1..3 : e[i] = full[1 + i - 1]
          /\ \A i \in 1..4 : f[i] = full[1 + 3 + i - 1]
          /\ \A i \in 1..5 : a[i] = full[1 + 3 + 4 + i - 1]
      BY <3>2
    <3> QED BY <3>1, <3>2, <3>3, <1>4, <1>5
  <2> QED BY <2>2, <1>7
<1>8. CASE p.layout = "3_1"
  <2>1. e = <<"own_carrier">> /\ f = <<"deliver", "update", "carrier">>
    BY <1>3, <1>8 DEF EntrySteps, FormSteps
  <2>2. OwnCarrierPlan(p) = Left(full, 1)
    <3>1. e = [i \in 1..1 |-> e[i]] /\ f = [i \in 1..3 |-> f[i]]
      BY <2>1
    <3>2. /\ Len(full) = 9
          /\ \A i \in 1..1 : e[i] = full[i]
          /\ \A i \in 1..3 : f[i] = full[i + 1]
          /\ \A i \in 1..5 : a[i] = full[i + 4]
      BY <1>8, <2>1 DEF FullPlan, AcceptSteps
    <3> HIDE DEF full, e, f, a
    <3>3. /\ \A i \in 1..1 : e[i] = full[1 + i - 1]
          /\ \A i \in 1..3 : f[i] = full[1 + 1 + i - 1]
          /\ \A i \in 1..5 : a[i] = full[1 + 1 + 3 + i - 1]
      BY <3>2
    <3> QED BY <3>1, <3>2, <3>3, <1>4, <1>5
  <2> QED BY <2>2, <1>8
<1>9. CASE p.layout = "3_2"
  <2>1. e = <<"own_carrier", "confirm_if_asked">> /\ f = <<"mode_and_carrier", "ship", "deliver">>
    BY <1>3, <1>9 DEF EntrySteps, FormSteps
  <2>2. OwnCarrierPlan(p) = Left(full, 1)
    <3>1. e = [i \in 1..2 |-> e[i]] /\ f = [i \in 1..3 |-> f[i]]
      BY <2>1
    <3>2. /\ Len(full) = 10
          /\ \A i \in 1..2 : e[i] = full[i]
          /\ \A i \in 1..3 : f[i] = full[i + 2]
          /\ \A i \in 1..5 : a[i] = full[i + 5]
      BY <1>9, <2>1 DEF FullPlan, AcceptSteps
    <3> HIDE DEF full, e, f, a
    <3>3. /\ \A i \in 1..2 : e[i] = full[1 + i - 1]
          /\ \A i \in 1..3 : f[i] = full[1 + 2 + i - 1]
          /\ \A i \in 1..5 : a[i] = full[1 + 2 + 3 + i - 1]
      BY <3>2
    <3> QED BY <3>1, <3>2, <3>3, <1>4, <1>5
  <2> QED BY <2>2, <1>9
<1>10. CASE p.layout = "ca" /\ p.at = "form"
  <2>1. e = <<>> /\ f = <<"mode_and_carrier", "ship", "deliver">>
    BY <1>3, <1>10 DEF EntrySteps, FormSteps
  <2>2. OwnCarrierPlan(p) = Left(full, 2)
    <3>1. e = [i \in 1..0 |-> e[i]] /\ f = [i \in 1..3 |-> f[i]]
      BY <2>1
    <3>2. /\ Len(full) = 9
          /\ \A i \in 1..3 : f[i] = full[i + 1]
          /\ \A i \in 1..5 : a[i] = full[i + 4]
      BY <1>10, <2>1 DEF FullPlan, AcceptSteps
    <3> HIDE DEF full, e, f, a
    <3>3. /\ \A i \in 1..3 : f[i] = full[2 + 0 + i - 1]
          /\ \A i \in 1..5 : a[i] = full[2 + 0 + 3 + i - 1]
      BY <3>2
    <3> QED BY <3>1, <3>2, <3>3, <1>4, <1>5
  <2> QED BY <2>2, <1>10
<1>11. CASE p.layout = "ca" /\ p.at # "form"
  <2>1. e = <<"own_carrier">> /\ f = <<"mode_and_carrier", "ship", "deliver">>
    BY <1>3, <1>11 DEF EntrySteps, FormSteps
  <2>2. OwnCarrierPlan(p) = Left(full, 1)
    <3>1. e = [i \in 1..1 |-> e[i]] /\ f = [i \in 1..3 |-> f[i]]
      BY <2>1
    <3>2. /\ Len(full) = 9
          /\ \A i \in 1..1 : e[i] = full[i]
          /\ \A i \in 1..3 : f[i] = full[i + 1]
          /\ \A i \in 1..5 : a[i] = full[i + 4]
      BY <1>11, <2>1 DEF FullPlan, AcceptSteps
    <3> HIDE DEF full, e, f, a
    <3>3. /\ \A i \in 1..1 : e[i] = full[1 + i - 1]
          /\ \A i \in 1..3 : f[i] = full[1 + 1 + i - 1]
          /\ \A i \in 1..5 : a[i] = full[1 + 1 + 3 + i - 1]
      BY <3>2
    <3> QED BY <3>1, <3>2, <3>3, <1>4, <1>5
  <2> QED BY <2>2, <1>11
<1> HIDE DEF full, e, f, a
<1> QED BY <1>6, <1>7, <1>8, <1>9, <1>10, <1>11 DEF LayoutNames, full
----------------------------------------------------------------------------
(***************************************************************************)
(* The pages.                                                              *)
(***************************************************************************)

(* A page a click may lead to is the page of before, at another place. *)
LEMMA LedIs ==
  ASSUME NEW p, IsPage(p), NEW what, NEW q \in Led(p, what)
  PROVE  q = [p EXCEPT !.at = q.at] /\ <<p.at, what, q.at>> \in Leads
<1>1. PICK l \in Leads : l[1] = p.at /\ l[2] = what /\ q = [p EXCEPT !.at = l[3]]
  BY DEF Led
<1>2. q.at = l[3]
  BY <1>1 DEF IsPage
<1>3. l = <<l[1], l[2], l[3]>>
  BY DEF Leads
<1> QED BY <1>1, <1>2, <1>3

LEMMA OffersIf ==
  ASSUME NEW p, NEW what, NEW a, <<p.at, what, a>> \in Leads
  PROVE  Offers(p, what)
  BY DEF Offers

(* Where a click leads from and to. *)
LEMMA LeadsTo ==
  ASSUME NEW a, NEW what, NEW b, <<a, what, b>> \in Leads
  PROVE  /\ what = "region_confirm" => a = "switcher" /\ b \in {"login", "home"}
         /\ what = "login_button" => a = "login" /\ b \in {"login", "home"}
         /\ what = "start_new" => a = "start" /\ b \in {"method", "template"}
         /\ what = "file_upload" => a = "method" /\ b = "template"
         /\ what = "upload_file" => a = "template" /\ b = "listed"
         /\ what = "pack_single_units" => a = "listed" /\ b = "confirmed"
         /\ what = "packing_card" => a = "confirmed" /\ b = "units"
         /\ what = "several_boxes" => a = "units" /\ b = "several"
         /\ what = "confirm_boxes" => a = "several" /\ b = "inputs"
         /\ what = "input_method" => a = "inputs" /\ b = "options"
         /\ what = "excel_option" => a = "options" /\ b = "count"
         /\ what = "box_count" => a = "count" /\ b = "counted"
         /\ what = "generate" => a = "counted" /\ b = "sheet"
         /\ what = "validate" => a = "sheet" /\ b \in {"packed", "rejected"}
         /\ what = "confirm_and_continue" => a = "packed" /\ b = "carrier"
         /\ what = "own_carrier" => a \in {"carrier", "form"} /\ b \in {"dialog", "form"}
         /\ what = "confirm" => a = "dialog" /\ b = "form"
         /\ what = "update" => a = "form" /\ b = "form"
         /\ what = "accept_fees" => a = "form" /\ b = "accepted"
         /\ what = "input_tracking" => a = "accepted" /\ b = "tracking"
  BY DEF Leads

LEMMA LeadsSomewhere ==
  /\ <<"switcher", "region_confirm", "login">> \in Leads
  /\ <<"template", "upload_file", "listed">> \in Leads
  /\ <<"listed", "pack_single_units", "confirmed">> \in Leads
  /\ <<"units", "several_boxes", "several">> \in Leads
  /\ <<"several", "confirm_boxes", "inputs">> \in Leads
  /\ <<"inputs", "input_method", "options">> \in Leads
  /\ <<"options", "excel_option", "count">> \in Leads
  /\ <<"count", "box_count", "counted">> \in Leads
  /\ <<"counted", "generate", "sheet">> \in Leads
  /\ <<"packed", "confirm_and_continue", "carrier">> \in Leads
  /\ <<"carrier", "own_carrier", "form">> \in Leads
  /\ <<"dialog", "confirm", "form">> \in Leads
  /\ <<"form", "update", "form">> \in Leads
  /\ <<"form", "accept_fees", "accepted">> \in Leads
  /\ <<"accepted", "input_tracking", "tracking">> \in Leads
  BY DEF Leads

(* On the page where a step is taken there is what it clicks. *)
LEMMA OfferedInPlace ==
  ASSUME NEW p, NEW what \in PlainClicks, p.at \in PlaceFor(what, p.at)
  PROVE  Offers(p, what)
<1>1. /\ what = "region_confirm" => p.at = "switcher"
      /\ what = "pack_single_units" => p.at = "listed"
      /\ what = "several_boxes" => p.at = "units"
      /\ what = "confirm_boxes" => p.at = "several"
      /\ what = "input_method" => p.at = "inputs"
      /\ what = "excel_option" => p.at = "options"
      /\ what = "box_count" => p.at = "count"
      /\ what = "generate" => p.at = "counted"
      /\ what = "confirm_and_continue" => p.at = "packed"
      /\ what = "own_carrier" => p.at = "carrier"
      /\ what = "confirm" => p.at = "dialog"
      /\ what \in {"update", "accept_fees"} => p.at = "form"
      /\ what = "input_tracking" => p.at = "accepted"
  BY DEF PlaceFor
<1>2. \E b : <<p.at, what, b>> \in Leads
  BY <1>1, LeadsSomewhere DEF PlainClicks
<1> QED BY <1>2, OffersIf

(* A step finds what it works on in the place where it is taken. *)
LEMMA PlaceIsWorkedOn ==
  ASSUME NEW what, page.at \in PlaceFor(what, page.at)
  PROVE  page.at \in WorksOn(what)
  BY DEF PlaceFor, WorksOn, Unlisted

----------------------------------------------------------------------------
(***************************************************************************)
(* What is left to do.                                                     *)
(***************************************************************************)
LEMMA Rests ==
  ASSUME NEW plan, plan \in Seq(WordsOf(plan)), NEW n \in 1..(Len(plan) + 1),
         Left(plan, n) # <<>>
  PROVE  /\ n \in 1..Len(plan) /\ Head(Left(plan, n)) = plan[n]
         /\ Tail(Left(plan, n)) = Left(plan, n + 1) /\ n + 1 \in 1..(Len(plan) + 1)
         /\ Len(Left(plan, n)) = Len(plan) - n + 1
<1>1. Len(plan) \in Nat
  OBVIOUS
<1>2. n # Len(plan) + 1
  BY LeftNone
<1>3. n \in 1..Len(plan)
  BY <1>1, <1>2
<1> QED BY <1>1, <1>3, LeftStep

LEMMA SwitchingWords ==
  /\ SwitchingPlan[1] = "region_confirm" /\ SwitchingPlan[2] = "login" /\ SwitchingPlan[3] = "home_region"
  /\ SwitchingPlan[4] = "open" /\ SwitchingPlan[5] = "upload_mode" /\ SwitchingPlan[6] = "template"
  /\ SwitchingPlan[7] = "upload_file" /\ SwitchingPlan[8] = "pack_single_units"
  /\ SwitchingPlan[9] = "confirmed"
  BY DEF SwitchingPlan

LEMMA PackingWords ==
  /\ Stage2[1] = "packing_card" /\ Stage2[2] = "several_boxes" /\ Stage2[3] = "confirm_boxes"
  /\ Stage2[4] = "input_method" /\ Stage2[5] = "excel_option" /\ Stage2[6] = "box_count"
  /\ Stage2[7] = "generate" /\ Stage2[8] = "sheet" /\ Stage2[9] = "fill_sheet"
  /\ Stage2[10] = "validate" /\ Stage2[11] = "confirm_and_continue" /\ Stage2[12] = "carrier_page"
  BY DEF Stage2

LEMMA CarrierWords ==
  ASSUME NEW layout \in LayoutNames, NEW full, full = FullPlan(layout)
  PROVE  /\ layout = "legacy" =>
              /\ full[1] = "own_carrier" /\ full[2] = "dialog" /\ full[3] = "confirm" /\ full[4] = "deliver"
              /\ full[5] = "update" /\ full[6] = "carrier" /\ full[7] = "mode" /\ full[8] = "accept_fees"
              /\ full[9] = "accepted" /\ full[10] = "summary" /\ full[11] = "input_tracking"
              /\ full[12] = "tracking"
         /\ layout = "3_1" =>
              /\ full[1] = "own_carrier" /\ full[2] = "deliver" /\ full[3] = "update" /\ full[4] = "carrier"
              /\ full[5] = "accept_fees" /\ full[6] = "accepted" /\ full[7] = "summary"
              /\ full[8] = "input_tracking" /\ full[9] = "tracking"
         /\ layout = "3_2" =>
              /\ full[1] = "own_carrier" /\ full[2] = "confirm_if_asked" /\ full[3] = "mode_and_carrier"
              /\ full[4] = "ship" /\ full[5] = "deliver" /\ full[6] = "accept_fees" /\ full[7] = "accepted"
              /\ full[8] = "summary" /\ full[9] = "input_tracking" /\ full[10] = "tracking"
         /\ layout = "ca" =>
              /\ full[1] = "own_carrier" /\ full[2] = "mode_and_carrier" /\ full[3] = "ship"
              /\ full[4] = "deliver" /\ full[5] = "accept_fees" /\ full[6] = "accepted"
              /\ full[7] = "summary" /\ full[8] = "input_tracking" /\ full[9] = "tracking"
  BY DEF FullPlan
----------------------------------------------------------------------------
(* Where a step that is done has brought the page. *)
Reached(what, layout, at) ==
  CASE what \in {"region_confirm"} -> {"login", "home"}
    [] what \in {"login", "home_region"} -> {"home"}
    [] what = "open" -> Unlisted \cup {"listed"}
    [] what \in {"upload_mode", "template"} -> {"template", "listed"}
    [] what = "upload_file" -> {"listed"}
    [] what \in {"pack_single_units", "confirmed"} -> {"confirmed"}
    [] what = "packing_card" -> {"units"}
    [] what = "several_boxes" -> {"several"}
    [] what = "confirm_boxes" -> {"inputs"}
    [] what = "input_method" -> {"options"}
    [] what = "excel_option" -> {"count"}
    [] what = "box_count" -> {"counted"}
    [] what \in {"generate", "sheet", "fill_sheet"} -> {"sheet"}
    [] what = "validate" -> {"packed"}
    [] what \in {"confirm_and_continue", "carrier_page"} -> {"carrier"}
    [] what = "own_carrier" ->
         CASE layout = "legacy" -> {"dialog"} [] layout = "3_2" -> {"dialog", "form"} [] OTHER -> {"form"}
    [] what = "dialog" -> {"dialog"}
    [] what \in {"confirm", "confirm_if_asked", "mode_and_carrier", "ship", "deliver",
                 "update", "carrier", "mode"} -> {"form"}
    [] what \in {"accept_fees", "accepted", "summary"} -> {"accepted"}
    [] what \in {"input_tracking", "tracking"} -> {"tracking"}
    [] OTHER -> {at}

(* It is where the next step is taken, or the end of the stage. *)
LEMMA SwitchingReaches ==
  ASSUME NEW n \in 1..9, NEW layout, NEW before, NEW at \in Reached(SwitchingPlan[n], layout, before)
  PROVE  /\ n = 9 => at \in PlaceAfter(1)
         /\ n # 9 => at \in PlaceFor(SwitchingPlan[n + 1], at)
<1>1. CASE n = 1
  BY <1>1, SwitchingWords DEF Reached, PlaceFor
<1>2. CASE n = 2
  BY <1>2, SwitchingWords DEF Reached, PlaceFor
<1>3. CASE n = 3
  BY <1>3, SwitchingWords DEF Reached, PlaceFor
<1>4. CASE n = 4
  BY <1>4, SwitchingWords DEF Reached, PlaceFor
<1>5. CASE n = 5
  BY <1>5, SwitchingWords DEF Reached, PlaceFor
<1>6. CASE n = 6
  BY <1>6, SwitchingWords DEF Reached, PlaceFor
<1>7. CASE n = 7
  BY <1>7, SwitchingWords DEF Reached, PlaceFor
<1>8. CASE n = 8
  BY <1>8, SwitchingWords DEF Reached, PlaceFor
<1>9. CASE n = 9
  BY <1>9, SwitchingWords DEF Reached, PlaceAfter
<1> QED BY <1>1, <1>2, <1>3, <1>4, <1>5, <1>6, <1>7, <1>8, <1>9

LEMMA PackingReaches ==
  ASSUME NEW n \in 1..12, NEW layout, NEW before, NEW at \in Reached(Stage2[n], layout, before)
  PROVE  /\ n = 12 => at \in PlaceAfter(2)
         /\ n # 12 => at \in PlaceFor(Stage2[n + 1], at)
<1>1. CASE n \in {1, 2, 3}
  BY <1>1, PackingWords DEF Reached, PlaceFor
<1>2. CASE n \in {4, 5, 6}
  BY <1>2, PackingWords, SMTT(60) DEF Reached, PlaceFor
<1>3. CASE n \in {7, 8, 9}
  BY <1>3, PackingWords DEF Reached, PlaceFor
<1>4. CASE n \in {10, 11}
  BY <1>4, PackingWords DEF Reached, PlaceFor
<1>5. CASE n = 12
  BY <1>5, PackingWords DEF Reached, PlaceAfter
<1> QED BY <1>1, <1>2, <1>3, <1>4, <1>5

(* Which step of stage 3 is taken where another has brought the page. *)
LEMMA CarrierOnward ==
  ASSUME NEW layout \in LayoutNames, NEW before, NEW at, NEW done, NEW next,
         at \in Reached(done, layout, before),
         \/ done = "own_carrier" /\ layout = "legacy" /\ next = "dialog"
         \/ done = "own_carrier" /\ layout = "3_2" /\ next = "confirm_if_asked"
         \/ done = "own_carrier" /\ layout \in {"3_1", "ca"} /\ next \in {"deliver", "mode_and_carrier"}
         \/ done = "dialog" /\ next = "confirm"
         \/ /\ done \in {"confirm", "confirm_if_asked", "mode_and_carrier", "ship", "deliver", "update", "carrier", "mode"}
            /\ next \in {"mode_and_carrier", "ship", "deliver", "update", "carrier", "mode", "accept_fees"}
         \/ done \in {"accept_fees", "accepted", "summary"} /\ next \in {"accepted", "summary", "input_tracking"}
         \/ done = "input_tracking" /\ next = "tracking"
  PROVE  at \in PlaceFor(next, at)
<1>1. CASE done = "own_carrier" /\ layout = "legacy" /\ next = "dialog"
  <2>1. at = "dialog"
    BY <1>1, SMTT(60) DEF Reached
  <2> QED BY <1>1, <2>1, SMTT(60) DEF PlaceFor
<1>2. CASE done = "own_carrier" /\ layout = "3_2" /\ next = "confirm_if_asked"
  <2>1. at \in {"dialog", "form"}
    BY <1>2, SMTT(60) DEF Reached
  <2> QED BY <1>2, <2>1, SMTT(60) DEF PlaceFor
<1>3. CASE done = "own_carrier" /\ layout \in {"3_1", "ca"} /\ next \in {"deliver", "mode_and_carrier"}
  <2>1. at = "form"
    BY <1>3, SMTT(60) DEF Reached
  <2> QED BY <1>3, <2>1, SMTT(60) DEF PlaceFor
<1>4. CASE done = "dialog" /\ next = "confirm"
  <2>1. at = "dialog"
    BY <1>4, SMTT(60) DEF Reached
  <2> QED BY <1>4, <2>1, SMTT(60) DEF PlaceFor
<1>5. CASE /\ done \in {"confirm", "confirm_if_asked", "mode_and_carrier", "ship", "deliver", "update", "carrier", "mode"}
           /\ next \in {"mode_and_carrier", "ship", "deliver", "update", "carrier", "mode", "accept_fees"}
  <2>1. at = "form"
    BY <1>5, SMTT(60) DEF Reached
  <2> QED BY <1>5, <2>1, SMTT(60) DEF PlaceFor
<1>6. CASE done \in {"accept_fees", "accepted", "summary"} /\ next \in {"accepted", "summary", "input_tracking"}
  <2>1. at = "accepted"
    BY <1>6, SMTT(60) DEF Reached
  <2> QED BY <1>6, <2>1, SMTT(60) DEF PlaceFor
<1>7. CASE done = "input_tracking" /\ next = "tracking"
  <2>1. at = "tracking"
    BY <1>7, SMTT(60) DEF Reached
  <2> QED BY <1>7, <2>1, SMTT(60) DEF PlaceFor
<1> QED BY <1>1, <1>2, <1>3, <1>4, <1>5, <1>6, <1>7

LEMMA CarrierReaches ==
  ASSUME NEW layout \in LayoutNames, NEW full, full = FullPlan(layout), NEW n \in 1..Len(full),
         NEW before, NEW at \in Reached(full[n], layout, before)
  PROVE  /\ n = Len(full) => at \in PlaceAfter(3)
         /\ n # Len(full) => at \in PlaceFor(full[n + 1], at)
<1>0. full[n] = "tracking" => at \in PlaceAfter(3)
  BY DEF Reached, PlaceAfter
<1>1. CASE layout = "legacy"
  <2>1. Len(full) = 12
    BY <1>1, Stage3Words
  <2>2. /\ full[1] = "own_carrier" /\ full[2] = "dialog" /\ full[3] = "confirm"
        /\ full[4] = "deliver" /\ full[5] = "update" /\ full[6] = "carrier" /\ full[7] = "mode"
        /\ full[8] = "accept_fees" /\ full[9] = "accepted" /\ full[10] = "summary"
        /\ full[11] = "input_tracking" /\ full[12] = "tracking"
    BY <1>1, CarrierWords, SMTT(60)
  <2>3. ASSUME n \in 1..6 PROVE at \in PlaceFor(full[n + 1], at)
    BY <1>1, <2>2, <2>3, CarrierOnward, SMTT(60)
  <2>4. ASSUME n \in 7..11 PROVE at \in PlaceFor(full[n + 1], at)
    BY <1>1, <2>2, <2>4, CarrierOnward, SMTT(60)
  <2>5. n = 12 => at \in PlaceAfter(3)
    BY <1>0, <2>2
  <2> QED BY <2>1, <2>3, <2>4, <2>5
<1>2. CASE layout = "3_1"
  <2>1. Len(full) = 9
    BY <1>2, Stage3Words
  <2>2. /\ full[1] = "own_carrier" /\ full[2] = "deliver" /\ full[3] = "update"
        /\ full[4] = "carrier" /\ full[5] = "accept_fees" /\ full[6] = "accepted"
        /\ full[7] = "summary" /\ full[8] = "input_tracking" /\ full[9] = "tracking"
    BY <1>2, CarrierWords, SMTT(60)
  <2>3. ASSUME n \in 1..4 PROVE at \in PlaceFor(full[n + 1], at)
    BY <1>2, <2>2, <2>3, CarrierOnward, SMTT(60)
  <2>4. ASSUME n \in 5..8 PROVE at \in PlaceFor(full[n + 1], at)
    BY <1>2, <2>2, <2>4, CarrierOnward, SMTT(60)
  <2>5. n = 9 => at \in PlaceAfter(3)
    BY <1>0, <2>2
  <2> QED BY <2>1, <2>3, <2>4, <2>5
<1>3. CASE layout = "3_2"
  <2>1. Len(full) = 10
    BY <1>3, Stage3Words
  <2>2. /\ full[1] = "own_carrier" /\ full[2] = "confirm_if_asked"
        /\ full[3] = "mode_and_carrier" /\ full[4] = "ship" /\ full[5] = "deliver"
        /\ full[6] = "accept_fees" /\ full[7] = "accepted" /\ full[8] = "summary"
        /\ full[9] = "input_tracking" /\ full[10] = "tracking"
    BY <1>3, CarrierWords, SMTT(60)
  <2>3. ASSUME n \in 1..5 PROVE at \in PlaceFor(full[n + 1], at)
    BY <1>3, <2>2, <2>3, CarrierOnward, SMTT(60)
  <2>4. ASSUME n \in 6..9 PROVE at \in PlaceFor(full[n + 1], at)
    BY <1>3, <2>2, <2>4, CarrierOnward, SMTT(60)
  <2>5. n = 10 => at \in PlaceAfter(3)
    BY <1>0, <2>2
  <2> QED BY <2>1, <2>3, <2>4, <2>5
<1>4. CASE layout = "ca"
  <2>1. Len(full) = 9
    BY <1>4, Stage3Words
  <2>2. /\ full[1] = "own_carrier" /\ full[2] = "mode_and_carrier" /\ full[3] = "ship"
        /\ full[4] = "deliver" /\ full[5] = "accept_fees" /\ full[6] = "accepted"
        /\ full[7] = "summary" /\ full[8] = "input_tracking" /\ full[9] = "tracking"
    BY <1>4, CarrierWords, SMTT(60)
  <2>3. ASSUME n \in 1..4 PROVE at \in PlaceFor(full[n + 1], at)
    BY <1>4, <2>2, <2>3, CarrierOnward, SMTT(60)
  <2>4. ASSUME n \in 5..8 PROVE at \in PlaceFor(full[n + 1], at)
    BY <1>4, <2>2, <2>4, CarrierOnward, SMTT(60)
  <2>5. n = 9 => at \in PlaceAfter(3)
    BY <1>0, <2>2
  <2> QED BY <2>1, <2>3, <2>4, <2>5
<1> QED BY <1>1, <1>2, <1>3, <1>4 DEF LayoutNames
----------------------------------------------------------------------------
(***************************************************************************)
(* What a stage on its way has come to.                                    *)
(***************************************************************************)
StageWords(stage) ==
  CASE stage = 1 -> {"region", "region_confirm", "login", "home_region", "open", "upload_mode", "template",
                     "upload_file", "pack_single_units", "confirmed"}
    [] stage = 2 -> {"packing_card", "several_boxes", "confirm_boxes", "input_method", "excel_option",
                     "box_count", "generate", "sheet", "fill_sheet", "validate", "confirm_and_continue",
                     "carrier_page"}
    [] stage = 3 -> {"own_carrier", "dialog", "confirm", "confirm_if_asked", "mode_and_carrier", "ship",
                     "deliver", "update", "carrier", "mode", "accept_fees", "accepted", "summary",
                     "input_tracking", "tracking"}
    [] stage = 4 -> {"tabs", "tab", "details", "fill", "save", "shipped"}

NewLayouts == {"3_2", "ca"}

OnTheWay == run.state = "running" /\ run.todo # <<>>

LEMMA Uploading ==
  ASSUME OnTheWay, StageFollows, run.stage = 1
  PROVE  \/ run.todo = Stage1 /\ Head(run.todo) = "region" /\ Tail(run.todo) = Left(SwitchingPlan, 4)
         \/ \E n \in 1..9 :
              /\ run.todo = Left(SwitchingPlan, n) /\ Tail(run.todo) = Left(SwitchingPlan, n + 1)
              /\ Head(run.todo) = SwitchingPlan[n]
              /\ n > 3 => LabelMatchesSite(page.region, asked.site)
              /\ n > 5 => ~page.agl
<1>1. CASE run.todo = Stage1
  BY <1>1, Switching
<1>2. CASE run.todo # Stage1
  <2>1. PICK n \in 1..10 :
          /\ run.todo = Left(SwitchingPlan, n)
          /\ n > 3 => LabelMatchesSite(page.region, asked.site)
          /\ n > 5 => ~page.agl
    BY <1>2 DEF OnTheWay, StageFollows, Stage1Follows
  <2>2. SwitchingPlan \in Seq(WordsOf(SwitchingPlan)) /\ Len(SwitchingPlan) = 9
    BY Switching
  <2>3. n \in 1..(Len(SwitchingPlan) + 1) /\ Left(SwitchingPlan, n) # <<>>
    BY <2>1, <2>2 DEF OnTheWay
  <2>4. /\ n \in 1..9 /\ Head(Left(SwitchingPlan, n)) = SwitchingPlan[n]
        /\ Tail(Left(SwitchingPlan, n)) = Left(SwitchingPlan, n + 1)
    BY <2>2, <2>3, Rests
  <2> QED BY <2>1, <2>4
<1> QED BY <1>1, <1>2

LEMMA Packing ==
  ASSUME OnTheWay, StageFollows, run.stage = 2
  PROVE  \E n \in 1..12 :
           /\ run.todo = Left(Stage2, n) /\ Tail(run.todo) = Left(Stage2, n + 1)
           /\ Head(run.todo) = Stage2[n]
           /\ n > 9 => run.filled = FillMultiBoxStep2Template(asked.rows,
                         Step2Template(DOMAIN page.skus, ExtractBoxCount(asked.rows)))
<1>1. PICK n \in 1..13 :
        /\ run.todo = Left(Stage2, n)
        /\ n > 9 => run.filled = FillMultiBoxStep2Template(asked.rows,
                      Step2Template(DOMAIN page.skus, ExtractBoxCount(asked.rows)))
  BY DEF OnTheWay, StageFollows, Stage2Follows
<1>2. n \in 1..(Len(Stage2) + 1) /\ Left(Stage2, n) # <<>>
  BY <1>1, Stage2Words DEF OnTheWay
<1>3. n \in 1..12 /\ Head(Left(Stage2, n)) = Stage2[n] /\ Tail(Left(Stage2, n)) = Left(Stage2, n + 1)
  BY <1>2, Stage2Words, Rests
<1> QED BY <1>1, <1>3

LEMMA Carrying ==
  ASSUME OnTheWay, StageFollows, run.stage = 3, page.layout \in LayoutNames
  PROVE  \E n \in 1..Len(FullPlan(page.layout)) :
           /\ run.todo = Left(FullPlan(page.layout), n)
           /\ Tail(run.todo) = Left(FullPlan(page.layout), n + 1)
           /\ Head(run.todo) = FullPlan(page.layout)[n]
           /\ Len(run.todo) = Len(FullPlan(page.layout)) - n + 1
<1> DEFINE full == FullPlan(page.layout)
<1>1. PICK n \in 1..(Len(full) + 1) : run.todo = Left(full, n)
  BY DEF OnTheWay, StageFollows, Stage3Follows
<1>2. full \in Seq(WordsOf(full))
  BY Stage3Words
<1>3. Left(full, n) # <<>>
  BY <1>1 DEF OnTheWay
<1> HIDE DEF full
<1>4. /\ n \in 1..Len(full) /\ Head(Left(full, n)) = full[n] /\ Tail(Left(full, n)) = Left(full, n + 1)
      /\ Len(Left(full, n)) = Len(full) - n + 1
  BY <1>2, <1>3, Rests
<1>5. \E k \in 1..Len(full) :
        /\ run.todo = Left(full, k) /\ Tail(run.todo) = Left(full, k + 1)
        /\ Head(run.todo) = full[k] /\ Len(run.todo) = Len(full) - k + 1
  BY <1>1, <1>4
<1> QED BY <1>5 DEF full

(* How much is left of stage 3 in the layouts whose choices are verified. *)
LEMMA LeftInNewLayouts ==
  ASSUME OnTheWay, StageFollows, run.stage = 3, page.layout \in NewLayouts
  PROVE  LET what == Head(run.todo)
         IN /\ what \in {"own_carrier", "confirm_if_asked", "mode_and_carrier", "ship", "deliver", "accept_fees",
                         "accepted", "summary", "input_tracking", "tracking"}
            /\ what \in {"own_carrier", "confirm_if_asked"} => Len(run.todo) > 8
            /\ what = "mode_and_carrier" <=> Len(run.todo) = 8
            /\ what = "ship" <=> Len(run.todo) = 7
            /\ what = "deliver" <=> Len(run.todo) = 6
            /\ what = "accept_fees" <=> Len(run.todo) = 5
            /\ Len(run.todo) \in Nat
<1> DEFINE full == FullPlan(page.layout)
<1>1. PICK n \in 1..Len(full) : Head(run.todo) = full[n] /\ Len(run.todo) = Len(full) - n + 1
  BY Carrying DEF NewLayouts, LayoutNames
<1>2. CASE page.layout = "3_2"
  <2>1. /\ Len(full) = 10
        /\ full[1] = "own_carrier" /\ full[2] = "confirm_if_asked" /\ full[3] = "mode_and_carrier"
        /\ full[4] = "ship" /\ full[5] = "deliver" /\ full[6] = "accept_fees" /\ full[7] = "accepted"
        /\ full[8] = "summary" /\ full[9] = "input_tracking" /\ full[10] = "tracking"
    BY <1>2, Stage3Words, CarrierWords DEF LayoutNames
  <2> HIDE DEF full
  <2>2. CASE n \in {1, 2, 3, 4, 5}
    BY <1>1, <2>1, <2>2
  <2>3. CASE n \in {6, 7, 8, 9, 10}
    BY <1>1, <2>1, <2>3
  <2> QED BY <2>1, <2>2, <2>3
<1>3. CASE page.layout = "ca"
  <2>1. /\ Len(full) = 9
        /\ full[1] = "own_carrier" /\ full[2] = "mode_and_carrier" /\ full[3] = "ship"
        /\ full[4] = "deliver" /\ full[5] = "accept_fees" /\ full[6] = "accepted"
        /\ full[7] = "summary" /\ full[8] = "input_tracking" /\ full[9] = "tracking"
    BY <1>3, Stage3Words, CarrierWords DEF LayoutNames
  <2> HIDE DEF full
  <2>2. CASE n \in {1, 2, 3, 4, 5}
    BY <1>1, <2>1, <2>2
  <2>3. CASE n \in {6, 7, 8, 9}
    BY <1>1, <2>1, <2>3
  <2> QED BY <2>1, <2>2, <2>3
<1> QED BY <1>2, <1>3 DEF NewLayouts
----------------------------------------------------------------------------
LEMMA CarrierWord ==
  ASSUME NEW layout \in LayoutNames, NEW n \in 1..Len(FullPlan(layout))
  PROVE  FullPlan(layout)[n] \in StageWords(3)
<1> DEFINE full == FullPlan(layout)
<1>1. CASE layout = "legacy"
  <2>1. /\ full[1] = "own_carrier" /\ full[2] = "dialog" /\ full[3] = "confirm" /\ full[4] = "deliver"
        /\ full[5] = "update" /\ full[6] = "carrier" /\ full[7] = "mode" /\ full[8] = "accept_fees"
        /\ full[9] = "accepted" /\ full[10] = "summary" /\ full[11] = "input_tracking" /\ full[12] = "tracking"
    BY <1>1, CarrierWords, SMTT(60)
  <2>2. n \in 1..12
    BY <1>1, Stage3Words
  <2> HIDE DEF full
  <2>3. ASSUME n <= 6 PROVE full[n] \in StageWords(3)
    BY <2>1, <2>2, <2>3 DEF StageWords
  <2>4. ASSUME n > 6 PROVE full[n] \in StageWords(3)
    BY <2>1, <2>2, <2>4 DEF StageWords
  <2>5. full[n] \in StageWords(3)
    BY <2>2, <2>3, <2>4
  <2> QED BY <2>5 DEF full
<1>2. CASE layout = "3_1"
  <2>1. /\ full[1] = "own_carrier" /\ full[2] = "deliver" /\ full[3] = "update" /\ full[4] = "carrier"
        /\ full[5] = "accept_fees" /\ full[6] = "accepted" /\ full[7] = "summary" /\ full[8] = "input_tracking"
        /\ full[9] = "tracking"
    BY <1>2, CarrierWords
  <2>2. n \in 1..9
    BY <1>2, Stage3Words
  <2> HIDE DEF full
  <2>3. ASSUME n <= 6 PROVE full[n] \in StageWords(3)
    BY <2>1, <2>2, <2>3 DEF StageWords
  <2>4. ASSUME n > 6 PROVE full[n] \in StageWords(3)
    BY <2>1, <2>2, <2>4 DEF StageWords
  <2>5. full[n] \in StageWords(3)
    BY <2>2, <2>3, <2>4
  <2> QED BY <2>5 DEF full
<1>3. CASE layout = "3_2"
  <2>1. /\ full[1] = "own_carrier" /\ full[2] = "confirm_if_asked" /\ full[3] = "mode_and_carrier" /\ full[4] = "ship"
        /\ full[5] = "deliver" /\ full[6] = "accept_fees" /\ full[7] = "accepted" /\ full[8] = "summary"
        /\ full[9] = "input_tracking" /\ full[10] = "tracking"
    BY <1>3, CarrierWords
  <2>2. n \in 1..10
    BY <1>3, Stage3Words
  <2> HIDE DEF full
  <2>3. ASSUME n <= 6 PROVE full[n] \in StageWords(3)
    BY <2>1, <2>2, <2>3 DEF StageWords
  <2>4. ASSUME n > 6 PROVE full[n] \in StageWords(3)
    BY <2>1, <2>2, <2>4 DEF StageWords
  <2>5. full[n] \in StageWords(3)
    BY <2>2, <2>3, <2>4
  <2> QED BY <2>5 DEF full
<1>4. CASE layout = "ca"
  <2>1. /\ full[1] = "own_carrier" /\ full[2] = "mode_and_carrier" /\ full[3] = "ship" /\ full[4] = "deliver"
        /\ full[5] = "accept_fees" /\ full[6] = "accepted" /\ full[7] = "summary" /\ full[8] = "input_tracking"
        /\ full[9] = "tracking"
    BY <1>4, CarrierWords
  <2>2. n \in 1..9
    BY <1>4, Stage3Words
  <2> HIDE DEF full
  <2>3. ASSUME n <= 6 PROVE full[n] \in StageWords(3)
    BY <2>1, <2>2, <2>3 DEF StageWords
  <2>4. ASSUME n > 6 PROVE full[n] \in StageWords(3)
    BY <2>1, <2>2, <2>4 DEF StageWords
  <2>5. full[n] \in StageWords(3)
    BY <2>2, <2>3, <2>4
  <2> QED BY <2>5 DEF full
<1> QED BY <1>1, <1>2, <1>3, <1>4 DEF LayoutNames

LEMMA WordsOfStages ==
  ASSUME OnTheWay, StageFollows, page.layout \in LayoutNames
  PROVE  run.stage \in 1..4 /\ Head(run.todo) \in StageWords(run.stage)
<1>1. run.stage \in 1..4
  BY DEF OnTheWay, StageFollows
<1>2. CASE run.stage = 1
  <2>1. CASE Head(run.todo) = "region"
    BY <1>2, <2>1 DEF StageWords
  <2>2. CASE Head(run.todo) # "region"
    <3>1. PICK n \in 1..9 : Head(run.todo) = SwitchingPlan[n]
      BY <1>2, <2>2, Uploading
    <3> QED BY <1>2, <3>1, SwitchingWords DEF StageWords
  <2> QED BY <2>1, <2>2
<1>3. CASE run.stage = 2
  <2>1. PICK n \in 1..12 : Head(run.todo) = Stage2[n]
    BY <1>3, Packing
  <2> QED BY <1>3, <2>1, PackingWords DEF StageWords
<1>4. CASE run.stage = 3
  <2>1. PICK n \in 1..Len(FullPlan(page.layout)) : Head(run.todo) = FullPlan(page.layout)[n]
    BY <1>4, Carrying
  <2> QED BY <1>4, <2>1, CarrierWord
<1>5. CASE run.stage = 4
  <2>1. run.todo \in {<<"tabs">>, <<"tab">>, <<"details">>, <<"fill">>, <<"save">>, <<"shipped">>}
    BY <1>5 DEF OnTheWay, StageFollows, Stage4Follows
  <2> QED BY <1>5, <2>1 DEF StageWords
<1> QED BY <1>1, <1>2, <1>3, <1>4, <1>5

(* What the steps before have seen to. *)
LEMMA SeenTo ==
  ASSUME OnTheWay, StageFollows, page.layout \in LayoutNames
  PROVE  LET what == Head(run.todo)
         IN /\ what \in {"open", "upload_mode", "template", "upload_file", "pack_single_units", "confirmed"} =>
                 LabelMatchesSite(page.region, asked.site)
            /\ what \in {"template", "upload_file", "pack_single_units", "confirmed"} => ~page.agl
            /\ what \in {"validate", "confirm_and_continue", "carrier_page"} =>
                 run.filled = FillMultiBoxStep2Template(asked.rows,
                                Step2Template(DOMAIN page.skus, ExtractBoxCount(asked.rows)))
            /\ what = "accept_fees" /\ page.layout \in NewLayouts =>
                 page.mode = Mode /\ page.carrier = "OTHER" /\ page.ship = asked.today /\ page.deliver = Target
<1>1. run.stage \in 1..4 /\ Head(run.todo) \in StageWords(run.stage)
  BY WordsOfStages
<1>2. ASSUME Head(run.todo) \in {"open", "upload_mode", "template", "upload_file", "pack_single_units", "confirmed"}
      PROVE  /\ LabelMatchesSite(page.region, asked.site)
             /\ Head(run.todo) \notin {"open", "upload_mode"} => ~page.agl
  <2>1. run.stage = 1
    BY <1>1, <1>2 DEF StageWords
  <2>2. PICK n \in 1..9 :
          /\ Head(run.todo) = SwitchingPlan[n]
          /\ n > 3 => LabelMatchesSite(page.region, asked.site)
          /\ n > 5 => ~page.agl
    BY <1>2, <2>1, Uploading
  <2>3. n > 3 /\ (Head(run.todo) \notin {"open", "upload_mode"} => n > 5)
    BY <1>2, <2>2, SwitchingWords
  <2> QED BY <2>2, <2>3
<1>3. ASSUME Head(run.todo) \in {"validate", "confirm_and_continue", "carrier_page"}
      PROVE  run.filled = FillMultiBoxStep2Template(asked.rows,
                            Step2Template(DOMAIN page.skus, ExtractBoxCount(asked.rows)))
  <2>1. run.stage = 2
    BY <1>1, <1>3 DEF StageWords
  <2>2. PICK n \in 1..12 :
          /\ Head(run.todo) = Stage2[n]
          /\ n > 9 => run.filled = FillMultiBoxStep2Template(asked.rows,
                        Step2Template(DOMAIN page.skus, ExtractBoxCount(asked.rows)))
    BY <2>1, Packing
  <2>3. n > 9
    BY <1>3, <2>2, PackingWords
  <2> QED BY <2>2, <2>3
<1>4. ASSUME Head(run.todo) = "accept_fees", page.layout \in NewLayouts
      PROVE  page.mode = Mode /\ page.carrier = "OTHER" /\ page.ship = asked.today /\ page.deliver = Target
  <2>1. run.stage = 3
    BY <1>1, <1>4 DEF StageWords
  <2>2. Len(run.todo) = 5
    BY <1>4, <2>1, LeftInNewLayouts
  <2>3. Stage3Follows
    BY <2>1 DEF StageFollows, OnTheWay
  <2> QED BY <1>4, <2>2, <2>3 DEF Stage3Follows, NewLayouts
<1> QED BY <1>2, <1>3, <1>4

----------------------------------------------------------------------------
(***************************************************************************)
(* A step done, or a step still to do.                                     *)
(***************************************************************************)

(* What a step of stages 1 to 3 leaves alone, and what it has seen to when it is done. *)
Keeps(what) ==
  /\ page'.layout = page.layout
  /\ what \notin {"region", "region_confirm"} => page'.region = page.region
  /\ what \notin {"open", "upload_mode"} => page'.agl = page.agl
  /\ what = "upload_mode" /\ ~page.agl => ~page'.agl
  /\ what # "upload_file" => page'.skus = page.skus
  /\ what # "fill_sheet" => run'.filled = run.filled
  /\ what \notin {"open", "mode_and_carrier", "mode", "carrier"} =>
       page'.mode = page.mode /\ page'.carrier = page.carrier
  /\ what \notin {"open", "ship"} => page'.ship = page.ship
  /\ what \notin {"open", "ship", "deliver"} => page'.deliver = page.deliver

SeesTo(what) ==
  /\ what \in {"region", "home_region"} => LabelMatchesSite(page'.region, asked.site)
  /\ what = "upload_mode" => ~page'.agl
  /\ what = "fill_sheet" =>
       run'.filled = FillMultiBoxStep2Template(asked.rows,
                       Step2Template(DOMAIN page.skus, ExtractBoxCount(asked.rows)))
  /\ page.layout \in NewLayouts =>
       /\ what = "mode_and_carrier" => page'.mode = Mode /\ page'.carrier = "OTHER"
       /\ what = "ship" => page'.ship = asked.today
       /\ what = "deliver" => page'.deliver = Target

LEMMA DoneFollows ==
  ASSUME OnTheWay, StageFollows, page.layout \in LayoutNames, run.stage # 4, UNCHANGED asked,
         run'.stage = run.stage, run'.todo = Tail(run.todo),
         Keeps(Head(run.todo)), SeesTo(Head(run.todo))
  PROVE  StageFollows'
<1> DEFINE what == Head(run.todo)
<1>1. run.stage \in 1..3
  BY DEF OnTheWay, StageFollows
<1>2. CASE run.stage = 1
  <2>1. CASE run.todo = Stage1 /\ what = "region" /\ Tail(run.todo) = Left(SwitchingPlan, 4)
    <3>1. LabelMatchesSite(page'.region, asked.site)
      BY <2>1 DEF SeesTo
    <3> QED BY <1>2, <2>1, <3>1 DEF StageFollows, Stage1Follows
  <2>2. CASE \E n \in 1..9 :
               /\ run.todo = Left(SwitchingPlan, n) /\ Tail(run.todo) = Left(SwitchingPlan, n + 1)
               /\ what = SwitchingPlan[n]
               /\ n > 3 => LabelMatchesSite(page.region, asked.site)
               /\ n > 5 => ~page.agl
    <3>1. PICK n \in 1..9 :
               /\ run.todo = Left(SwitchingPlan, n) /\ Tail(run.todo) = Left(SwitchingPlan, n + 1)
               /\ what = SwitchingPlan[n]
               /\ n > 3 => LabelMatchesSite(page.region, asked.site)
               /\ n > 5 => ~page.agl
      BY <2>2
    <3>2. n + 1 > 3 => LabelMatchesSite(page'.region, asked.site)
      <4>1. CASE n = 3
        BY <3>1, <4>1, SwitchingWords DEF SeesTo
      <4>2. CASE n > 3
        <5>1. what \notin {"region", "region_confirm"}
          BY <3>1, <4>2, SwitchingWords
        <5> QED BY <3>1, <4>2, <5>1 DEF Keeps
      <4> QED BY <4>1, <4>2
    <3>3. n + 1 > 5 => ~page'.agl
      <4>1. CASE n = 5
        BY <3>1, <4>1, SwitchingWords DEF SeesTo
      <4>2. CASE n > 5
        <5>1. what \notin {"open", "upload_mode"}
          BY <3>1, <4>2, SwitchingWords
        <5> QED BY <3>1, <4>2, <5>1 DEF Keeps
      <4> QED BY <4>1, <4>2
    <3>4. n + 1 \in 1..10 /\ run'.todo = Left(SwitchingPlan, n + 1)
      BY <3>1
    <3>5. Stage1Follows'
      BY <3>2, <3>3, <3>4 DEF Stage1Follows
    <3> QED BY <1>2, <3>5 DEF StageFollows
  <2> QED BY <1>2, <2>1, <2>2, Uploading
<1>3. CASE run.stage = 2
  <2>1. PICK n \in 1..12 :
           /\ run.todo = Left(Stage2, n) /\ Tail(run.todo) = Left(Stage2, n + 1)
           /\ what = Stage2[n]
           /\ n > 9 => run.filled = FillMultiBoxStep2Template(asked.rows,
                         Step2Template(DOMAIN page.skus, ExtractBoxCount(asked.rows)))
    BY <1>3, Packing
  <2>2. what # "upload_file"
    BY <2>1, PackingWords
  <2>3. page'.skus = page.skus
    BY <2>2 DEF Keeps
  <2>4. n + 1 > 9 => run'.filled = FillMultiBoxStep2Template(asked.rows,
                         Step2Template(DOMAIN page.skus, ExtractBoxCount(asked.rows)))
    <3>1. CASE n = 9
      BY <2>1, <3>1, PackingWords DEF SeesTo
    <3>2. CASE n > 9
      <4>1. what # "fill_sheet"
        BY <2>1, <3>2, PackingWords
      <4> QED BY <2>1, <3>2, <4>1 DEF Keeps
    <3> QED BY <3>1, <3>2
  <2>5. n + 1 \in 1..13 /\ run'.todo = Left(Stage2, n + 1)
    BY <2>1
  <2>6. Stage2Follows'
    BY <2>3, <2>4, <2>5 DEF Stage2Follows
  <2> QED BY <1>3, <2>6 DEF StageFollows
<1>4. CASE run.stage = 3
  <2> DEFINE full == FullPlan(page.layout)
  <2>1. PICK n \in 1..Len(full) :
          /\ Tail(run.todo) = Left(full, n + 1) /\ Len(run.todo) = Len(full) - n + 1
          /\ run.todo = Left(full, n)
    BY <1>4, Carrying
  <2>2. Len(full) \in Nat /\ full \in Seq(WordsOf(full))
    BY Stage3Words
  <2>3. n + 1 \in 1..(Len(full) + 1) /\ run'.todo = Left(full, n + 1) /\ page'.layout = page.layout
    BY <2>1, <2>2 DEF Keeps
  <2>4. Len(run'.todo) = Len(run.todo) - 1
    <3> HIDE DEF full
    <3>1. CASE n = Len(full)
      BY <2>1, <2>2, <2>3, <3>1, LeftNone
    <3>2. CASE n # Len(full)
      <4>1. n + 1 \in 1..Len(full) /\ Len(full) - (n + 1) + 1 = Len(run.todo) - 1
        BY <2>1, <2>2, <3>2
      <4> QED BY <2>2, <2>3, <4>1, LeftStep
    <3> QED BY <3>1, <3>2
  <2>5. ASSUME page.layout \in NewLayouts
        PROVE  /\ Len(run'.todo) < 8 => page'.mode = Mode /\ page'.carrier = "OTHER"
               /\ Len(run'.todo) < 7 => page'.ship = asked.today
               /\ Len(run'.todo) < 6 => page'.deliver = Target
    <3> DEFINE left == Len(run.todo)
    <3>1. /\ what \in {"own_carrier", "confirm_if_asked", "mode_and_carrier", "ship", "deliver", "accept_fees",
                       "accepted", "summary", "input_tracking", "tracking"}
          /\ what = "mode_and_carrier" <=> left = 8
          /\ what = "ship" <=> left = 7
          /\ what = "deliver" <=> left = 6
      BY <1>4, <2>5, LeftInNewLayouts
    <3>2. /\ left < 8 => page.mode = Mode /\ page.carrier = "OTHER"
          /\ left < 7 => page.ship = asked.today
          /\ left < 6 => page.deliver = Target
      BY <1>4, <2>5 DEF OnTheWay, StageFollows, Stage3Follows, NewLayouts
    <3>3. left \in Nat
      BY <1>4, <2>5, LeftInNewLayouts
    <3>4. Len(run'.todo) = left - 1
      BY <2>4
    <3> HIDE DEF left
    <3>5. ASSUME left < 9 PROVE page'.mode = Mode /\ page'.carrier = "OTHER"
      <4>1. CASE left = 8
        BY <2>5, <3>1, <4>1 DEF SeesTo
      <4>2. CASE left < 8
        <5>1. left # 8
          BY <3>3, <4>2
        <5>2. what \notin {"open", "mode_and_carrier", "mode", "carrier"}
          BY <3>1, <5>1
        <5> QED BY <3>2, <4>2, <5>2 DEF Keeps
      <4> QED BY <3>3, <3>5, <4>1, <4>2
    <3>6. ASSUME left < 8 PROVE page'.ship = asked.today
      <4>1. CASE left = 7
        BY <2>5, <3>1, <4>1 DEF SeesTo
      <4>2. CASE left < 7
        <5>1. left # 7
          BY <3>3, <4>2
        <5>2. what \notin {"open", "ship"}
          BY <3>1, <5>1
        <5> QED BY <3>2, <4>2, <5>2 DEF Keeps
      <4> QED BY <3>3, <3>6, <4>1, <4>2
    <3>7. ASSUME left < 7 PROVE page'.deliver = Target
      <4>1. CASE left = 6
        BY <2>5, <3>1, <4>1 DEF SeesTo
      <4>2. CASE left < 6
        <5>1. left # 6 /\ left # 7
          BY <3>3, <4>2
        <5>2. what \notin {"open", "ship", "deliver"}
          BY <3>1, <5>1
        <5> QED BY <3>2, <4>2, <5>2 DEF Keeps
      <4> QED BY <3>3, <3>7, <4>1, <4>2
    <3>8. left - 1 < 8 <=> left < 9
      BY <3>3
    <3>9. (left - 1 < 7 <=> left < 8) /\ (left - 1 < 6 <=> left < 7)
      BY <3>3
    <3> QED BY <3>4, <3>5, <3>6, <3>7, <3>8, <3>9
  <2>6. Stage3Follows'
    BY <2>3, <2>5 DEF Stage3Follows, NewLayouts, Mode, Target
  <2> QED BY <1>4, <2>6 DEF StageFollows
<1> QED BY <1>1, <1>2, <1>3, <1>4
LEMMA SameFollows ==
  ASSUME OnTheWay, StageFollows, page.layout \in LayoutNames, run.stage # 4, UNCHANGED asked,
         run'.stage = run.stage, run'.todo = run.todo, Keeps(Head(run.todo))
  PROVE  StageFollows'
<1> DEFINE what == Head(run.todo)
<1>1. run.stage \in 1..3
  BY DEF OnTheWay, StageFollows
<1>2. CASE run.stage = 1
  <2>1. CASE run.todo = Stage1
    BY <1>2, <2>1 DEF StageFollows, Stage1Follows
  <2>2. CASE run.todo # Stage1
    <3>1. PICK n \in 1..9 :
               /\ run.todo = Left(SwitchingPlan, n) /\ what = SwitchingPlan[n]
               /\ n > 3 => LabelMatchesSite(page.region, asked.site)
               /\ n > 5 => ~page.agl
      BY <1>2, <2>2, Uploading
    <3>2. n > 3 => what \notin {"region", "region_confirm"}
      BY <3>1, SwitchingWords
    <3>3. n > 5 => what \notin {"open", "upload_mode"}
      BY <3>1, SwitchingWords
    <3>4. /\ n > 3 => LabelMatchesSite(page'.region, asked.site)
          /\ n > 5 => ~page'.agl
      BY <3>1, <3>2, <3>3 DEF Keeps
    <3>5. n \in 1..10 /\ run'.todo = Left(SwitchingPlan, n)
      BY <3>1
    <3>6. Stage1Follows'
      BY <3>4, <3>5 DEF Stage1Follows
    <3> QED BY <1>2, <3>6 DEF StageFollows
  <2> QED BY <2>1, <2>2
<1>3. CASE run.stage = 2
  <2>1. PICK n \in 1..12 :
           /\ run.todo = Left(Stage2, n) /\ what = Stage2[n]
           /\ n > 9 => run.filled = FillMultiBoxStep2Template(asked.rows,
                         Step2Template(DOMAIN page.skus, ExtractBoxCount(asked.rows)))
    BY <1>3, Packing
  <2>2. what # "upload_file" /\ (n > 9 => what # "fill_sheet")
    BY <2>1, PackingWords
  <2>3. page'.skus = page.skus /\ (n > 9 => run'.filled = run.filled)
    BY <2>2 DEF Keeps
  <2>4. n \in 1..13 /\ run'.todo = Left(Stage2, n)
    BY <2>1
  <2>5. Stage2Follows'
    BY <2>1, <2>3, <2>4 DEF Stage2Follows
  <2> QED BY <1>3, <2>5 DEF StageFollows
<1>4. CASE run.stage = 3
  <2>1. /\ page'.layout = page.layout
        /\ \E n \in 1..(Len(FullPlan(page.layout)) + 1) : run'.todo = Left(FullPlan(page.layout), n)
    BY <1>4 DEF OnTheWay, StageFollows, Stage3Follows, Keeps
  <2>2. ASSUME page.layout \in NewLayouts
        PROVE  /\ Len(run.todo) < 8 => page'.mode = Mode /\ page'.carrier = "OTHER"
               /\ Len(run.todo) < 7 => page'.ship = asked.today
               /\ Len(run.todo) < 6 => page'.deliver = Target
    <3> DEFINE left == Len(run.todo)
    <3>1. /\ what \in {"own_carrier", "confirm_if_asked", "mode_and_carrier", "ship", "deliver", "accept_fees",
                       "accepted", "summary", "input_tracking", "tracking"}
          /\ what = "mode_and_carrier" <=> left = 8
          /\ what = "ship" <=> left = 7
          /\ what = "deliver" <=> left = 6
      BY <1>4, <2>2, LeftInNewLayouts
    <3>2. /\ left < 8 => page.mode = Mode /\ page.carrier = "OTHER"
          /\ left < 7 => page.ship = asked.today
          /\ left < 6 => page.deliver = Target
      BY <1>4, <2>2 DEF OnTheWay, StageFollows, Stage3Follows, NewLayouts
    <3>3. left \in Nat
      BY <1>4, <2>2, LeftInNewLayouts
    <3> HIDE DEF left
    <3>4. left < 8 => left # 8
      BY <3>3
    <3>5. left < 7 => left # 7
      BY <3>3
    <3>6. left < 6 => left # 6 /\ left # 7
      BY <3>3
    <3>7. left < 8 => page'.mode = Mode /\ page'.carrier = "OTHER"
      BY <3>1, <3>2, <3>4 DEF Keeps
    <3>8. left < 7 => page'.ship = asked.today
      BY <3>1, <3>2, <3>5 DEF Keeps
    <3>9. left < 6 => page'.deliver = Target
      BY <3>1, <3>2, <3>6 DEF Keeps
    <3> QED BY <3>7, <3>8, <3>9 DEF left
  <2>3. Stage3Follows'
    BY <2>1, <2>2 DEF Stage3Follows, NewLayouts, Mode, Target
  <2> QED BY <1>4, <2>3 DEF StageFollows
<1> QED BY <1>1, <1>2, <1>3, <1>4

(* After a step that has brought the page where it should, the next is taken in its place. *)
LEMMA DonePlaces ==
  ASSUME OnTheWay, StageFollows, page.layout \in LayoutNames, run.stage # 4, UNCHANGED asked,
         run'.todo = Tail(run.todo), page'.at \in Reached(Head(run.todo), page.layout, page.at),
         Head(run.todo) \in {"region_confirm", "login"} => LabelMatchesSite(page'.region, asked.site)
  PROVE  IF run'.todo = <<>> THEN page'.at \in PlaceAfter(run.stage) ELSE WellPlaced(Head(run.todo))'
<1> DEFINE what == Head(run.todo)
<1>1. run.stage \in 1..3
  BY DEF OnTheWay, StageFollows
<1>2. CASE run.stage = 1
  <2>1. CASE run.todo = Stage1
    <3>1. run'.todo = Left(SwitchingPlan, 4)
      BY <2>1, Switching
    <3>2. /\ Left(SwitchingPlan, 4) # <<>>
          /\ Head(Left(SwitchingPlan, 4)) = "open"
      <4>1. 4 \in 1..Len(SwitchingPlan)
        BY Switching
      <4> QED BY <4>1, LeftStep, Switching, SwitchingWords
    <3>3. WellPlaced("open")'
      BY DEF WellPlaced, PlaceFor
    <3> QED BY <3>1, <3>2, <3>3
  <2>2. CASE run.todo # Stage1
    <3>1. PICK n \in 1..9 : what = SwitchingPlan[n] /\ run'.todo = Left(SwitchingPlan, n + 1)
      BY <1>2, <2>2, Uploading
    <3>2. /\ n = 9 => page'.at \in PlaceAfter(1)
          /\ n # 9 => page'.at \in PlaceFor(SwitchingPlan[n + 1], page'.at)
      BY <3>1, SwitchingReaches
    <3>3. CASE n = 9
      <4>1. run'.todo = <<>>
        BY <3>1, <3>3, LeftNone, Switching
      <4> QED BY <1>2, <3>2, <3>3, <4>1
    <3>4. CASE n # 9
      <4>1. n + 1 \in 1..Len(SwitchingPlan)
        BY <3>1, <3>4, Switching
      <4>2. run'.todo # <<>> /\ Head(run'.todo) = SwitchingPlan[n + 1]
        BY <3>1, <4>1, LeftStep, Switching, ZenonT(60)
      <4>3. SwitchingPlan[n + 1] # "region_confirm"
        BY <3>4, SwitchingWords
      <4>4. SwitchingPlan[n + 1] \in {"login", "home_region"} => LabelMatchesSite(page'.region, asked.site)
        <5>1. SwitchingPlan[n + 1] \in {"login", "home_region"} => n \in {1, 2}
          BY <3>4, SwitchingWords
        <5>2. n \in {1, 2} => what \in {"region_confirm", "login"}
          BY <3>1, SwitchingWords
        <5> QED BY <5>1, <5>2
      <4>5. (page.at \in PlaceFor(Head(run.todo), page.at))'
        BY <3>2, <3>4, <4>2
      <4> QED BY <4>2, <4>3, <4>4, <4>5 DEF WellPlaced
    <3> QED BY <3>3, <3>4
  <2> QED BY <2>1, <2>2
<1>3. CASE run.stage = 2
  <2>1. PICK n \in 1..12 : what = Stage2[n] /\ run'.todo = Left(Stage2, n + 1)
    BY <1>3, Packing
  <2>2. /\ n = 12 => page'.at \in PlaceAfter(2)
        /\ n # 12 => page'.at \in PlaceFor(Stage2[n + 1], page'.at)
    BY <2>1, PackingReaches
  <2>3. CASE n = 12
    <3>1. run'.todo = <<>>
      BY <2>1, <2>3, LeftNone, Stage2Words
    <3> QED BY <1>3, <2>2, <2>3, <3>1
  <2>4. CASE n # 12
    <3>1. n + 1 \in 1..Len(Stage2)
      BY <2>1, <2>4, Stage2Words
    <3>2. run'.todo # <<>> /\ Head(run'.todo) = Stage2[n + 1]
      BY <2>1, <3>1, LeftStep, Stage2Words, ZenonT(60)
    <3>3. Stage2[n + 1] \notin {"region_confirm", "login", "home_region"}
      <4>1. CASE n <= 6
        BY <4>1, PackingWords
      <4>2. CASE n > 6
        BY <2>4, <4>2, PackingWords
      <4> QED BY <4>1, <4>2
    <3>4. (page.at \in PlaceFor(Head(run.todo), page.at))'
      BY <2>2, <2>4, <3>2
    <3> QED BY <3>2, <3>3, <3>4 DEF WellPlaced
  <2> QED BY <2>3, <2>4
<1>4. CASE run.stage = 3
  <2> DEFINE full == FullPlan(page.layout)
  <2>1. PICK n \in 1..Len(full) : what = full[n] /\ run'.todo = Left(full, n + 1)
    BY <1>4, Carrying
  <2>2. full \in Seq(WordsOf(full)) /\ Len(full) \in Nat
    BY Stage3Words
  <2>3. /\ n = Len(full) => page'.at \in PlaceAfter(3)
        /\ n # Len(full) => page'.at \in PlaceFor(full[n + 1], page'.at)
    BY <2>1, CarrierReaches
  <2>4. CASE n = Len(full)
    <3>1. run'.todo = <<>>
      BY <2>1, <2>2, <2>4, LeftNone
    <3> QED BY <1>4, <2>3, <2>4, <3>1
  <2>5. CASE n # Len(full)
    <3>1. n + 1 \in 1..Len(full)
      BY <2>1, <2>2, <2>5
    <3>2. run'.todo # <<>> /\ Head(run'.todo) = full[n + 1]
      BY <2>1, <2>2, <3>1, LeftStep, ZenonT(60)
    <3>3. full[n + 1] \notin {"region_confirm", "login", "home_region"}
      BY <3>1, CarrierWord DEF StageWords
    <3>4. (page.at \in PlaceFor(Head(run.todo), page.at))'
      BY <2>3, <2>5, <3>2
    <3> QED BY <3>2, <3>3, <3>4 DEF WellPlaced
  <2> QED BY <2>4, <2>5
<1> QED BY <1>1, <1>2, <1>3, <1>4
----------------------------------------------------------------------------
(***************************************************************************)
(* How a step changes the page and the run.                                *)
(***************************************************************************)
SameCodes == page'.tab = page.tab /\ page'.typed = page.typed /\ page'.shipped = page.shipped

(* The page is another place, and nothing else. *)
Elsewhere ==
  /\ page'.region = page.region /\ page'.chosen = page.chosen /\ page'.agl = page.agl
  /\ page'.skus = page.skus /\ page'.packing = page.packing /\ page'.layout = page.layout
  /\ page'.mode = page.mode /\ page'.carrier = page.carrier /\ page'.ship = page.ship
  /\ page'.deliver = page.deliver /\ SameCodes

(* A place of which no more is said than of the one before. *)
NoFurther(a, b) ==
  /\ b \in Home \cup Unlisted \cup {"listed"} \cup Confirmed
  /\ b \notin Home => a \notin Home
  /\ b \notin Home \cup Unlisted => a \notin Home \cup Unlisted
  /\ b \in Confirmed => a \in Confirmed
  /\ b \in Packed => a \in Packed
  /\ b \in Accepted => a \in Accepted

GoesOn ==
  /\ IsRun(run')
  /\ run'.stage = run.stage /\ run'.state = "running"
  /\ run'.met \in BOOLEAN /\ (run.met => run'.met)
  /\ run'.clicked \in Nat /\ run'.turned \in Nat

IsDone ==
  /\ GoesOn
  /\ run'.todo = Tail(run.todo) /\ run'.turned = 0 /\ run'.shown = <<>>

IsRepeated ==
  /\ GoesOn
  /\ run'.todo = run.todo /\ run'.filled = run.filled

LEMMA KnownLayout == ASSUME Types PROVE page.layout \in LayoutNames
  BY PagesAssumption DEF Types, LayoutNames

LEMMA CodesKept ==
  ASSUME CodesAreRight, SameCodes
  PROVE  CodesAreRight'
  BY DEF CodesAreRight, SameCodes

LEMMA PageKept ==
  ASSUME Types, UNCHANGED page
  PROVE  IsPage(page') /\ Elsewhere /\ SameCodes
  BY DEF Types, Elsewhere, SameCodes

LEMMA PageMoved ==
  ASSUME IsPage(page), NEW a, page' = [page EXCEPT !.at = a]
  PROVE  IsPage(page') /\ Elsewhere /\ SameCodes /\ page'.at = a
  BY DEF IsPage, Elsewhere, SameCodes

LEMMA RightElsewhere ==
  ASSUME Types, PageIsRight, UNCHANGED asked, Elsewhere, NoFurther(page.at, page'.at)
  PROVE  PageIsRight'
<1>1. /\ (page.at \notin Home => LabelMatchesSite(page.region, asked.site))'
      /\ (page.at \in Home \cup Unlisted \cup {"listed"} \cup Confirmed)'
  BY DEF PageIsRight, Elsewhere, NoFurther
<1>2. (page.at \notin Home \cup Unlisted => page.skus = LoadConsignmentSummary(asked.rows))'
  BY DEF PageIsRight, Elsewhere, NoFurther
<1>3. (page.at \in Confirmed => ~page.agl)'
  BY DEF PageIsRight, Elsewhere, NoFurther
<1>4. (page.at \in Packed => page.packing = Sheet)'
  BY DEF PageIsRight, Elsewhere, NoFurther, Sheet
<1>5. (page.at \in Accepted /\ page.layout \in {"3_2", "ca"} =>
         page.mode = Mode /\ page.carrier = "OTHER" /\ page.ship = asked.today /\ page.deliver = Target)'
  BY DEF PageIsRight, Elsewhere, NoFurther, Mode, Target
<1> QED BY <1>1, <1>2, <1>3, <1>4, <1>5 DEF PageIsRight

LEMMA NoFurtherThere ==
  ASSUME PageIsRight
  PROVE  NoFurther(page.at, page.at)
  BY DEF PageIsRight, NoFurther

LEMMA KeepsElsewhere ==
  ASSUME Elsewhere, NEW what, what # "fill_sheet" => run'.filled = run.filled
  PROVE  Keeps(what)
  BY DEF Elsewhere, Keeps

(* A step of stages 1 to 3 that is done. *)
LEMMA StepDone ==
  ASSUME ShipmentInv, OnTheWay, run.stage # 4, UNCHANGED asked,
         IsPage(page'), SameCodes \/ CodesAreRight', PageIsRight', IsDone,
         Keeps(Head(run.todo)), SeesTo(Head(run.todo)),
         ~run'.met =>
           /\ page'.at \in Reached(Head(run.todo), page.layout, page.at)
           /\ Head(run.todo) \in {"region_confirm", "login"} => LabelMatchesSite(page'.region, asked.site)
  PROVE  ShipmentInv'
<1>1. page.layout \in LayoutNames
  BY KnownLayout DEF ShipmentInv
<1>2. Types'
  BY DEF ShipmentInv, Types, IsDone, GoesOn, Keeps
<1>3. CodesAreRight'
  BY CodesKept DEF ShipmentInv
<1>4. StageFollows'
  BY <1>1, DoneFollows DEF ShipmentInv, IsDone, GoesOn
<1>5. FinishedIsShipped'
  BY DEF FinishedIsShipped, IsDone, GoesOn
<1>6. Undisturbed'
  <2>1. ASSUME ~run'.met
        PROVE  IF run'.todo = <<>> THEN page'.at \in PlaceAfter(run.stage) ELSE WellPlaced(Head(run.todo))'
    BY <1>1, <2>1, DonePlaces DEF ShipmentInv, IsDone
  <2> QED BY <2>1 DEF Undisturbed, IsDone, GoesOn
<1>7. CalendarIsNear'
  BY DEF CalendarIsNear, IsDone
<1> QED BY <1>2, <1>3, <1>4, <1>5, <1>6, <1>7 DEF ShipmentInv

(* A step of stages 1 to 3 that is still to do. *)
LEMMA StepRepeated ==
  ASSUME ShipmentInv, OnTheWay, run.stage # 4, UNCHANGED asked,
         IsPage(page'), SameCodes, PageIsRight', CalendarIsNear', IsRepeated,
         Keeps(Head(run.todo)),
         ~run'.met => BackAtStep2' \/ WellPlaced(Head(run.todo))'
  PROVE  ShipmentInv'
<1>1. page.layout \in LayoutNames
  BY KnownLayout DEF ShipmentInv
<1>2. Types'
  BY DEF ShipmentInv, Types, IsRepeated, GoesOn, Keeps
<1>3. CodesAreRight'
  BY CodesKept DEF ShipmentInv
<1>4. StageFollows'
  BY <1>1, SameFollows DEF ShipmentInv, IsRepeated, GoesOn
<1>5. FinishedIsShipped'
  BY DEF FinishedIsShipped, IsRepeated, GoesOn
<1>6. Undisturbed'
  BY DEF Undisturbed, IsRepeated, GoesOn, OnTheWay
<1> QED BY <1>2, <1>3, <1>4, <1>5, <1>6 DEF ShipmentInv

(* A stage that ends without its work done. *)
LEMMA StageEnds ==
  ASSUME ShipmentInv, UNCHANGED asked, IsPage(page'), page'.layout = page.layout, SameCodes, PageIsRight',
         NEW s \in {"failed", "rejected"}, run' = [run EXCEPT !.state = s, !.met = TRUE]
  PROVE  ShipmentInv'
<1>1. /\ IsRun(run') /\ run'.state = s /\ run'.met = TRUE
      /\ run'.stage = run.stage /\ run'.shown = run.shown /\ run'.turned = run.turned
      /\ run'.clicked = run.clicked
  BY DEF ShipmentInv, Types, IsRun
<1>2. Types'
  BY <1>1 DEF ShipmentInv, Types
<1>3. CodesAreRight'
  BY CodesKept DEF ShipmentInv
<1>4. StageFollows' /\ FinishedIsShipped' /\ Undisturbed'
  BY <1>1 DEF StageFollows, FinishedIsShipped, Undisturbed
<1>5. CalendarIsNear'
  BY <1>1 DEF ShipmentInv, CalendarIsNear
<1> QED BY <1>2, <1>3, <1>4, <1>5 DEF ShipmentInv

LEMMA StageFails ==
  ASSUME ShipmentInv, UNCHANGED asked, IsPage(page'), page'.layout = page.layout, SameCodes, PageIsRight',
         NEW m \in BOOLEAN, Fail(m), run.met \/ m
  PROVE  ShipmentInv'
<1>1. run' = [run EXCEPT !.state = "failed", !.met = TRUE]
  <2>1. run' = [run EXCEPT !.state = "failed", !.met = run.met \/ m]
    BY DEF Fail, ShipmentInv, Types, IsRun
  <2>2. (run.met \/ m) = TRUE
    BY DEF ShipmentInv, Types
  <2> QED BY <2>1, <2>2
<1> QED BY <1>1, StageEnds

LEMMA StageFailsHere ==
  ASSUME ShipmentInv, UNCHANGED asked, UNCHANGED page, NEW m \in BOOLEAN, Fail(m), run.met \/ m
  PROVE  ShipmentInv'
<1>1. IsPage(page') /\ Elsewhere /\ SameCodes
  BY PageKept DEF ShipmentInv
<1>2. PageIsRight'
  BY <1>1, RightElsewhere, NoFurtherThere DEF ShipmentInv
<1> QED BY <1>1, <1>2, StageFails DEF Elsewhere

(* The page of a step of an undisturbed stage. *)
LEMMA InPlace ==
  ASSUME Undisturbed, OnTheWay, ~BackAtStep2
  PROVE  ~run.met => WellPlaced(Head(run.todo))
  BY DEF Undisturbed, OnTheWay

LEMMA ThenIsDone ==
  ASSUME ShipmentInv, OnTheWay, NEW m \in BOOLEAN, run.met => m,
         run' = [Then EXCEPT !.met = m]
  PROVE  IsDone /\ run'.filled = run.filled /\ run'.met = m
  BY DEF ShipmentInv, Types, IsRun, OnTheWay, Then, IsDone, GoesOn

LEMMA ProceedIsDone ==
  ASSUME ShipmentInv, OnTheWay, Proceed
  PROVE  IsDone /\ run'.filled = run.filled /\ run'.met = run.met
  BY DEF ShipmentInv, Types, IsRun, OnTheWay, Then, Proceed, IsDone, GoesOn

LEMMA RepeatIsRepeated ==
  ASSUME ShipmentInv, OnTheWay, Repeat
  PROVE  /\ IsRepeated /\ run'.met = run.met
         /\ run'.shown = run.shown /\ run'.turned = run.turned
  BY DEF ShipmentInv, Types, IsRun, OnTheWay, Repeat, IsRepeated, GoesOn

LEMMA SameIsRepeated ==
  ASSUME ShipmentInv, OnTheWay, UNCHANGED run
  PROVE  /\ IsRepeated /\ run'.met = run.met
         /\ run'.shown = run.shown /\ run'.turned = run.turned
  BY DEF ShipmentInv, Types, OnTheWay, IsRepeated, GoesOn

LEMMA CalendarKept ==
  ASSUME CalendarIsNear, UNCHANGED asked, run'.shown = run.shown, run'.turned = run.turned,
         run'.state = run.state, run'.stage = run.stage, run'.todo = run.todo
  PROVE  CalendarIsNear'
  BY DEF CalendarIsNear, DateFor, Target
----------------------------------------------------------------------------
(***************************************************************************)
(* Clicks and waits.                                                       *)
(***************************************************************************)
LEMMA TodoIs ==
  ASSUME ShipmentInv, NEW what, Todo(what)
  PROVE  /\ OnTheWay /\ ~BackAtStep2 /\ Head(run.todo) = what /\ page.at \in WorksOn(what)
         /\ run.stage \in 1..4 /\ what \in StageWords(run.stage) /\ page.layout \in LayoutNames
<1>1. OnTheWay /\ ~BackAtStep2 /\ Head(run.todo) = what /\ page.at \in WorksOn(what)
  BY DEF Todo, Running, OnTheWay
<1>2. page.layout \in LayoutNames
  BY KnownLayout DEF ShipmentInv
<1> QED BY <1>1, <1>2, WordsOfStages DEF ShipmentInv

(* The step of a stage that nothing has met is taken in its place. *)
LEMMA TodoInPlace ==
  ASSUME ShipmentInv, NEW what, Todo(what), ~run.met
  PROVE  WellPlaced(what)
<1>1. OnTheWay /\ ~BackAtStep2 /\ Head(run.todo) = what
  BY TodoIs
<1> QED BY <1>1, InPlace DEF ShipmentInv

LEMMA DoneHere ==
  ASSUME ShipmentInv, NEW what, Todo(what), run.stage # 4, UNCHANGED asked, UNCHANGED page,
         IsDone, SeesTo(what), what # "fill_sheet" => run'.filled = run.filled,
         ~run'.met => page.at \in Reached(what, page.layout, page.at) /\ ~run.met
  PROVE  ShipmentInv'
<1>1. OnTheWay /\ Head(run.todo) = what
  BY TodoIs
<1>2. IsPage(page') /\ Elsewhere /\ SameCodes
  BY PageKept DEF ShipmentInv
<1>3. PageIsRight'
  BY <1>2, RightElsewhere, NoFurtherThere DEF ShipmentInv
<1>4. Keeps(what)
  BY <1>2, KeepsElsewhere
<1>5. ASSUME ~run'.met
      PROVE  /\ page'.at \in Reached(what, page.layout, page.at)
             /\ what \in {"region_confirm", "login"} => LabelMatchesSite(page'.region, asked.site)
  <2>1. WellPlaced(what)
    BY <1>5, TodoInPlace
  <2>2. page.at \in Reached(what, page.layout, page.at)
    BY <1>5
  <2>3. what # "region_confirm"
    <3>1. SUFFICES ASSUME what = "region_confirm" PROVE FALSE
      OBVIOUS
    <3>2. page.at = "switcher"
      BY <2>1, <3>1 DEF WellPlaced, PlaceFor
    <3> QED BY <2>2, <3>1, <3>2 DEF Reached
  <2>4. what = "login" => LabelMatchesSite(page'.region, asked.site)
    BY <2>1 DEF WellPlaced
  <2> QED BY <2>2, <2>3, <2>4
<1> QED BY <1>1, <1>2, <1>3, <1>4, <1>5, StepDone

(* A step whose page has moved as a click moves it, and of which nothing is to be seen to. *)
LEMMA DoneElsewhere ==
  ASSUME ShipmentInv, NEW what, Todo(what), run.stage # 4, UNCHANGED asked, IsPage(page'), Elsewhere,
         PageIsRight', IsDone, SeesTo(what), run'.filled = run.filled,
         what \notin {"region_confirm", "login"}, page'.at \in Reached(what, page.layout, page.at)
  PROVE  ShipmentInv'
<1>1. OnTheWay /\ Head(run.todo) = what
  BY TodoIs
<1>2. Keeps(what) /\ SameCodes
  BY KeepsElsewhere DEF Elsewhere
<1> QED BY <1>1, <1>2, StepDone

(* A click that leads to a place of which more is known. *)
LEMMA ClickLeads ==
  ASSUME ShipmentInv, UNCHANGED asked, NEW what \in PlainClicks, Todo(what), what # "region_confirm",
         Elsewhere, <<page.at, what, page'.at>> \in Leads
  PROVE  PageIsRight'
<1>1. CASE what = "pack_single_units"
  <2>1. page.at = "listed" /\ page'.at = "confirmed"
    BY <1>1, LeadsTo
  <2>2. ~page.agl
    BY <1>1, TodoIs, SeenTo DEF ShipmentInv
  <2>3. /\ LabelMatchesSite(page.region, asked.site)
        /\ page.skus = LoadConsignmentSummary(asked.rows)
    BY <2>1 DEF ShipmentInv, PageIsRight, Home, Unlisted
  <2> QED BY <2>1, <2>2, <2>3
          DEF Elsewhere, PageIsRight, Home, Unlisted, Confirmed, Packed, OnStep3, Accepted
<1>2. CASE what = "accept_fees"
  <2>1. page.at = "form" /\ page'.at = "accepted"
    BY <1>2, LeadsTo
  <2>2. page.layout \in NewLayouts =>
          page.mode = Mode /\ page.carrier = "OTHER" /\ page.ship = asked.today /\ page.deliver = Target
    BY <1>2, TodoIs, SeenTo DEF ShipmentInv
  <2>3. /\ LabelMatchesSite(page.region, asked.site)
        /\ page.skus = LoadConsignmentSummary(asked.rows)
        /\ ~page.agl /\ page.packing = Sheet
    BY <2>1 DEF ShipmentInv, PageIsRight, Home, Unlisted, Confirmed, Packed, OnStep3
  <2>4. /\ (page.at \in Accepted /\ page.layout \in {"3_2", "ca"} =>
              page.mode = Mode /\ page.carrier = "OTHER" /\ page.ship = asked.today /\ page.deliver = Target)'
    BY <2>2 DEF Elsewhere, NewLayouts, Mode, Target
  <2>5. /\ (page.at \in Confirmed => ~page.agl)' /\ (page.at \in Packed => page.packing = Sheet)'
        /\ (page.at \notin Home => LabelMatchesSite(page.region, asked.site))'
        /\ (page.at \notin Home \cup Unlisted => page.skus = LoadConsignmentSummary(asked.rows))'
    BY <2>3 DEF Elsewhere, Sheet
  <2>6. (page.at \in Home \cup Unlisted \cup {"listed"} \cup Confirmed)'
    BY <2>1 DEF Confirmed, Packed, Accepted
  <2> QED BY <2>4, <2>5, <2>6 DEF PageIsRight
<1>3. CASE what \notin {"pack_single_units", "accept_fees"}
  <2>1. \/ page.at = "units" /\ page'.at = "several"
        \/ page.at = "several" /\ page'.at = "inputs"
        \/ page.at = "inputs" /\ page'.at = "options"
        \/ page.at = "options" /\ page'.at = "count"
        \/ page.at = "count" /\ page'.at = "counted"
        \/ page.at = "counted" /\ page'.at = "sheet"
        \/ page.at = "packed" /\ page'.at = "carrier"
        \/ page.at \in OnStep3 /\ page'.at \in OnStep3
        \/ page.at = "accepted" /\ page'.at = "tracking"
    BY <1>3, LeadsTo DEF PlainClicks, OnStep3
  <2>2. NoFurther(page.at, page'.at)
    <3>1. CASE page.at \in OnStep3 /\ page'.at \in OnStep3
      BY <3>1 DEF NoFurther, Home, Unlisted, Confirmed, Packed, OnStep3, Accepted
    <3>2. CASE page.at = "accepted" /\ page'.at = "tracking"
      BY <3>2 DEF NoFurther, Home, Unlisted, Confirmed, Packed, OnStep3, Accepted
    <3>3. CASE page.at = "packed" /\ page'.at = "carrier"
      BY <3>3 DEF NoFurther, Home, Unlisted, Confirmed, Packed, OnStep3, Accepted
    <3>4. CASE /\ page.at \in {"units", "several", "inputs", "options", "count", "counted"}
               /\ page'.at \in {"several", "inputs", "options", "count", "counted", "sheet"}
      BY <3>4 DEF NoFurther, Home, Unlisted, Confirmed, Packed, OnStep3, Accepted
    <3> QED BY <2>1, <3>1, <3>2, <3>3, <3>4
  <2> QED BY <2>2, RightElsewhere DEF ShipmentInv
<1> QED BY <1>1, <1>2, <1>3

(* The click on the way brings the page where it should. *)
LEMMA ClickReaches ==
  ASSUME NEW what \in PlainClicks, what # "region_confirm", page' \in AfterClick(what),
         page.layout \in LayoutNames, <<page.at, what, page'.at>> \in Leads
  PROVE  page'.at \in Reached(what, page.layout, page.at)
<1>1. CASE what = "own_carrier"
  <2>1. page'.at \in {"dialog", "form"}
    BY <1>1, LeadsTo
  <2>2. /\ page.layout = "legacy" => page'.at = "dialog"
        /\ page.layout \notin {"legacy", "3_2"} => page'.at = "form"
    BY <1>1 DEF AfterClick, EnterOwnCarrier
  <2> QED BY <1>1, <2>1, <2>2 DEF Reached
<1>2. CASE what # "own_carrier"
  BY <1>2, LeadsTo DEF Reached, PlainClicks
<1> QED BY <1>1, <1>2

LEMMA ClickKeeps ==
  ASSUME ShipmentInv, NEW what \in PlainClicks, Todo(what), WaitForClick(what), UNCHANGED asked
  PROVE  ShipmentInv'
<1>1. /\ OnTheWay /\ Head(run.todo) = what /\ ~BackAtStep2 /\ page.layout \in LayoutNames
      /\ what \in StageWords(run.stage) /\ run.stage \in 1..4
  BY TodoIs
<1>2. run.stage # 4
  BY <1>1 DEF StageWords, PlainClicks
<1>3. SeesTo(what) /\ what \notin {"fill_sheet", "login"}
  BY DEF SeesTo, PlainClicks
<1>4. IsPage(page)
  BY DEF ShipmentInv, Types
<1>5. CASE Offers(page, what) /\ page' \in AfterClick(what) /\ Proceed
  <2>1. IsDone /\ run'.filled = run.filled /\ run'.met = run.met
    BY <1>1, <1>5, ProceedIsDone
  <2>2. CASE what = "region_confirm"
    <3>1. PICK p \in Led(page, what) : page' = [p EXCEPT !.region = page.chosen]
      BY <1>5, <2>2 DEF AfterClick, ConfirmRegion
    <3>2. p = [page EXCEPT !.at = p.at] /\ <<page.at, what, p.at>> \in Leads
      BY <1>4, LedIs
    <3>3. p.at \in {"login", "home"}
      BY <2>2, <3>2, LeadsTo
    <3>4. /\ page' = [page EXCEPT !.at = p.at, !.region = page.chosen]
          /\ page'.at = p.at /\ page'.region = page.chosen /\ page'.layout = page.layout
      BY <1>4, <3>1, <3>2 DEF IsPage
    <3>5. IsPage(page') /\ SameCodes
      BY <1>4, <3>4 DEF IsPage, SameCodes
    <3>6. Keeps(what)
      BY <1>4, <2>1, <2>2, <3>4 DEF IsPage, Keeps
    <3>7. PageIsRight'
      BY <3>3, <3>4 DEF PageIsRight, Home, Unlisted, Confirmed, Packed, OnStep3, Accepted
    <3>8. page'.at \in Reached(what, page.layout, page.at)
      BY <2>2, <3>3, <3>4 DEF Reached
    <3>9. ~run'.met => LabelMatchesSite(page'.region, asked.site)
      <4>1. ~run'.met => WellPlaced(what)
        BY <2>1, TodoInPlace
      <4> QED BY <2>2, <3>4, <4>1 DEF WellPlaced
    <3> QED BY <1>1, <1>2, <1>3, <2>1, <3>5, <3>6, <3>7, <3>8, <3>9, StepDone
  <2>3. CASE what # "region_confirm"
    <3>1. page' \in Led(page, what)
      BY <1>5, <2>3 DEF AfterClick, EnterOwnCarrier
    <3>2. page' = [page EXCEPT !.at = page'.at] /\ <<page.at, what, page'.at>> \in Leads
      BY <1>4, <3>1, LedIs
    <3> DEFINE a == page'.at
    <3>3. page' = [page EXCEPT !.at = a]
      BY <3>2
    <3> HIDE DEF a
    <3>4. IsPage(page') /\ Elsewhere
      BY <1>4, <3>3, PageMoved
    <3>5. PageIsRight'
      BY <2>3, <3>2, <3>4, ClickLeads
    <3>6. page'.at \in Reached(what, page.layout, page.at)
      BY <1>1, <1>5, <2>3, <3>2, ClickReaches
    <3> QED BY <1>2, <1>3, <2>1, <2>3, <3>4, <3>5, <3>6, DoneElsewhere
  <2> QED BY <2>2, <2>3
<1>6. CASE run' = [Then EXCEPT !.met = TRUE] /\ UNCHANGED page
  <2>1. IsDone /\ run'.filled = run.filled /\ run'.met
    BY <1>1, <1>6, ThenIsDone
  <2> QED BY <1>2, <1>3, <1>6, <2>1, DoneHere
<1>7. CASE ~Offers(page, what) /\ Fail(FALSE) /\ UNCHANGED page
  <2>1. run.met
    <3>1. SUFFICES ASSUME ~run.met PROVE FALSE
      BY DEF ShipmentInv, Types
    <3>2. WellPlaced(what)
      BY <3>1, TodoInPlace
    <3> QED BY <1>7, <3>2, OfferedInPlace DEF WellPlaced
  <2> QED BY <1>7, <2>1, StageFailsHere
<1> QED BY <1>5, <1>6, <1>7 DEF WaitForClick
LEMMA WaitKeeps ==
  ASSUME ShipmentInv, NEW what \in Awaited, Todo(what), WaitForCondition(what), UNCHANGED asked
  PROVE  ShipmentInv'
<1>1. /\ OnTheWay /\ Head(run.todo) = what /\ what \in StageWords(run.stage) /\ run.stage \in 1..4
  BY TodoIs
<1>2. run.stage # 4 /\ SeesTo(what)
  BY <1>1 DEF StageWords, Awaited, SeesTo
<1>3. CASE Arrived(what)
  <2>1. Proceed /\ UNCHANGED page
    BY <1>3 DEF WaitForCondition
  <2>2. IsDone /\ run'.filled = run.filled /\ run'.met = run.met
    BY <1>1, <2>1, ProceedIsDone
  <2>3. page.at \in Reached(what, page.layout, page.at)
    BY <1>3 DEF Arrived, Reached, Awaited
  <2> QED BY <1>2, <2>1, <2>2, <2>3, DoneHere
<1>4. CASE ~Arrived(what)
  <2>1. Fail(FALSE) /\ UNCHANGED page
    BY <1>4 DEF WaitForCondition
  <2>2. run.met
    <3>1. SUFFICES ASSUME ~run.met PROVE FALSE
      BY DEF ShipmentInv, Types
    <3>2. page.at \in PlaceFor(what, page.at)
      BY <3>1, TodoInPlace DEF WellPlaced
    <3> QED BY <1>4, <3>2 DEF Arrived, PlaceFor, Awaited
  <2> QED BY <2>1, <2>2, StageFailsHere
<1> QED BY <1>3, <1>4

LEMMA TimeoutKeeps ==
  ASSUME ShipmentInv, Timeout, UNCHANGED asked
  PROVE  ShipmentInv'
  BY StageFailsHere DEF Timeout

LEMMA NothingKeeps ==
  ASSUME ShipmentInv, NothingToWorkOn, UNCHANGED asked
  PROVE  ShipmentInv'
<1>1. OnTheWay /\ ~BackAtStep2 /\ page.at \notin WorksOn(Head(run.todo))
  BY DEF NothingToWorkOn, Running, OnTheWay
<1>2. run.met
  <2>1. SUFFICES ASSUME ~run.met PROVE FALSE
    BY DEF ShipmentInv, Types
  <2>2. page.at \in PlaceFor(Head(run.todo), page.at)
    BY <1>1, <2>1, InPlace DEF ShipmentInv, WellPlaced
  <2> QED BY <1>1, <2>2, PlaceIsWorkedOn
<1>3. run' = [run EXCEPT !.state = "failed", !.met = @ \/ FALSE]
  BY <1>2 DEF NothingToWorkOn, ShipmentInv, Types, IsRun
<1> QED BY <1>2, <1>3, StageFailsHere DEF NothingToWorkOn, Fail

----------------------------------------------------------------------------
(***************************************************************************)
(* Stage 1.                                                                *)
(***************************************************************************)
LEMMA RegionKeeps ==
  ASSUME ShipmentInv, SwitchRegion, UNCHANGED asked
  PROVE  ShipmentInv'
<1>1. Todo("region")
  BY DEF SwitchRegion
<1>2. /\ OnTheWay /\ Head(run.todo) = "region" /\ "region" \in StageWords(run.stage)
      /\ run.stage \in 1..4 /\ page.layout \in LayoutNames
  BY <1>1, TodoIs
<1>3. run.stage = 1
  BY <1>2 DEF StageWords
<1>4. CASE LabelMatchesSite(page.region, asked.site) /\ Proceed /\ UNCHANGED page
  <2>1. Proceed /\ UNCHANGED page
    BY <1>4
  <2>2. IsDone /\ run'.filled = run.filled /\ run'.met = run.met
    BY <1>2, <2>1, ProceedIsDone
  <2>3. SeesTo("region")
    BY <1>4, <2>1 DEF SeesTo
  <2>4. page.at \in Reached("region", page.layout, page.at)
    BY DEF Reached
  <2> QED BY <1>1, <1>3, <2>1, <2>2, <2>3, <2>4, DoneHere
<1>5. CASE page' \in ChooseRegion([page EXCEPT !.at = "switcher"], asked.site)
           /\ run' = [Then EXCEPT !.todo = <<"region_confirm", "login", "home_region">> \o @]
           /\ ~LabelMatchesSite(page.region, asked.site)
  <2>1. run.todo = Stage1 /\ Tail(run.todo) = Left(SwitchingPlan, 4)
    <3>1. SUFFICES ASSUME run.todo # Stage1 PROVE FALSE
      BY Switching
    <3>2. PICK n \in 1..9 : Head(run.todo) = SwitchingPlan[n]
      BY <1>2, <1>3, <3>1, Uploading DEF ShipmentInv
    <3> QED BY <1>2, <3>2, SwitchingWords
  <2>2. /\ page' \in ChooseRegion([page EXCEPT !.at = "switcher"], asked.site)
        /\ run' = [Then EXCEPT !.todo = <<"region_confirm", "login", "home_region">> \o @]
    BY <1>5
  <2>3. PICK label \in Aliases[asked.site] :
          page' = [[page EXCEPT !.at = "switcher"] EXCEPT !.chosen = label]
    BY <2>2 DEF ChooseRegion
  <2>4. /\ IsPage(page') /\ SameCodes /\ page'.at = "switcher" /\ page'.chosen = label
        /\ page'.layout = page.layout
    BY <2>3 DEF ShipmentInv, Types, IsPage, SameCodes
  <2>5. /\ IsRun(run') /\ run'.stage = 1 /\ run'.state = "running" /\ run'.met = run.met
        /\ run'.clicked = 0 /\ run'.turned = 0 /\ run'.shown = <<>>
        /\ run'.todo = <<"region_confirm", "login", "home_region">> \o Tail(run.todo)
    BY <1>2, <1>3, <2>2 DEF ShipmentInv, Types, IsRun, Then, OnTheWay
  <2>6. run'.todo = Left(SwitchingPlan, 1)
    BY <2>1, <2>5, Switching
  <2>7. run'.todo # <<>> /\ Head(run'.todo) = "region_confirm"
    <3>1. 1 \in 1..Len(SwitchingPlan)
      BY Switching
    <3> QED BY <2>6, <3>1, LeftStep, Switching, SwitchingWords
  <2>8. Types'
    BY <2>4, <2>5 DEF ShipmentInv, Types
  <2>9. PageIsRight'
    BY <2>4 DEF PageIsRight, Home, Unlisted, Confirmed, Packed, OnStep3, Accepted
  <2>10. CodesAreRight'
    BY <2>4, CodesKept DEF ShipmentInv
  <2>11. StageFollows'
    <3>1. Stage1Follows'
      BY <2>6 DEF Stage1Follows
    <3> QED BY <2>5, <3>1 DEF StageFollows
  <2>12. FinishedIsShipped' /\ CalendarIsNear'
    BY <2>5 DEF FinishedIsShipped, CalendarIsNear
  <2>13. WellPlaced("region_confirm")'
    BY <2>4, <2>3 DEF WellPlaced, PlaceFor, LabelMatchesSite
  <2>14. Undisturbed'
    BY <2>5, <2>7, <2>13 DEF Undisturbed
  <2> QED BY <2>8, <2>9, <2>10, <2>11, <2>12, <2>14 DEF ShipmentInv
<1>6. CASE page' = [page EXCEPT !.at = "switcher"] /\ Fail(TRUE)
  <2>1. IsPage(page') /\ SameCodes /\ page'.at = "switcher" /\ page'.layout = page.layout
    BY <1>6 DEF ShipmentInv, Types, IsPage, SameCodes
  <2>2. PageIsRight'
    BY <2>1 DEF PageIsRight, Home, Unlisted, Confirmed, Packed, OnStep3, Accepted
  <2> QED BY <1>6, <2>1, <2>2, StageFails
<1> QED BY <1>4, <1>5, <1>6 DEF SwitchRegion

LEMMA LoginKeeps ==
  ASSUME ShipmentInv, VerifySellerCentralLogin, UNCHANGED asked
  PROVE  ShipmentInv'
<1>1. Todo("login")
  BY DEF VerifySellerCentralLogin
<1>2. /\ OnTheWay /\ Head(run.todo) = "login" /\ "login" \in StageWords(run.stage) /\ run.stage \in 1..4
  BY <1>1, TodoIs
<1>3. run.stage # 4 /\ SeesTo("login")
  BY <1>2 DEF StageWords, SeesTo
<1>4. CASE page.at # "login" /\ Proceed /\ UNCHANGED page
  <2>1. IsDone /\ run'.filled = run.filled /\ run'.met = run.met
    BY <1>2, <1>4, ProceedIsDone
  <2>2. ~run.met => page.at \in Reached("login", page.layout, page.at)
    <3>1. ~run.met => page.at \in {"login", "home"}
      BY <1>1, TodoInPlace DEF WellPlaced, PlaceFor
    <3> QED BY <1>4, <3>1 DEF Reached
  <2> QED BY <1>1, <1>3, <1>4, <2>1, <2>2, DoneHere
<1>5. CASE page.at = "login" /\ page' \in Led(page, "login_button") /\ Repeat
  <2>1. page' = [page EXCEPT !.at = page'.at] /\ <<page.at, "login_button", page'.at>> \in Leads
    BY <1>5, LedIs DEF ShipmentInv, Types
  <2>2. page'.at \in {"login", "home"}
    BY <2>1, LeadsTo
  <2> DEFINE a == page'.at
  <2>3. page' = [page EXCEPT !.at = a]
    BY <2>1
  <2> HIDE DEF a
  <2>4. IsPage(page') /\ Elsewhere /\ SameCodes
    BY <2>3, PageMoved DEF ShipmentInv, Types
  <2>5. NoFurther(page.at, page'.at)
    BY <1>5, <2>2 DEF NoFurther, Home, Unlisted, Confirmed, Packed, OnStep3, Accepted
  <2>6. PageIsRight'
    BY <2>4, <2>5, RightElsewhere DEF ShipmentInv
  <2>7. /\ IsRepeated /\ run'.met = run.met
        /\ run'.shown = run.shown /\ run'.turned = run.turned
    BY <1>2, <1>5, RepeatIsRepeated
  <2>8. CalendarIsNear'
    BY <2>7, <1>2, CalendarKept DEF ShipmentInv, IsRepeated, GoesOn, OnTheWay
  <2>9. Keeps("login")
    BY <2>4, <2>7, KeepsElsewhere DEF IsRepeated
  <2>10. ~run'.met => WellPlaced("login")'
    <3>1. ~run'.met => LabelMatchesSite(page.region, asked.site)
      BY <1>1, <2>7, TodoInPlace DEF WellPlaced
    <3> QED BY <2>2, <2>4, <3>1 DEF WellPlaced, PlaceFor, Elsewhere
  <2>11. ~run'.met => WellPlaced(Head(run.todo))'
    BY <1>2, <2>7, <2>10 DEF IsRepeated
  <2> QED BY <1>2, <1>3, <2>4, <2>6, <2>7, <2>8, <2>9, <2>11, StepRepeated
<1>6. CASE Fail(TRUE) /\ UNCHANGED page
  BY <1>6, StageFailsHere
<1> QED BY <1>4, <1>5, <1>6 DEF VerifySellerCentralLogin

LEMMA HomeKeeps ==
  ASSUME ShipmentInv, WaitForHomeRegionMatch, UNCHANGED asked
  PROVE  ShipmentInv'
<1>1. Todo("home_region") /\ UNCHANGED page
  BY DEF WaitForHomeRegionMatch
<1>2. /\ OnTheWay /\ Head(run.todo) = "home_region" /\ "home_region" \in StageWords(run.stage)
      /\ run.stage \in 1..4
  BY <1>1, TodoIs
<1>3. run.stage # 4
  BY <1>2 DEF StageWords
<1>4. CASE page.at = "home" /\ LabelMatchesSite(page.region, asked.site)
  <2>1. Proceed
    BY <1>4 DEF WaitForHomeRegionMatch
  <2>2. IsDone /\ run'.filled = run.filled /\ run'.met = run.met
    BY <1>2, <2>1, ProceedIsDone
  <2>3. SeesTo("home_region") /\ page.at \in Reached("home_region", page.layout, page.at)
    BY <1>1, <1>4 DEF SeesTo, Reached
  <2> QED BY <1>1, <1>3, <2>2, <2>3, DoneHere
<1>5. CASE ~(page.at = "home" /\ LabelMatchesSite(page.region, asked.site))
  <2>1. Fail(FALSE)
    BY <1>5 DEF WaitForHomeRegionMatch
  <2>2. run.met
    <3>1. SUFFICES ASSUME ~run.met PROVE FALSE
      BY DEF ShipmentInv, Types
    <3>2. WellPlaced("home_region")
      BY <1>1, <3>1, TodoInPlace
    <3> QED BY <1>5, <3>2 DEF WellPlaced, PlaceFor
  <2> QED BY <1>1, <2>1, <2>2, StageFailsHere
<1> QED BY <1>4, <1>5
(* The ways "Send to Amazon" may open. *)
Ways(p) == {"start", "method", "template"} \cup (IF p.at = "listed" THEN {"listed"} ELSE {})

LEMMA WaysToOpen ==
  ASSUME NEW p, NEW q \in OpenSendToAmazon(p)
  PROVE  \E a \in Ways(p), g \in BOOLEAN : q = [p EXCEPT !.at = a, !.agl = g]
<1>1. PICK w \in Ways(p) \X BOOLEAN : q = [p EXCEPT !.at = w[1], !.agl = w[2]]
  BY DEF OpenSendToAmazon, Ways
<1>2. w[1] \in Ways(p) /\ w[2] \in BOOLEAN
  OBVIOUS
<1> QED BY <1>1, <1>2

LEMMA OpenKeeps ==
  ASSUME ShipmentInv, OpenSendToAmazonPage, UNCHANGED asked
  PROVE  ShipmentInv'
<1>1. Todo("open") /\ Proceed
  BY DEF OpenSendToAmazonPage
<1>2. /\ OnTheWay /\ Head(run.todo) = "open" /\ "open" \in StageWords(run.stage) /\ run.stage \in 1..4
      /\ page.layout \in LayoutNames
  BY <1>1, TodoIs
<1>3. run.stage # 4
  BY <1>2 DEF StageWords
<1>4. LabelMatchesSite(page.region, asked.site)
  BY <1>2, SeenTo DEF ShipmentInv
<1>5. PICK p \in OpenSendToAmazon(page) :
        page' = [p EXCEPT !.mode = "none", !.carrier = "none", !.ship = <<>>, !.deliver = <<>>,
                          !.tab = "none", !.typed = NoCodes, !.shipped = {}]
  BY DEF OpenSendToAmazonPage
<1>6. PICK a \in Ways(page), g \in BOOLEAN : p = [page EXCEPT !.at = a, !.agl = g]
  BY <1>5, WaysToOpen
<1>7. /\ page' = [page EXCEPT !.at = a, !.agl = g, !.mode = "none", !.carrier = "none", !.ship = <<>>,
                              !.deliver = <<>>, !.tab = "none", !.typed = NoCodes, !.shipped = {}]
  BY <1>5, <1>6 DEF ShipmentInv, Types, IsPage
<1>8. /\ IsPage(page') /\ page'.at = a /\ page'.region = page.region /\ page'.skus = page.skus
      /\ page'.layout = page.layout /\ page'.tab = "none" /\ page'.typed = NoCodes /\ page'.shipped = {}
  BY <1>7 DEF ShipmentInv, Types, IsPage
<1>9. CodesAreRight'
  <2>1. DOMAIN NoCodes = Labelled /\ \A s \in Labelled : NoCodes[s] = [row \in 1..Boxes[s] |-> <<>>]
    BY DEF NoCodes, Labelled
  <2> QED BY <1>8, <2>1 DEF CodesAreRight, Labelled
<1>10. PageIsRight'
  <2>1. a = "listed" => page.skus = LoadConsignmentSummary(asked.rows)
    <3>1. a = "listed" => page.at = "listed"
      BY <1>6 DEF Ways
    <3> QED BY <3>1 DEF ShipmentInv, PageIsRight, Home, Unlisted
  <2>2. a \in Unlisted \cup {"listed"}
    BY <1>6 DEF Ways, Unlisted
  <2> QED BY <1>4, <1>8, <2>1, <2>2 DEF PageIsRight, Home, Unlisted, Confirmed, Packed, OnStep3, Accepted
<1>11. IsDone /\ run'.filled = run.filled /\ run'.met = run.met
  BY <1>1, <1>2, ProceedIsDone
<1>12. Keeps("open") /\ SeesTo("open")
  BY <1>8, <1>11 DEF Keeps, SeesTo
<1>13. page'.at \in Reached("open", page.layout, page.at)
  BY <1>6, <1>8 DEF Reached, Ways, Unlisted
<1> QED BY <1>2, <1>3, <1>8, <1>9, <1>10, <1>11, <1>12, <1>13, StepDone

LEMMA UploadModeKeeps ==
  ASSUME ShipmentInv, OpenUploadMode, UNCHANGED asked
  PROVE  ShipmentInv'
<1>1. Todo("upload_mode")
  BY DEF OpenUploadMode
<1>2. /\ OnTheWay /\ Head(run.todo) = "upload_mode" /\ "upload_mode" \in StageWords(run.stage)
      /\ run.stage \in 1..4 /\ page.layout \in LayoutNames
  BY <1>1, TodoIs
<1>3. run.stage # 4 /\ run.stage = 1
  BY <1>2 DEF StageWords
<1>4. IsPage(page)
  BY DEF ShipmentInv, Types
<1>5. CASE page.at \in {"template", "listed"} /\ ~page.agl /\ Proceed /\ UNCHANGED page
  <2>1. IsDone /\ run'.filled = run.filled /\ run'.met = run.met
    BY <1>2, <1>5, ProceedIsDone
  <2>2. SeesTo("upload_mode") /\ page.at \in Reached("upload_mode", page.layout, page.at)
    BY <1>5 DEF SeesTo, Reached
  <2>3. ~run'.met => ~run.met
    BY <2>1
  <2> QED BY <1>1, <1>3, <1>5, <2>1, <2>2, <2>3, DoneHere
<1>6. CASE page.at \in {"template", "listed"} /\ page' = [page EXCEPT !.agl = FALSE] /\ UNCHANGED run
  <2>1. /\ IsPage(page') /\ SameCodes /\ page'.at = page.at /\ page'.agl = FALSE /\ page'.region = page.region
        /\ page'.skus = page.skus /\ page'.layout = page.layout
    BY <1>4, <1>6 DEF IsPage, SameCodes
  <2>2. PageIsRight'
    <3>1. /\ LabelMatchesSite(page.region, asked.site)
          /\ page.at \notin Unlisted => page.skus = LoadConsignmentSummary(asked.rows)
      BY <1>6 DEF ShipmentInv, PageIsRight, Home, Unlisted
    <3> QED BY <1>6, <2>1, <3>1 DEF PageIsRight, Home, Unlisted, Confirmed, Packed, OnStep3, Accepted
  <2>3. IsRepeated /\ run'.met = run.met /\ run'.shown = run.shown /\ run'.turned = run.turned
    BY <1>2, <1>6, SameIsRepeated
  <2>4. CalendarIsNear'
    BY <1>6, <2>3, CalendarKept DEF ShipmentInv
  <2>5. Keeps("upload_mode")
    BY <1>4, <1>6, <2>1, <2>3 DEF Keeps, IsPage, IsRepeated
  <2>6. WellPlaced("upload_mode")'
    BY <1>6, <2>1 DEF WellPlaced, PlaceFor, Unlisted
  <2>7. WellPlaced(Head(run.todo))'
    BY <1>2, <2>6, <1>6
  <2> QED BY <1>2, <1>3, <2>1, <2>2, <2>3, <2>4, <2>5, <2>7, StepRepeated
<1>7. CASE Fail(TRUE) /\ UNCHANGED page
  BY <1>7, StageFailsHere
<1>8. CASE /\ \/ page.at = "method" /\ page' \in Led(page, "file_upload") /\ UNCHANGED run
              \/ page.at = "start" /\ Repeat /\ page' \in Led(page, "start_new")
  <2>1. PICK what \in {"file_upload", "start_new"} : page' \in Led(page, what)
    BY <1>8
  <2>2. page' = [page EXCEPT !.at = page'.at] /\ <<page.at, what, page'.at>> \in Leads
    BY <1>4, <2>1, LedIs
  <2>3. page'.at \in {"method", "template"} /\ page.at \in {"start", "method"}
    BY <2>2, LeadsTo
  <2> DEFINE a == page'.at
  <2>4. page' = [page EXCEPT !.at = a]
    BY <2>2
  <2> HIDE DEF a
  <2>5. IsPage(page') /\ Elsewhere /\ SameCodes
    BY <1>4, <2>4, PageMoved
  <2>6. NoFurther(page.at, page'.at)
    BY <2>3 DEF NoFurther, Home, Unlisted, Confirmed, Packed, OnStep3, Accepted
  <2>7. PageIsRight'
    BY <2>5, <2>6, RightElsewhere DEF ShipmentInv
  <2>8. /\ IsRepeated /\ run'.met = run.met
        /\ run'.shown = run.shown /\ run'.turned = run.turned
    BY <1>2, <1>8, RepeatIsRepeated, SameIsRepeated
  <2>9. CalendarIsNear'
    BY <2>8, <1>2, CalendarKept DEF ShipmentInv, IsRepeated, GoesOn, OnTheWay
  <2>10. Keeps("upload_mode")
    BY <2>5, <2>8, KeepsElsewhere DEF IsRepeated
  <2>11. WellPlaced("upload_mode")'
    BY <2>3 DEF WellPlaced, PlaceFor, Unlisted
  <2>12. WellPlaced(Head(run.todo))'
    BY <1>2, <2>8, <2>11 DEF IsRepeated
  <2> QED BY <1>2, <1>3, <2>5, <2>7, <2>8, <2>9, <2>10, <2>12, StepRepeated
<1>9. CASE page.at = "start" /\ Repeat /\ UNCHANGED page
  <2>1. IsPage(page') /\ Elsewhere /\ SameCodes
    BY <1>9, PageKept DEF ShipmentInv
  <2>2. PageIsRight'
    BY <1>9, <2>1, RightElsewhere, NoFurtherThere DEF ShipmentInv
  <2>3. /\ IsRepeated /\ run'.met = run.met
        /\ run'.shown = run.shown /\ run'.turned = run.turned
    BY <1>2, <1>9, RepeatIsRepeated
  <2>4. CalendarIsNear'
    BY <2>3, <1>2, CalendarKept DEF ShipmentInv, IsRepeated, GoesOn, OnTheWay
  <2>5. Keeps("upload_mode")
    BY <2>1, <2>3, KeepsElsewhere DEF IsRepeated
  <2>6. WellPlaced("upload_mode")'
    BY <1>9 DEF WellPlaced, PlaceFor, Unlisted
  <2>7. WellPlaced(Head(run.todo))'
    BY <1>2, <2>3, <2>6 DEF IsRepeated
  <2> QED BY <1>2, <1>3, <2>1, <2>2, <2>3, <2>4, <2>5, <2>7, StepRepeated
<1> QED BY <1>5, <1>6, <1>7, <1>8, <1>9 DEF OpenUploadMode

LEMMA UploadKeeps ==
  ASSUME ShipmentInv, UploadFilledTemplate, UNCHANGED asked
  PROVE  ShipmentInv'
<1>1. Todo("upload_file")
  BY DEF UploadFilledTemplate
<1>2. /\ OnTheWay /\ Head(run.todo) = "upload_file" /\ "upload_file" \in StageWords(run.stage)
      /\ run.stage \in 1..4 /\ page.layout \in LayoutNames /\ page.at \in WorksOn("upload_file")
  BY <1>1, TodoIs
<1>3. run.stage # 4 /\ SeesTo("upload_file")
  BY <1>2 DEF StageWords, SeesTo
<1>4. IsPage(page)
  BY DEF ShipmentInv, Types
<1>5. CASE page.at = "listed" /\ Proceed /\ UNCHANGED page
  <2>1. IsDone /\ run'.filled = run.filled /\ run'.met = run.met
    BY <1>2, <1>5, ProceedIsDone
  <2>2. page.at \in Reached("upload_file", page.layout, page.at)
    BY <1>5 DEF Reached
  <2> QED BY <1>1, <1>3, <1>5, <2>1, <2>2, DoneHere
<1>6. CASE page' = ListSkus(page, FillShipmentTemplate([listed |-> {}], asked.rows)) /\ Proceed
  <2>1. page' = [page EXCEPT !.at = "listed", !.skus = LoadConsignmentSummary(asked.rows)]
    BY <1>6 DEF ListSkus, FillShipmentTemplate
  <2>2. /\ IsPage(page') /\ SameCodes /\ page'.at = "listed" /\ page'.region = page.region
        /\ page'.skus = LoadConsignmentSummary(asked.rows)
    BY <1>4, <2>1 DEF IsPage, SameCodes
  <2>3. IsDone /\ run'.filled = run.filled /\ run'.met = run.met
    BY <1>2, <1>6, ProceedIsDone
  <2>4. Keeps("upload_file")
    BY <1>4, <2>1, <2>3 DEF IsPage, Keeps
  <2>5. LabelMatchesSite(page.region, asked.site)
    BY <1>2, SeenTo DEF ShipmentInv
  <2>6. PageIsRight'
    BY <2>2, <2>5 DEF PageIsRight, Home, Unlisted, Confirmed, Packed, OnStep3, Accepted
  <2>7. page'.at \in Reached("upload_file", page.layout, page.at)
    BY <2>2 DEF Reached
  <2> QED BY <1>2, <1>3, <2>2, <2>3, <2>4, <2>6, <2>7, StepDone
<1>7. CASE run' = [Then EXCEPT !.met = TRUE] /\ UNCHANGED page
  <2>1. IsDone /\ run'.filled = run.filled /\ run'.met
    BY <1>2, <1>7, ThenIsDone
  <2> QED BY <1>1, <1>3, <1>7, <2>1, DoneHere
<1> QED BY <1>5, <1>6, <1>7 DEF UploadFilledTemplate
----------------------------------------------------------------------------
(***************************************************************************)
(* Stage 2.                                                                *)
(***************************************************************************)
LEMMA CardKeeps ==
  ASSUME ShipmentInv, ClickPackingMethodBox, UNCHANGED asked
  PROVE  ShipmentInv'
<1>1. Todo("packing_card")
  BY DEF ClickPackingMethodBox
<1>2. /\ OnTheWay /\ Head(run.todo) = "packing_card" /\ "packing_card" \in StageWords(run.stage)
      /\ run.stage \in 1..4
  BY <1>1, TodoIs
<1>3. run.stage # 4 /\ SeesTo("packing_card")
  BY <1>2 DEF StageWords, SeesTo
<1>4. IsPage(page)
  BY DEF ShipmentInv, Types
<1>5. CASE page.at = "units" /\ Proceed /\ UNCHANGED page
  <2>1. IsDone /\ run'.filled = run.filled /\ run'.met = run.met
    BY <1>2, <1>5, ProceedIsDone
  <2>2. page.at \in Reached("packing_card", page.layout, page.at)
    BY <1>5 DEF Reached
  <2> QED BY <1>1, <1>3, <1>5, <2>1, <2>2, DoneHere
<1>6. CASE page.at = "confirmed" /\ Repeat /\ (page' \in Led(page, "packing_card") \/ UNCHANGED page)
  <2>1. PICK a \in {"confirmed", "units"} : page' = [page EXCEPT !.at = a]
    <3>1. CASE UNCHANGED page
      BY <1>4, <1>6, <3>1 DEF IsPage
    <3>2. CASE page' \in Led(page, "packing_card")
      <4>1. page' = [page EXCEPT !.at = page'.at] /\ <<page.at, "packing_card", page'.at>> \in Leads
        BY <1>4, <3>2, LedIs
      <4>2. page'.at = "units"
        BY <4>1, LeadsTo
      <4> QED BY <4>1, <4>2
    <3> QED BY <1>6, <3>1, <3>2
  <2>2. IsPage(page') /\ Elsewhere /\ SameCodes /\ page'.at = a
    BY <1>4, <2>1, PageMoved
  <2>3. NoFurther(page.at, page'.at)
    BY <1>6, <2>2 DEF NoFurther, Home, Unlisted, Confirmed, Packed, OnStep3, Accepted
  <2>4. PageIsRight'
    BY <2>2, <2>3, RightElsewhere DEF ShipmentInv
  <2>5. /\ IsRepeated /\ run'.met = run.met
        /\ run'.shown = run.shown /\ run'.turned = run.turned
    BY <1>2, <1>6, RepeatIsRepeated
  <2>6. CalendarIsNear'
    BY <2>5, <1>2, CalendarKept DEF ShipmentInv, IsRepeated, GoesOn, OnTheWay
  <2>7. Keeps("packing_card")
    BY <2>2, <2>5, KeepsElsewhere DEF IsRepeated
  <2>8. WellPlaced("packing_card")'
    BY <2>2 DEF WellPlaced, PlaceFor
  <2>9. WellPlaced(Head(run.todo))'
    BY <1>2, <2>5, <2>8 DEF IsRepeated
  <2> QED BY <1>2, <1>3, <2>2, <2>4, <2>5, <2>6, <2>7, <2>9, StepRepeated
<1>7. CASE Fail(TRUE) /\ UNCHANGED page
  BY <1>7, StageFailsHere
<1> QED BY <1>5, <1>6, <1>7 DEF ClickPackingMethodBox

(* Amazon's template for the SKUs and boxes of a consignment takes the consignment. *)
LEMMA SheetFits ==
  ASSUME NEW rows, BoxNumbers(rows) # {}
  PROVE  Step2Fits(rows, Step2Template(Skus(rows), ExtractBoxCount(rows)))
<1> DEFINE source == ReadSourceData(rows)
           template == Step2Template(Skus(rows), ExtractBoxCount(rows))
<1>1. source.boxes = BoxNumbers(rows) /\ source.skus = {rows[i].sku : i \in {j \in DOMAIN rows : rows[j].box # 0}}
  BY DEF ReadSourceData
<1>2. template.skus = Skus(rows) /\ template.total = ExtractBoxCount(rows)
  BY DEF Step2Template
<1>3. ValidateTemplateSkus(source, template)
  <2> HIDE DEF source, template
  <2> QED BY <1>1, <1>2 DEF ValidateTemplateSkus, Skus
<1>4. ValidateSourceBoxes(source, template)
  <2> HIDE DEF source, template
  <2> QED BY <1>1, <1>2 DEF ValidateSourceBoxes, ExtractBoxCount
<1> QED BY <1>3, <1>4 DEF Step2Fits

LEMMA SkusOfPage ==
  ASSUME page.skus = LoadConsignmentSummary(asked.rows)
  PROVE  DOMAIN page.skus = Skus(asked.rows)
  BY DEF LoadConsignmentSummary

LEMMA FillSheetKeeps ==
  ASSUME ShipmentInv, FillSheet, UNCHANGED asked
  PROVE  ShipmentInv'
<1> DEFINE template == Step2Template(DOMAIN page.skus, ExtractBoxCount(asked.rows))
<1>1. Todo("fill_sheet") /\ UNCHANGED page
  BY DEF FillSheet
<1>2. /\ OnTheWay /\ Head(run.todo) = "fill_sheet" /\ "fill_sheet" \in StageWords(run.stage)
      /\ run.stage \in 1..4
  BY <1>1, TodoIs
<1>3. run.stage # 4
  BY <1>2 DEF StageWords
<1>4. ~run.met => page.at = "sheet"
  BY <1>1, TodoInPlace DEF WellPlaced, PlaceFor
<1>5. CASE Step2Fits(asked.rows, template)
  <2>1. run' = [Then EXCEPT !.filled = FillMultiBoxStep2Template(asked.rows, template)]
    BY <1>5 DEF FillSheet
  <2> HIDE DEF template
  <2>2. /\ IsDone /\ run'.met = run.met
        /\ run'.filled = FillMultiBoxStep2Template(asked.rows, template)
    BY <1>2, <2>1 DEF ShipmentInv, Types, IsRun, OnTheWay, Then, IsDone, GoesOn
  <2>3. SeesTo("fill_sheet")
    BY <2>2 DEF SeesTo, template
  <2>4. ~run'.met => page.at \in Reached("fill_sheet", page.layout, page.at) /\ ~run.met
    BY <1>4, <2>2 DEF Reached
  <2> QED BY <1>1, <1>3, <2>2, <2>3, <2>4, DoneHere
<1>6. CASE ~Step2Fits(asked.rows, template)
  <2>1. Fail(FALSE)
    BY <1>6 DEF FillSheet
  <2>2. run.met
    <3>1. SUFFICES ASSUME ~run.met PROVE FALSE
      BY DEF ShipmentInv, Types
    <3>2. page.skus = LoadConsignmentSummary(asked.rows)
      BY <1>4, <3>1 DEF ShipmentInv, PageIsRight, Home, Unlisted
    <3>3. DOMAIN page.skus = Skus(asked.rows)
      BY <3>2, SkusOfPage
    <3>4. BoxNumbers(asked.rows) # {}
      BY TasksAssumption DEF ShipmentInv, Types
    <3> QED BY <1>6, <3>3, <3>4, SheetFits
  <2> QED BY <1>1, <2>1, <2>2, StageFailsHere
<1> QED BY <1>5, <1>6

LEMMA ValidateKeeps ==
  ASSUME ShipmentInv, UploadFilledMultiBoxExcel, UNCHANGED asked
  PROVE  ShipmentInv'
<1>1. Todo("validate")
  BY DEF UploadFilledMultiBoxExcel
<1>2. /\ OnTheWay /\ Head(run.todo) = "validate" /\ "validate" \in StageWords(run.stage)
      /\ run.stage \in 1..4 /\ page.layout \in LayoutNames
  BY <1>1, TodoIs
<1>3. run.stage # 4 /\ SeesTo("validate")
  BY <1>2 DEF StageWords, SeesTo
<1>4. IsPage(page)
  BY DEF ShipmentInv, Types
<1>5. PICK shown \in Led(page, "validate") :
       CASE Step2UploadResult(shown) = "success" ->
              page' = [shown EXCEPT !.packing = run.filled] /\ Proceed /\ NoFault
         [] Step2UploadResult(shown) = "error" ->
              page' = shown /\ Fault /\ run' = [run EXCEPT !.state = "rejected", !.met = TRUE]
  BY DEF UploadFilledMultiBoxExcel
<1>6. shown = [page EXCEPT !.at = shown.at] /\ <<page.at, "validate", shown.at>> \in Leads
  BY <1>4, LedIs
<1>7. page.at = "sheet" /\ shown.at \in {"packed", "rejected"}
  BY <1>6, LeadsTo
<1>8. CASE shown.at = "packed"
  <2>1. page' = [shown EXCEPT !.packing = run.filled] /\ Proceed
    BY <1>5, <1>8 DEF Step2UploadResult
  <2>2. page' = [page EXCEPT !.at = "packed", !.packing = run.filled]
    BY <1>4, <1>6, <1>8, <2>1 DEF IsPage
  <2>3. /\ IsPage(page') /\ SameCodes /\ page'.at = "packed" /\ page'.packing = run.filled
        /\ page'.region = page.region /\ page'.skus = page.skus /\ page'.agl = page.agl
    BY <1>4, <2>2 DEF IsPage, SameCodes
  <2>4. IsDone /\ run'.filled = run.filled /\ run'.met = run.met
    BY <1>2, <2>1, ProceedIsDone
  <2>5. Keeps("validate")
    BY <1>4, <2>2, <2>4 DEF IsPage, Keeps
  <2>6. PageIsRight'
    <3>1. /\ LabelMatchesSite(page.region, asked.site) /\ ~page.agl
          /\ page.skus = LoadConsignmentSummary(asked.rows)
      BY <1>7 DEF ShipmentInv, PageIsRight, Home, Unlisted, Confirmed
    <3>2. run.filled = Sheet
      <4>1. run.filled = FillMultiBoxStep2Template(asked.rows,
                           Step2Template(DOMAIN page.skus, ExtractBoxCount(asked.rows)))
        BY <1>2, SeenTo DEF ShipmentInv
      <4>2. DOMAIN page.skus = Skus(asked.rows)
        BY <3>1, SkusOfPage
      <4> QED BY <4>1, <4>2 DEF Sheet
    <3>3. (page.packing = Sheet)'
      BY <2>3, <3>2 DEF Sheet
    <3> QED BY <2>3, <3>1, <3>3 DEF PageIsRight, Home, Unlisted, Confirmed, Packed, OnStep3, Accepted
  <2>7. page'.at \in Reached("validate", page.layout, page.at)
    BY <2>3 DEF Reached
  <2> QED BY <1>2, <1>3, <2>3, <2>4, <2>5, <2>6, <2>7, StepDone
<1>9. CASE shown.at = "rejected"
  <2>1. page' = shown /\ run' = [run EXCEPT !.state = "rejected", !.met = TRUE]
    BY <1>5, <1>9 DEF Step2UploadResult
  <2>2. page' = [page EXCEPT !.at = "rejected"]
    BY <1>6, <1>9, <2>1
  <2>3. IsPage(page') /\ Elsewhere /\ SameCodes /\ page'.at = "rejected"
    BY <1>4, <2>2, PageMoved
  <2>4. NoFurther(page.at, page'.at)
    BY <1>7, <2>3 DEF NoFurther, Home, Unlisted, Confirmed, Packed, OnStep3, Accepted
  <2>5. PageIsRight'
    BY <2>3, <2>4, RightElsewhere DEF ShipmentInv
  <2> QED BY <2>1, <2>3, <2>5, StageEnds DEF Elsewhere
<1> QED BY <1>7, <1>8, <1>9
----------------------------------------------------------------------------
(***************************************************************************)
(* Stage 3.                                                                *)
(***************************************************************************)
LEMMA ReturnKeeps ==
  ASSUME ShipmentInv, ReturnedToStep2Start, UNCHANGED asked
  PROVE  ShipmentInv'
<1>1. UNCHANGED page /\ page.at = "units" /\ run.state = "running"
  BY DEF ReturnedToStep2Start, BackAtStep2
<1>2. /\ IsRun(run') /\ run'.state = "returned" /\ run'.met = run.met
      /\ run'.stage = run.stage /\ run'.shown = run.shown /\ run'.turned = run.turned
      /\ run'.clicked = run.clicked
  BY DEF ReturnedToStep2Start, ShipmentInv, Types, IsRun
<1>3. IsPage(page') /\ Elsewhere /\ SameCodes
  BY <1>1, PageKept DEF ShipmentInv
<1>4. Types'
  BY <1>1, <1>2 DEF ShipmentInv, Types
<1>5. PageIsRight' /\ CodesAreRight'
  BY <1>1, <1>3, RightElsewhere, NoFurtherThere, CodesKept DEF ShipmentInv
<1>6. StageFollows' /\ FinishedIsShipped' /\ Undisturbed'
  BY <1>1, <1>2 DEF StageFollows, FinishedIsShipped, Undisturbed
<1>7. CalendarIsNear'
  BY <1>2 DEF ShipmentInv, CalendarIsNear
<1> QED BY <1>4, <1>5, <1>6, <1>7 DEF ShipmentInv

LEMMA ConfirmKeeps ==
  ASSUME ShipmentInv, ConfirmModalIfVisible, UNCHANGED asked
  PROVE  ShipmentInv'
<1>1. Todo("confirm_if_asked") /\ Proceed
  BY DEF ConfirmModalIfVisible
<1>2. /\ OnTheWay /\ Head(run.todo) = "confirm_if_asked" /\ "confirm_if_asked" \in StageWords(run.stage)
      /\ run.stage \in 1..4 /\ page.layout \in LayoutNames
  BY <1>1, TodoIs
<1>3. run.stage # 4 /\ SeesTo("confirm_if_asked")
  BY <1>2 DEF StageWords, SeesTo
<1>4. IsPage(page)
  BY DEF ShipmentInv, Types
<1>5. IsDone /\ run'.filled = run.filled /\ run'.met = run.met
  BY <1>1, <1>2, ProceedIsDone
<1>6. CASE page.at = "dialog"
  <2>1. page' \in Led(page, "confirm")
    BY <1>6 DEF ConfirmModalIfVisible
  <2>2. page' = [page EXCEPT !.at = page'.at] /\ <<page.at, "confirm", page'.at>> \in Leads
    BY <1>4, <2>1, LedIs
  <2>3. page'.at = "form"
    BY <2>2, LeadsTo
  <2>4. page' = [page EXCEPT !.at = "form"]
    BY <2>2, <2>3
  <2>5. IsPage(page') /\ Elsewhere /\ SameCodes /\ page'.at = "form"
    BY <1>4, <2>4, PageMoved
  <2>6. NoFurther(page.at, page'.at)
    BY <1>6, <2>5 DEF NoFurther, Home, Unlisted, Confirmed, Packed, OnStep3, Accepted
  <2>7. PageIsRight'
    BY <2>5, <2>6, RightElsewhere DEF ShipmentInv
  <2>8. page'.at \in Reached("confirm_if_asked", page.layout, page.at)
    BY <2>5 DEF Reached
  <2> QED BY <1>1, <1>3, <1>5, <2>5, <2>7, <2>8, DoneElsewhere
<1>7. CASE page.at # "dialog"
  <2>1. UNCHANGED page
    BY <1>7 DEF ConfirmModalIfVisible
  <2>2. ~run.met => page.at \in Reached("confirm_if_asked", page.layout, page.at)
    <3>1. ~run.met => page.at \in {"dialog", "form"}
      BY <1>1, TodoInPlace DEF WellPlaced, PlaceFor
    <3> QED BY <1>7, <3>1 DEF Reached
  <2> QED BY <1>1, <1>3, <1>5, <2>1, <2>2, DoneHere
<1> QED BY <1>6, <1>7

(* A change of the form. *)
FormChanged ==
  /\ IsPage(page') /\ SameCodes /\ page'.at = page.at /\ page'.region = page.region
  /\ page'.agl = page.agl /\ page'.skus = page.skus /\ page'.packing = page.packing
  /\ page'.layout = page.layout

LEMMA RightForm ==
  ASSUME PageIsRight, UNCHANGED asked, page.at = "form", FormChanged
  PROVE  PageIsRight'
<1>1. /\ LabelMatchesSite(page.region, asked.site) /\ ~page.agl
      /\ page.skus = LoadConsignmentSummary(asked.rows) /\ page.packing = Sheet
  BY DEF PageIsRight, Home, Unlisted, Confirmed, Packed, OnStep3
<1>2. (page.packing = Sheet)'
  BY <1>1 DEF FormChanged, Sheet
<1>3. page'.at = "form" /\ page'.at \notin Accepted /\ page'.at \in Confirmed
  BY DEF FormChanged, Accepted, Confirmed, Packed, OnStep3
<1> QED BY <1>1, <1>2, <1>3 DEF FormChanged, PageIsRight

LEMMA ModeKeeps ==
  ASSUME ShipmentInv, SelectCarrierMode, UNCHANGED asked
  PROVE  ShipmentInv'
<1>1. Todo("mode_and_carrier")
  BY DEF SelectCarrierMode
<1>2. /\ OnTheWay /\ Head(run.todo) = "mode_and_carrier" /\ "mode_and_carrier" \in StageWords(run.stage)
      /\ run.stage \in 1..4 /\ page.layout \in LayoutNames /\ page.at = "form"
  BY <1>1, TodoIs DEF WorksOn
<1>3. run.stage = 3 /\ run.stage # 4
  BY <1>2 DEF StageWords
<1>4. IsPage(page)
  BY DEF ShipmentInv, Types
<1>5. \E m, c : page' = [page EXCEPT !.mode = m, !.carrier = c]
  <2> DEFINE both == SelectOption(SelectOption(page, "mode", Mode), "carrier", "OTHER")
  <2>1. both = [page EXCEPT !.mode = Mode, !.carrier = "OTHER"]
    BY <1>4 DEF SelectOption, IsPage
  <2>2. page' \in {both, EmptyOther(both, "mode"), EmptyOther(both, "carrier")}
    BY DEF SelectCarrierMode
  <2> HIDE DEF both
  <2>3. /\ EmptyOther(both, "mode") = [page EXCEPT !.mode = Mode, !.carrier = "none"]
        /\ EmptyOther(both, "carrier") = [page EXCEPT !.mode = "none", !.carrier = "OTHER"]
    BY <1>4, <2>1 DEF EmptyOther, IsPage
  <2> QED BY <2>1, <2>2, <2>3
<1>6. FormChanged /\ page'.ship = page.ship /\ page'.deliver = page.deliver
  BY <1>4, <1>5 DEF IsPage, FormChanged, SameCodes
<1>7. PageIsRight'
  BY <1>2, <1>6, RightForm DEF ShipmentInv
<1>8. run'.filled = run.filled => Keeps("mode_and_carrier")
  BY <1>6 DEF FormChanged, Keeps
<1>9. CASE RoundSucceeds(page')
  <2>1. Proceed
    BY <1>9 DEF SelectCarrierMode
  <2>2. IsDone /\ run'.filled = run.filled /\ run'.met = run.met
    BY <1>2, <2>1, ProceedIsDone
  <2>3. page'.mode = Mode /\ page'.carrier = "OTHER"
    BY <1>9 DEF RoundSucceeds, DropdownSelected
  <2>4. SeesTo("mode_and_carrier")
    BY <2>3 DEF SeesTo
  <2>5. page'.at \in Reached("mode_and_carrier", page.layout, page.at)
    BY <1>2, <1>6 DEF Reached, FormChanged
  <2> QED BY <1>2, <1>3, <1>6, <1>7, <1>8, <2>2, <2>4, <2>5, StepDone DEF FormChanged
<1>10. CASE ~RoundSucceeds(page') /\ Repeat
  <2>1. /\ IsRepeated /\ run'.met = run.met
        /\ run'.shown = run.shown /\ run'.turned = run.turned
    BY <1>2, <1>10, RepeatIsRepeated
  <2>2. CalendarIsNear'
    BY <2>1, <1>2, CalendarKept DEF ShipmentInv, IsRepeated, GoesOn, OnTheWay
  <2>3. Keeps("mode_and_carrier")
    BY <1>8, <2>1 DEF IsRepeated
  <2>4. WellPlaced("mode_and_carrier")'
    BY <1>2, <1>6 DEF WellPlaced, PlaceFor, FormChanged
  <2>5. WellPlaced(Head(run.todo))'
    BY <1>2, <2>1, <2>4 DEF IsRepeated
  <2> QED BY <1>2, <1>3, <1>6, <1>7, <2>1, <2>2, <2>3, <2>5, StepRepeated DEF FormChanged
<1>11. CASE ~RoundSucceeds(page') /\ Fail(TRUE)
  BY <1>6, <1>7, <1>11, StageFails DEF FormChanged
<1> QED BY <1>9, <1>10, <1>11 DEF SelectCarrierMode

LEMMA DropdownKeeps ==
  ASSUME ShipmentInv, NEW dropdown \in {"mode", "carrier"}, SelectDropdown(dropdown), UNCHANGED asked
  PROVE  ShipmentInv'
<1>1. Todo(dropdown)
  BY DEF SelectDropdown
<1>2. /\ OnTheWay /\ Head(run.todo) = dropdown /\ dropdown \in StageWords(run.stage)
      /\ run.stage \in 1..4 /\ page.at = "form"
  BY <1>1, TodoIs DEF WorksOn
<1>3. run.stage # 4 /\ SeesTo(dropdown)
  BY <1>2 DEF StageWords, SeesTo
<1>4. IsPage(page)
  BY DEF ShipmentInv, Types
<1>5. CASE /\ page' = SelectOption(page, dropdown, IF dropdown = "mode" THEN Mode ELSE "OTHER")
           /\ Proceed
  <2>1. \E m, c : page' = [page EXCEPT !.mode = m, !.carrier = c]
    BY <1>4, <1>5 DEF SelectOption, IsPage
  <2>2. FormChanged /\ page'.ship = page.ship /\ page'.deliver = page.deliver
    BY <1>4, <2>1 DEF IsPage, FormChanged, SameCodes
  <2>3. PageIsRight'
    BY <1>2, <2>2, RightForm DEF ShipmentInv
  <2>4. IsDone /\ run'.filled = run.filled /\ run'.met = run.met
    BY <1>2, <1>5, ProceedIsDone
  <2>5. Keeps(dropdown)
    BY <2>2, <2>4 DEF FormChanged, Keeps
  <2>6. page'.at \in Reached(dropdown, page.layout, page.at)
    BY <1>2, <2>2 DEF Reached, FormChanged
  <2> QED BY <1>2, <1>3, <2>2, <2>3, <2>4, <2>5, <2>6, StepDone DEF FormChanged
<1>6. CASE run' = [Then EXCEPT !.met = TRUE] /\ UNCHANGED page
  <2>1. IsDone /\ run'.filled = run.filled /\ run'.met
    BY <1>2, <1>6, ThenIsDone
  <2> QED BY <1>1, <1>3, <1>6, <2>1, DoneHere
<1> QED BY <1>5, <1>6 DEF SelectDropdown

LEMMA SummaryKeeps ==
  ASSUME ShipmentInv, WriteShipmentSummary, UNCHANGED asked
  PROVE  ShipmentInv'
<1>1. Todo("summary") /\ Proceed /\ UNCHANGED page
  BY DEF WriteShipmentSummary
<1>2. /\ OnTheWay /\ Head(run.todo) = "summary" /\ "summary" \in StageWords(run.stage) /\ run.stage \in 1..4
  BY <1>1, TodoIs
<1>3. run.stage # 4 /\ SeesTo("summary")
  BY <1>2 DEF StageWords, SeesTo
<1>4. IsDone /\ run'.filled = run.filled /\ run'.met = run.met
  BY <1>1, <1>2, ProceedIsDone
<1>5. ~run.met => page.at \in Reached("summary", page.layout, page.at)
  <2>1. ~run.met => page.at = "accepted"
    BY <1>1, TodoInPlace DEF WellPlaced, PlaceFor
  <2> QED BY <2>1 DEF Reached
<1> QED BY <1>1, <1>3, <1>4, <1>5, DoneHere
----------------------------------------------------------------------------
(***************************************************************************)
(* The calendar: the months between the one it shows and the date.         *)
(***************************************************************************)
Months == Int \X (1..12)

LEMMA MonthAfter ==
  ASSUME NEW ym \in Months
  PROVE  NextMonth(ym) \in Months /\ MonthIndex(NextMonth(ym)) = MonthIndex(ym) + 1
<1>1. ym[1] \in Int /\ ym[2] \in 1..12
  BY DEF Months
<1>2. CASE ym[2] = 12
  BY <1>1, <1>2 DEF NextMonth, MonthIndex, Months
<1>3. CASE ym[2] # 12
  BY <1>1, <1>3 DEF NextMonth, MonthIndex, Months
<1> QED BY <1>2, <1>3

LEMMA MonthBefore ==
  ASSUME NEW ym \in Months
  PROVE  PrevMonth(ym) \in Months /\ MonthIndex(PrevMonth(ym)) = MonthIndex(ym) - 1
<1>1. ym[1] \in Int /\ ym[2] \in 1..12
  BY DEF Months
<1>2. CASE ym[2] = 1
  BY <1>1, <1>2 DEF PrevMonth, MonthIndex, Months
<1>3. CASE ym[2] # 1
  BY <1>1, <1>3 DEF PrevMonth, MonthIndex, Months
<1> QED BY <1>2, <1>3

(* The day put behind a month makes a date in it. *)
LEMMA DateIn ==
  ASSUME NEW ym \in Months, NEW d \in Int
  PROVE  (ym \o <<d>>)[1] = ym[1] /\ (ym \o <<d>>)[2] = ym[2]
<1>1. ym = <<ym[1], ym[2]>> /\ ym[1] \in Int /\ ym[2] \in Int
  BY DEF Months
<1>2. ym \in Seq(Int) /\ Len(ym) = 2
  <2>1. ym = [i \in 1..2 |-> ym[i]]
    BY <1>1
  <2>2. \A i \in 1..2 : ym[i] \in Int
    BY <1>1
  <2> QED BY ONLY <2>1, <2>2, IsSequence
<1> DEFINE e == [i \in 1..1 |-> d]
<1>3. e \in Seq(Int) /\ Len(e) = 1 /\ <<d>> = e
  OBVIOUS
<1> HIDE DEF e
<1>4. (ym \o e)[1] = ym[1] /\ (ym \o e)[2] = ym[2]
  BY ONLY <1>2, <1>3
<1> QED BY <1>3, <1>4

(* The delivery is in the month of the shipping or in one of the two after it. *)
LEMMA TargetIsNear ==
  ASSUME NEW today \in Int \X (1..12) \X (1..31)
  PROVE  LET target == CalculatePickupDate(today)
         IN /\ MonthOf(target) \in Months /\ MonthOf(today) \in Months
            /\ MonthIndex(target) = MonthIndex(MonthOf(target))
            /\ MonthIndex(target) - MonthIndex(today) \in 0..2
            /\ MonthIndex(today) = MonthIndex(MonthOf(today)) /\ MonthIndex(today) \in Int
<1> DEFINE over == today[3] + 30 - DaysIn(today[1], today[2])
           next == NextMonth(MonthOf(today))
           left == over - DaysIn(next[1], next[2])
           target == CalculatePickupDate(today)
<1>1. today[1] \in Int /\ today[2] \in 1..12 /\ today[3] \in 1..31
  OBVIOUS
<1>2. /\ MonthOf(today) \in Months /\ MonthIndex(MonthOf(today)) = MonthIndex(today)
      /\ MonthIndex(today) \in Int
  BY <1>1 DEF MonthOf, Months, MonthIndex
<1>3. next \in Months /\ MonthIndex(next) = MonthIndex(today) + 1
  BY <1>2, MonthAfter
<1>4. NextMonth(next) \in Months /\ MonthIndex(NextMonth(next)) = MonthIndex(today) + 2
  <2> HIDE DEF next
  <2>1. MonthIndex(NextMonth(next)) = MonthIndex(next) + 1
    BY <1>3, MonthAfter
  <2> QED BY <1>2, <1>3, <2>1, MonthAfter
<1>5. over \in Int /\ left \in Int
  <2>1. \A y, m : DaysIn(y, m) \in Int
    BY DEF DaysIn
  <2> HIDE DEF next
  <2> QED BY <1>1, <2>1
<1>6. target = CASE over <= 0 -> <<today[1], today[2], today[3] + 30>>
                 [] over > 0 /\ left <= 0 -> next \o <<over>>
                 [] OTHER -> NextMonth(next) \o <<left>>
  BY DEF CalculatePickupDate
<1> HIDE DEF over, left, next, target
<1>7. CASE over <= 0
  <2>1. target = <<today[1], today[2], today[3] + 30>>
    BY <1>5, <1>6, <1>7
  <2>2. MonthOf(target) = MonthOf(today) /\ MonthIndex(target) = MonthIndex(today)
    BY <2>1 DEF MonthOf, MonthIndex
  <2> QED BY <1>2, <2>2 DEF target
<1>8. ASSUME ~(over <= 0) PROVE \E k \in {1, 2}, ym \in Months :
        target[1] = ym[1] /\ target[2] = ym[2] /\ MonthIndex(ym) = MonthIndex(today) + k
  <2>1. CASE left <= 0
    <3>1. target = next \o <<over>>
      BY <1>5, <1>6, <1>8, <2>1
    <3> QED BY <1>3, <1>5, <3>1, DateIn
  <2>2. CASE ~(left <= 0)
    <3>1. target = NextMonth(next) \o <<left>>
      BY <1>5, <1>6, <1>8, <2>2
    <3> QED BY <1>4, <1>5, <3>1, DateIn
  <2> QED BY <2>1, <2>2
<1>9. CASE ~(over <= 0)
  <2>1. PICK k \in {1, 2}, ym \in Months :
          target[1] = ym[1] /\ target[2] = ym[2] /\ MonthIndex(ym) = MonthIndex(today) + k
    BY <1>8, <1>9
  <2>2. MonthIndex(target) = MonthIndex(ym) /\ MonthOf(target) = ym
    BY <2>1 DEF MonthIndex, MonthOf, Months
  <2>3. MonthIndex(target) - MonthIndex(today) \in 0..2
    BY <1>2, <2>1, <2>2
  <2> QED BY <1>2, <2>2, <2>3 DEF target
<1> QED BY <1>7, <1>9

(* Turned towards the date the calendar is a month nearer. *)
LEMMA TurningNears ==
  ASSUME NEW ym \in Months, NEW date, MonthOf(date) \in Months, ~ShowsMonth(ym, date)
  PROVE  /\ TurnCalendar(ym, date) \in Months
         /\ MonthsApart(ym, date) \in Nat /\ MonthsApart(ym, date) > 0
         /\ MonthsApart(TurnCalendar(ym, date), date) = MonthsApart(ym, date) - 1
<1>1. ym[1] \in Int /\ ym[2] \in 1..12 /\ date[1] \in Int /\ date[2] \in 1..12 /\ ym = <<ym[1], ym[2]>>
  BY DEF Months, MonthOf
<1>2. MonthIndex(ym) \in Int /\ MonthIndex(date) \in Int
  BY <1>1 DEF MonthIndex
<1>3. ym[1] # date[1] \/ ym[2] # date[2]
  BY <1>1 DEF ShowsMonth, MonthOf
<1>4. CASE Before(ym, date)
  <2>1. MonthIndex(ym) < MonthIndex(date)
    BY <1>1, <1>4 DEF Before, MonthIndex
  <2>2. TurnCalendar(ym, date) \in Months /\ MonthIndex(TurnCalendar(ym, date)) = MonthIndex(ym) + 1
    BY <1>4, MonthAfter DEF TurnCalendar
  <2> QED BY <1>2, <2>1, <2>2 DEF MonthsApart
<1>5. CASE ~Before(ym, date)
  <2>1. MonthIndex(ym) > MonthIndex(date)
    BY <1>1, <1>3, <1>5 DEF Before, MonthIndex
  <2>2. TurnCalendar(ym, date) \in Months /\ MonthIndex(TurnCalendar(ym, date)) = MonthIndex(ym) - 1
    BY <1>5, MonthBefore DEF TurnCalendar
  <2> QED BY <1>2, <2>1, <2>2 DEF MonthsApart
<1> QED BY <1>4, <1>5
LEMMA MonthIsShown ==
  ASSUME NEW ym \in Months
  PROVE  ym # <<>>
<1>1. ym = <<ym[1], ym[2]>>
  BY DEF Months
<1>2. <<ym[1], ym[2]>> # <<>>
  OBVIOUS
<1> QED BY <1>1, <1>2

LEMMA DateIsNear ==
  ASSUME asked \in Tasks, NEW picker \in {"ship", "deliver"},
         NEW ym \in {MonthOf(asked.today), MonthOf(Target), NextMonth(MonthOf(Target))}
  PROVE  /\ ym \in Months /\ MonthOf(DateFor(picker)) \in Months
         /\ MonthsApart(ym, DateFor(picker)) \in 0..3
<1> DEFINE today == asked.today
           date == DateFor(picker)
<1>1. today \in Int \X (1..12) \X (1..31)
  BY TasksAssumption
<1>2. /\ MonthOf(Target) \in Months /\ MonthOf(today) \in Months
      /\ MonthIndex(Target) = MonthIndex(MonthOf(Target))
      /\ MonthIndex(Target) - MonthIndex(today) \in 0..2
      /\ MonthIndex(today) = MonthIndex(MonthOf(today)) /\ MonthIndex(today) \in Int
  BY <1>1, TargetIsNear DEF Target
<1>3. MonthIndex(Target) \in Int
  <2>1. MonthOf(Target)[1] \in Int /\ MonthOf(Target)[2] \in Int
    BY <1>2 DEF Months
  <2> QED BY <1>2, <2>1 DEF MonthIndex
<1>4. /\ NextMonth(MonthOf(Target)) \in Months
      /\ MonthIndex(NextMonth(MonthOf(Target))) = MonthIndex(Target) + 1
  BY <1>2, MonthAfter
<1>5. date \in {today, Target} /\ MonthOf(date) \in Months
  BY <1>2 DEF DateFor
<1>6. ym \in Months
  BY <1>2, <1>4
<1>7. MonthIndex(ym) \in {MonthIndex(today), MonthIndex(Target), MonthIndex(Target) + 1}
  BY <1>2, <1>4
<1>8. MonthIndex(date) \in {MonthIndex(today), MonthIndex(Target)}
  BY <1>5
<1> DEFINE i == MonthIndex(ym)
           t == MonthIndex(today)
           g == MonthIndex(Target)
           d == MonthIndex(date)
<1>9. t \in Int /\ g \in Int /\ g - t \in 0..2 /\ i \in {t, g, g + 1} /\ d \in {t, g}
  BY <1>2, <1>3, <1>7, <1>8
<1>10. MonthsApart(ym, date) = IF i - d < 0 THEN 0 - (i - d) ELSE i - d
  BY DEF MonthsApart
<1> HIDE DEF i, t, g, d
<1>11. (IF i - d < 0 THEN 0 - (i - d) ELSE i - d) \in 0..3
  BY <1>9
<1> QED BY <1>5, <1>6, <1>10, <1>11

LEMMA TodoPicker ==
  ASSUME ShipmentInv, NEW picker \in {"ship", "deliver"}, Todo(picker)
  PROVE  /\ OnTheWay /\ Head(run.todo) = picker /\ run.stage = 3 /\ page.at = "form" /\ IsPage(page)
         /\ run.state = "running" /\ run.todo # <<>>
<1>1. OnTheWay /\ Head(run.todo) = picker /\ picker \in StageWords(run.stage) /\ run.stage \in 1..4
      /\ page.at \in WorksOn(picker)
  BY TodoIs
<1>2. run.stage = 3 /\ page.at = "form"
  BY <1>1 DEF StageWords, WorksOn
<1> QED BY <1>1, <1>2 DEF OnTheWay, ShipmentInv, Types

(* A step of the calendar after which the date is still to be chosen. *)
LEMMA CalendarRepeated ==
  ASSUME ShipmentInv, NEW picker \in {"ship", "deliver"}, Todo(picker), UNCHANGED asked, UNCHANGED page,
         IsRepeated, run'.met = run.met, CalendarIsNear'
  PROVE  ShipmentInv'
<1>1. OnTheWay /\ Head(run.todo) = picker /\ run.stage = 3 /\ page.at = "form"
  BY TodoPicker
<1>2. IsPage(page') /\ Elsewhere /\ SameCodes
  BY PageKept DEF ShipmentInv
<1>3. PageIsRight'
  BY <1>2, RightElsewhere, NoFurtherThere DEF ShipmentInv
<1>4. Keeps(picker)
  BY <1>2, KeepsElsewhere DEF IsRepeated
<1>5. WellPlaced(picker)'
  BY <1>1 DEF WellPlaced, PlaceFor
<1>6. WellPlaced(Head(run.todo))'
  BY <1>1, <1>5 DEF IsRepeated
<1> QED BY <1>1, <1>2, <1>3, <1>4, <1>6, StepRepeated

LEMMA DateInputKeeps ==
  ASSUME ShipmentInv, NEW picker \in {"ship", "deliver"}, ClickDateInput(picker), UNCHANGED asked
  PROVE  ShipmentInv'
<1>1. Todo(picker) /\ run.shown = <<>> /\ UNCHANGED page
  BY DEF ClickDateInput
<1>2. /\ OnTheWay /\ Head(run.todo) = picker /\ run.stage = 3 /\ run.state = "running"
      /\ run.todo # <<>>
  BY <1>1, TodoPicker
<1>3. PICK month \in {MonthOf(asked.today), MonthOf(Target), NextMonth(MonthOf(Target))} :
        run' = [run EXCEPT !.shown = month]
  BY DEF ClickDateInput
<1>4. /\ IsRepeated /\ run'.met = run.met /\ run'.shown = month /\ run'.turned = run.turned
      /\ run'.todo = run.todo /\ run'.stage = 3
  BY <1>2, <1>3 DEF ShipmentInv, Types, IsRun, IsRepeated, GoesOn
<1>5. run.turned = 0
  BY <1>1 DEF ShipmentInv, CalendarIsNear
<1>6. month \in Months /\ MonthsApart(month, DateFor(picker)) \in 0..3
  BY DateIsNear DEF ShipmentInv, Types
<1>7. month # <<>>
  BY <1>6, MonthIsShown
<1>8. CalendarIsNear'
  <2>1. (MonthsApart(run.shown, DateFor(Head(run.todo))) + run.turned <= 3)'
    <3>1. MonthsApart(month, DateFor(picker)) + 0 <= 3
      BY <1>6
    <3> QED BY <1>2, <1>4, <1>5, <3>1 DEF DateFor, Target
  <2> QED BY <1>2, <1>4, <1>6, <1>7, <2>1 DEF CalendarIsNear, Months
<1> QED BY <1>1, <1>4, <1>8, CalendarRepeated

LEMMA TurnKeeps ==
  ASSUME ShipmentInv, NEW picker \in {"ship", "deliver"}, TurnMonth(picker), UNCHANGED asked
  PROVE  ShipmentInv'
<1>1. Todo(picker) /\ run.shown # <<>> /\ ~ShowsMonth(run.shown, DateFor(picker)) /\ UNCHANGED page
  BY DEF TurnMonth
<1>2. /\ OnTheWay /\ Head(run.todo) = picker /\ run.stage = 3 /\ run.state = "running"
      /\ run.todo # <<>>
  BY <1>1, TodoPicker
<1> DEFINE date == DateFor(picker)
           apart == MonthsApart(run.shown, date)
           shown == TurnCalendar(run.shown, date)
<1>3. run.shown \in Months /\ apart + run.turned <= 3 /\ run.turned \in Nat
  BY <1>1, <1>2 DEF ShipmentInv, Types, CalendarIsNear, Months
<1>4. MonthOf(date) \in Months
  BY DateIsNear DEF ShipmentInv, Types
<1>5. shown \in Months /\ apart \in Nat /\ apart > 0 /\ MonthsApart(shown, date) = apart - 1
  BY <1>1, <1>3, <1>4, TurningNears
<1>6. run.turned < MaxTurns
  <2> HIDE DEF apart
  <2> QED BY <1>3, <1>5, BoundsAssumption
<1>7. run' = [run EXCEPT !.shown = shown, !.turned = run.turned + 1]
  BY <1>6 DEF TurnMonth, ShipmentInv, Types, IsRun
<1>8. /\ IsRepeated /\ run'.met = run.met /\ run'.shown = shown /\ run'.turned = run.turned + 1
      /\ run'.todo = run.todo /\ run'.stage = 3
  <2> DEFINE turned == run.turned + 1
  <2>1. run' = [run EXCEPT !.shown = shown, !.turned = turned] /\ turned \in Nat
    BY <1>3, <1>7
  <2>2. run'.turned = turned
    <3> HIDE DEF shown, turned
    <3> QED BY <2>1 DEF ShipmentInv, Types, IsRun
  <2>3. /\ IsRepeated /\ run'.met = run.met /\ run'.shown = shown
        /\ run'.todo = run.todo /\ run'.stage = 3
    <3> HIDE DEF shown, turned
    <3> QED BY <1>2, <2>1 DEF ShipmentInv, Types, IsRun, IsRepeated, GoesOn
  <2> QED BY <2>2, <2>3
<1>9. CalendarIsNear'
  <2>1. shown # <<>>
    BY <1>5, MonthIsShown
  <2>2. MonthsApart(shown, date) + (run.turned + 1) <= 3
    <3> HIDE DEF apart, shown, date
    <3> QED BY <1>3, <1>5
  <2>3. (MonthsApart(run.shown, DateFor(Head(run.todo))) + run.turned <= 3)'
    <3>1. DateFor(Head(run.todo))' = date
      BY <1>2, <1>8 DEF DateFor, Target
    <3> HIDE DEF date, shown
    <3> QED BY <1>8, <2>2, <3>1
  <2> HIDE DEF shown
  <2> QED BY <1>2, <1>5, <1>8, <2>1, <2>3 DEF CalendarIsNear, Months
<1> QED BY <1>1, <1>8, <1>9, CalendarRepeated

LEMMA DayKeeps ==
  ASSUME ShipmentInv, NEW picker \in {"ship", "deliver"}, ClickCalendarDay(picker), UNCHANGED asked
  PROVE  ShipmentInv'
<1>1. Todo(picker)
  BY DEF ClickCalendarDay
<1>2. /\ OnTheWay /\ Head(run.todo) = picker /\ run.stage = 3 /\ run.state = "running"
      /\ run.todo # <<>> /\ page.at = "form" /\ IsPage(page)
  BY <1>1, TodoPicker
<1>3. /\ \E s, d : page' = [page EXCEPT !.ship = s, !.deliver = d]
      /\ picker = "deliver" => page'.ship = page.ship
  <2>1. UNCHANGED page \/ page' \in ClickDay(page, picker, DateFor(picker))
    BY DEF ClickCalendarDay
  <2>2. CASE UNCHANGED page
    <3>1. page' = [page EXCEPT !.ship = page.ship, !.deliver = page.deliver]
      BY <1>2, <2>2 DEF IsPage
    <3> QED BY <2>2, <3>1
  <2>3. CASE page' \in ClickDay(page, picker, DateFor(picker)) /\ picker = "ship"
    <3>1. \/ page' = [page EXCEPT !.ship = DateFor(picker), !.deliver = page.deliver]
          \/ page' = [page EXCEPT !.ship = DateFor(picker), !.deliver = <<>>]
      BY <1>2, <2>3 DEF ClickDay, IsPage
    <3> QED BY <2>3, <3>1
  <2>4. CASE page' \in ClickDay(page, picker, DateFor(picker)) /\ picker # "ship"
    <3>1. page' = [page EXCEPT !.ship = page.ship, !.deliver = DateFor(picker)]
      BY <1>2, <2>4 DEF ClickDay, IsPage
    <3>2. page'.ship = page.ship
      BY <1>2, <3>1 DEF IsPage
    <3> QED BY <3>1, <3>2
  <2> QED BY <2>1, <2>2, <2>3, <2>4
<1>4. FormChanged /\ page'.mode = page.mode /\ page'.carrier = page.carrier
  BY <1>2, <1>3 DEF IsPage, FormChanged, SameCodes
<1>5. PageIsRight'
  BY <1>2, <1>4, RightForm DEF ShipmentInv
<1>6. run'.filled = run.filled => Keeps(picker)
  BY <1>3, <1>4 DEF FormChanged, Keeps
<1>7. CASE DateCompleted(page', picker, DateFor(picker))
  <2>1. Proceed
    BY <1>7 DEF ClickCalendarDay
  <2>2. IsDone /\ run'.filled = run.filled /\ run'.met = run.met
    BY <1>2, <2>1, ProceedIsDone
  <2>3. SeesTo(picker)
    <3>1. /\ picker = "ship" => page'.ship = asked.today
          /\ picker = "deliver" => page'.deliver = Target
      BY <1>7 DEF DateCompleted, DateFor
    <3> QED BY <3>1 DEF SeesTo
  <2>4. page'.at \in Reached(picker, page.layout, page.at)
    BY <1>2, <1>4 DEF Reached, FormChanged
  <2> QED BY <1>2, <1>4, <1>5, <1>6, <2>2, <2>3, <2>4, StepDone DEF FormChanged
<1>8. CASE ~DateCompleted(page', picker, DateFor(picker))
  <2>1. UNCHANGED run
    BY <1>8 DEF ClickCalendarDay
  <2>2. /\ IsRepeated /\ run'.met = run.met
        /\ run'.shown = run.shown /\ run'.turned = run.turned
    BY <1>2, <2>1, SameIsRepeated
  <2>3. CalendarIsNear'
    BY <2>1, <2>2, CalendarKept DEF ShipmentInv
  <2>4. Keeps(picker)
    BY <1>6, <2>1
  <2>5. WellPlaced(picker)'
    BY <1>2, <1>4 DEF WellPlaced, PlaceFor, FormChanged
  <2>6. WellPlaced(Head(run.todo))'
    BY <1>2, <2>1, <2>5
  <2> QED BY <1>2, <1>4, <1>5, <2>2, <2>3, <2>4, <2>6, StepRepeated DEF FormChanged
<1> QED BY <1>7, <1>8
----------------------------------------------------------------------------
(***************************************************************************)
(* Stage 4.                                                                *)
(***************************************************************************)
TrackingKept ==
  /\ IsPage(page') /\ page'.at = page.at /\ page'.region = page.region /\ page'.agl = page.agl
  /\ page'.skus = page.skus /\ page'.packing = page.packing /\ page'.layout = page.layout
  /\ page'.mode = page.mode /\ page'.carrier = page.carrier
  /\ page'.ship = page.ship /\ page'.deliver = page.deliver

LEMMA RightTracking ==
  ASSUME PageIsRight, UNCHANGED asked, TrackingKept
  PROVE  PageIsRight'
<1>1. /\ (page.at \notin Home => LabelMatchesSite(page.region, asked.site))'
      /\ (page.at \in Home \cup Unlisted \cup {"listed"} \cup Confirmed)'
  BY DEF PageIsRight, TrackingKept
<1>2. (page.at \notin Home \cup Unlisted => page.skus = LoadConsignmentSummary(asked.rows))'
  BY DEF PageIsRight, TrackingKept
<1>3. (page.at \in Confirmed => ~page.agl)'
  BY DEF PageIsRight, TrackingKept
<1>4. (page.at \in Packed => page.packing = Sheet)'
  BY DEF PageIsRight, TrackingKept, Sheet
<1>5. (page.at \in Accepted /\ page.layout \in {"3_2", "ca"} =>
         page.mode = Mode /\ page.carrier = "OTHER" /\ page.ship = asked.today /\ page.deliver = Target)'
  BY DEF PageIsRight, TrackingKept, Mode, Target
<1> QED BY <1>1, <1>2, <1>3, <1>4, <1>5 DEF PageIsRight

LEMMA TrackingStep ==
  ASSUME ShipmentInv, run.state = "running", run.stage = 4, page.at = "tracking", UNCHANGED asked,
         TrackingKept, CodesAreRight', Stage4Follows', GoesOn, run'.shown = <<>>, run'.turned = 0
  PROVE  ShipmentInv'
<1>1. Types'
  BY DEF ShipmentInv, Types, TrackingKept, GoesOn
<1>2. PageIsRight'
  BY RightTracking DEF ShipmentInv
<1>3. StageFollows' /\ FinishedIsShipped' /\ CalendarIsNear'
  BY DEF StageFollows, FinishedIsShipped, CalendarIsNear, GoesOn
<1>4. run'.todo # <<>> => WellPlaced(Head(run.todo))'
  <2>1. run'.todo \in {<<>>, <<"tabs">>, <<"tab">>, <<"details">>, <<"fill">>, <<"save">>, <<"shipped">>}
    BY DEF Stage4Follows
  <2>2. run'.todo # <<>> => Head(run'.todo) \in {"tabs", "tab", "details", "fill", "save", "shipped"}
    BY <2>1
  <2>3. page'.at = "tracking"
    BY DEF TrackingKept
  <2> QED BY <2>2, <2>3 DEF WellPlaced, PlaceFor
<1>5. page'.at \in PlaceAfter(4)
  BY DEF PlaceAfter, TrackingKept
<1>6. Undisturbed'
  BY <1>4, <1>5 DEF Undisturbed, GoesOn
<1> QED BY <1>1, <1>2, <1>3, <1>6 DEF ShipmentInv

LEMMA TrackingTodo ==
  ASSUME ShipmentInv, NEW what \in StageWords(4), Todo(what)
  PROVE  /\ run.stage = 4 /\ run.state = "running" /\ run.todo = <<what>> /\ page.at = "tracking"
         /\ Stage4Follows /\ run.shown = <<>> /\ run.turned = 0
         /\ IsPage(page) /\ IsRun(run) /\ run.met \in BOOLEAN /\ run.clicked \in Nat
<1>1. OnTheWay /\ Head(run.todo) = what /\ what \in StageWords(run.stage) /\ run.stage \in 1..4
  BY TodoIs
<1>2. run.stage = 4 /\ run.state = "running"
  BY <1>1 DEF StageWords, OnTheWay
<1>3. Stage4Follows
  BY <1>2 DEF ShipmentInv, StageFollows
<1>4. run.todo \in {<<"tabs">>, <<"tab">>, <<"details">>, <<"fill">>, <<"save">>, <<"shipped">>}
  BY <1>1, <1>3 DEF Stage4Follows, OnTheWay
<1>5. run.todo = <<what>>
  BY <1>1, <1>4
<1>6. run.shown = <<>> /\ run.turned = 0
  BY <1>2 DEF ShipmentInv, CalendarIsNear
<1> QED BY <1>2, <1>3, <1>5, <1>6 DEF Stage4Follows, ShipmentInv, Types

LEMMA TrackingFails ==
  ASSUME ShipmentInv, Fail(TRUE), UNCHANGED asked, UNCHANGED page
  PROVE  ShipmentInv'
  BY StageFailsHere

LEMMA TrackingSame ==
  ASSUME ShipmentInv, UNCHANGED page
  PROVE  TrackingKept /\ CodesAreRight'
<1>1. IsPage(page') /\ Elsewhere /\ SameCodes
  BY PageKept DEF ShipmentInv
<1> QED BY <1>1, CodesKept DEF ShipmentInv, TrackingKept

LEMMA ReadTabsKeeps ==
  ASSUME ShipmentInv, ReadTabs, UNCHANGED asked
  PROVE  ShipmentInv'
<1>1. Todo("tabs") /\ UNCHANGED page
  BY DEF ReadTabs
<1>2. /\ run.stage = 4 /\ run.state = "running" /\ run.todo = <<"tabs">> /\ page.at = "tracking"
      /\ Stage4Follows /\ run.shown = <<>> /\ run.turned = 0
      /\ IsPage(page) /\ IsRun(run) /\ run.met \in BOOLEAN /\ run.clicked \in Nat
  BY <1>1, TrackingTodo DEF StageWords
<1>3. run' = [Then EXCEPT !.todo = IF ReadTrackingTabs(page) = <<>> THEN <<>> ELSE <<"tab">>, !.tab = 1]
  BY DEF ReadTabs
<1>4. /\ GoesOn /\ run'.shown = <<>> /\ run'.turned = 0 /\ run'.clicked = 0 /\ run'.tab = 1
      /\ run'.todo = IF Shipments = <<>> THEN <<>> ELSE <<"tab">>
  BY <1>2, <1>3 DEF Then, IsRun, GoesOn, ReadTrackingTabs
<1>5. Stage4Follows'
  <2>1. CASE Shipments = <<>>
    <3>1. Labelled = {}
      BY <2>1 DEF Labelled
    <3> QED BY <1>1, <1>2, <1>4, <2>1, <3>1 DEF Stage4Follows, Labelled
  <2>2. CASE Shipments # <<>>
    <3>1. 1 \in DOMAIN Shipments
      BY <2>2, PagesAssumption
    <3>2. \A i \in 1..(run'.tab - 1) : Shipments[i] \in page'.shipped
      BY <1>4
    <3> QED BY <1>1, <1>2, <1>4, <2>2, <3>1, <3>2 DEF Stage4Follows
  <2> QED BY <2>1, <2>2
<1> QED BY <1>1, <1>2, <1>4, <1>5, TrackingSame, TrackingStep

LEMMA SelectTabKeeps ==
  ASSUME ShipmentInv, SelectTab, UNCHANGED asked
  PROVE  ShipmentInv'
<1>1. Todo("tab")
  BY DEF SelectTab
<1>2. /\ run.stage = 4 /\ run.state = "running" /\ run.todo = <<"tab">> /\ page.at = "tracking"
      /\ Stage4Follows /\ run.shown = <<>> /\ run.turned = 0
      /\ IsPage(page) /\ IsRun(run) /\ run.met \in BOOLEAN /\ run.clicked \in Nat
  BY <1>1, TrackingTodo DEF StageWords
<1>3. run.tab \in DOMAIN Shipments /\ (\A i \in 1..(run.tab - 1) : Shipments[i] \in page.shipped) /\ run.clicked = 0
  BY <1>2 DEF Stage4Follows
<1>4. /\ GoesOn /\ run'.shown = <<>> /\ run'.turned = 0 /\ run'.clicked = 0 /\ run'.tab = run.tab
      /\ run'.todo = <<"details">>
  BY <1>2, <1>3 DEF SelectTab, IsRun, GoesOn
<1>5. page' = ClickTrackingTab(page, run.tab) \/ UNCHANGED page
  BY DEF SelectTab
<1>6. /\ TrackingKept /\ page'.typed = page.typed /\ page'.shipped = page.shipped
      /\ page'.tab \in {page.tab, Shipments[run.tab]}
  BY <1>2, <1>5 DEF ClickTrackingTab, IsPage, TrackingKept
<1>7. CodesAreRight'
  <2>1. page'.tab \in Labelled \cup {"none"}
    BY <1>3, <1>6 DEF Labelled, ShipmentInv, CodesAreRight
  <2> QED BY <1>6, <2>1 DEF ShipmentInv, CodesAreRight
<1>8. Stage4Follows'
  <2>1. page'.at = "tracking"
    BY <1>2, <1>6 DEF TrackingKept
  <2> QED BY <1>3, <1>4, <1>6, <2>1 DEF Stage4Follows
<1> QED BY <1>2, <1>4, <1>6, <1>7, <1>8, TrackingStep

(* The shipment of the tab is shipped: the next one is done, or all are. *)
LEMMA NextTabKeeps ==
  ASSUME ShipmentInv, NextTab, UNCHANGED asked, UNCHANGED page,
         NEW what \in {"details", "shipped"}, Todo(what), Shipments[run.tab] \in page.shipped
  PROVE  ShipmentInv'
<1>1. /\ run.stage = 4 /\ run.state = "running" /\ run.todo = <<what>> /\ page.at = "tracking"
      /\ Stage4Follows /\ run.shown = <<>> /\ run.turned = 0
      /\ IsPage(page) /\ IsRun(run) /\ run.met \in BOOLEAN /\ run.clicked \in Nat
  BY TrackingTodo DEF StageWords
<1>2. run.tab \in DOMAIN Shipments /\ \A i \in 1..(run.tab - 1) : Shipments[i] \in page.shipped
  BY <1>1 DEF Stage4Follows
<1>3. DOMAIN Shipments = 1..Len(Shipments) /\ Len(Shipments) \in Nat
  BY PagesAssumption
<1>4. /\ GoesOn /\ run'.shown = <<>> /\ run'.turned = 0 /\ run'.clicked = 0 /\ run'.tab = run.tab + 1
      /\ run'.todo = IF run.tab = Len(Shipments) THEN <<>> ELSE <<"tab">>
  <2> DEFINE next == IF run.tab = Len(Shipments) THEN <<>> ELSE <<"tab">>
             after == run.tab + 1
  <2>1. run' = [run EXCEPT !.tab = after, !.clicked = 0, !.todo = next]
    BY <1>1 DEF NextTab, IsRun
  <2> HIDE DEF next, after
  <2>2. /\ run.stage = 4 /\ run.state = "running" /\ run.shown = <<>> /\ run.turned = 0
        /\ IsRun(run) /\ run.met \in BOOLEAN
    BY <1>1
  <2>3. IsRun(run)
    BY <2>2
  <2>4. IsRun(run')
    BY <2>1, <2>3 DEF IsRun
  <2>5. /\ run'.stage = run.stage /\ run'.state = run.state /\ run'.shown = run.shown
        /\ run'.turned = run.turned /\ run'.clicked = 0 /\ run'.tab = after /\ run'.todo = next
        /\ run'.met = run.met
    BY <2>1, <2>3 DEF IsRun
  <2>6. GoesOn
    BY <2>2, <2>4, <2>5 DEF GoesOn
  <2> QED BY <2>2, <2>5, <2>6 DEF next, after
<1>5. \A i \in 1..run.tab : Shipments[i] \in page.shipped
  <2> TAKE i \in 1..run.tab
  <2>1. i = run.tab \/ i \in 1..(run.tab - 1)
    BY <1>2, <1>3
  <2> QED BY <1>2, <2>1
<1>6. Stage4Follows'
  <2>1. CASE run.tab = Len(Shipments)
    <3>1. Labelled \subseteq page.shipped
      BY <1>3, <1>5, <2>1 DEF Labelled
    <3> QED BY <1>1, <1>4, <2>1, <3>1 DEF Stage4Follows, Labelled
  <2>2. CASE run.tab # Len(Shipments)
    <3>1. run'.tab \in DOMAIN Shipments /\ run'.tab - 1 = run.tab
      BY <1>2, <1>3, <1>4, <2>2
    <3>2. \A i \in 1..(run'.tab - 1) : Shipments[i] \in page'.shipped
      BY <1>5, <3>1
    <3> QED BY <1>1, <1>4, <2>2, <3>1, <3>2 DEF Stage4Follows
  <2> QED BY <2>1, <2>2
<1> QED BY <1>1, <1>4, <1>6, TrackingSame, TrackingStep

LEMMA DetailsKeeps ==
  ASSUME ShipmentInv, ShowDetails, UNCHANGED asked
  PROVE  ShipmentInv'
<1>1. Todo("details") /\ UNCHANGED page
  BY DEF ShowDetails
<1>2. /\ run.stage = 4 /\ run.state = "running" /\ run.todo = <<"details">> /\ page.at = "tracking"
      /\ Stage4Follows /\ run.shown = <<>> /\ run.turned = 0
      /\ IsPage(page) /\ IsRun(run) /\ run.met \in BOOLEAN /\ run.clicked \in Nat
  BY <1>1, TrackingTodo DEF StageWords
<1>3. /\ run.tab \in DOMAIN Shipments /\ (\A i \in 1..(run.tab - 1) : Shipments[i] \in page.shipped)
      /\ run.clicked = 0
  BY <1>2 DEF Stage4Follows
<1>4. CASE ShipmentCompletedVisible(page, Shipments[run.tab])
  <2>1. NextTab
    BY <1>4 DEF ShowDetails
  <2>2. Shipments[run.tab] \in page.shipped
    BY <1>4 DEF ShipmentCompletedVisible
  <2> QED BY <1>1, <2>1, <2>2, NextTabKeeps
<1>5. CASE ReadTrackingRows(page) # <<>> /\ ~ShipmentCompletedVisible(page, Shipments[run.tab])
  <2>1. run' = [run EXCEPT !.codes = ReadTrackingRows(page), !.todo = <<"fill">>]
    BY <1>5 DEF ShowDetails
  <2>2. /\ GoesOn /\ run'.shown = <<>> /\ run'.turned = 0 /\ run'.clicked = 0 /\ run'.tab = run.tab
        /\ run'.todo = <<"fill">> /\ run'.codes = ReadTrackingRows(page)
    BY <1>2, <1>3, <2>1 DEF IsRun, GoesOn
  <2>3. page.tab \in Labelled
    BY <1>5 DEF ReadTrackingRows, ShipmentInv, CodesAreRight
  <2>4. Boxes[page.tab] \in Nat
    <3>1. page.tab \in DOMAIN Boxes
      BY <2>3, PagesAssumption DEF Labelled
    <3> QED BY <3>1, PagesAssumption
  <2>5. run'.codes = [row \in 1..Boxes[page.tab] |-> Code(page.tab, row)]
    BY <1>5, <2>2 DEF ReadTrackingRows
  <2>6. Boxes[page.tab] > 0
    <3>1. SUFFICES ASSUME Boxes[page.tab] = 0 PROVE FALSE
      BY <2>4
    <3>2. run'.codes = [row \in {} |-> Code(page.tab, row)]
      BY <2>5, <3>1
    <3> QED BY <1>5, <2>2, <3>2
  <2>7. Stage4Follows'
    BY <1>1, <1>2, <1>3, <2>2, <2>3, <2>5, <2>6 DEF Stage4Follows, Labelled
  <2> QED BY <1>1, <1>2, <2>2, <2>7, TrackingSame, TrackingStep
<1>6. CASE Fail(TRUE)
  BY <1>1, <1>6, TrackingFails
<1> QED BY <1>4, <1>5, <1>6 DEF ShowDetails

LEMMA FillRowKeeps ==
  ASSUME ShipmentInv, FillRow, UNCHANGED asked
  PROVE  ShipmentInv'
<1>1. Todo("fill")
  BY DEF FillRow
<1>2. /\ run.stage = 4 /\ run.state = "running" /\ run.todo = <<"fill">> /\ page.at = "tracking"
      /\ Stage4Follows /\ run.shown = <<>> /\ run.turned = 0
      /\ IsPage(page) /\ IsRun(run) /\ run.met \in BOOLEAN /\ run.clicked \in Nat
  BY <1>1, TrackingTodo DEF StageWords
<1> DEFINE s == page.tab
           r == run.clicked + 1
<1>3. /\ run.tab \in DOMAIN Shipments /\ (\A i \in 1..(run.tab - 1) : Shipments[i] \in page.shipped)
      /\ s \in Labelled
      /\ run.codes = [row \in 1..Boxes[s] |-> Code(s, row)] /\ run.clicked < Boxes[s]
  BY <1>2 DEF Stage4Follows
<1>4. Boxes[s] \in Nat
  <2>1. s \in DOMAIN Boxes
    BY <1>3, PagesAssumption DEF Labelled
  <2> QED BY <2>1, PagesAssumption
<1>5. r \in 1..Boxes[s] /\ run.codes[r] = Code(s, r) /\ Len(run.codes) = Boxes[s]
  <2>1. r \in 1..Boxes[s]
    BY <1>2, <1>3, <1>4
  <2>2. Len([row \in 1..Boxes[s] |-> Code(s, row)]) = Boxes[s]
    BY <1>4
  <2> QED BY <1>3, <2>1, <2>2
<1>6. page' = [page EXCEPT !.typed[s][r] = Code(s, r)]
  BY <1>5 DEF FillRow, FillTrackingRowInput
<1> HIDE DEF r
<1>7. /\ TrackingKept /\ page'.tab = page.tab /\ page'.shipped = page.shipped
      /\ page'.typed = [page.typed EXCEPT ![s] = [@ EXCEPT ![r] = Code(s, r)]]
  BY <1>2, <1>6 DEF IsPage, TrackingKept
<1>8. CodesAreRight'
  <2>1. DOMAIN page'.typed = Labelled
    BY <1>7 DEF ShipmentInv, CodesAreRight
  <2>2. ASSUME NEW t \in Labelled
        PROVE  /\ DOMAIN page'.typed[t] = 1..Boxes[t]
               /\ \A row \in 1..Boxes[t] :
                    /\ page'.typed[t][row] \in {<<>>, Code(t, row)}
                    /\ t \in page'.shipped => page'.typed[t][row] = Code(t, row)
    <3>1. /\ DOMAIN page.typed = Labelled /\ DOMAIN page.typed[t] = 1..Boxes[t]
          /\ \A row \in 1..Boxes[t] :
               /\ page.typed[t][row] \in {<<>>, Code(t, row)}
               /\ t \in page.shipped => page.typed[t][row] = Code(t, row)
      BY DEF ShipmentInv, CodesAreRight
    <3>2. CASE t # s
      <4>1. page'.typed[t] = page.typed[t]
        BY <1>3, <1>7, <3>1, <3>2
      <4> QED BY <1>7, <3>1, <4>1
    <3>3. CASE t = s
      <4>1. page'.typed[t] = [page.typed[t] EXCEPT ![r] = Code(t, r)]
        BY <1>3, <1>7, <3>1, <3>3
      <4> QED BY <1>5, <1>7, <3>1, <4>1
    <3> QED BY <3>2, <3>3
  <2>3. page'.tab \in Labelled \cup {"none"}
    BY <1>3, <1>7
  <2>4. (DOMAIN page.typed = Labelled)' /\ (page.tab \in Labelled \cup {"none"})'
    BY <2>1, <2>3 DEF Labelled
  <2>5. (\A t \in Labelled :
           /\ DOMAIN page.typed[t] = 1..Boxes[t]
           /\ \A row \in 1..Boxes[t] :
                /\ page.typed[t][row] \in {<<>>, Code(t, row)}
                /\ t \in page.shipped => page.typed[t][row] = Code(t, row))'
    BY <2>2 DEF Labelled, Code
  <2> QED BY <2>4, <2>5 DEF CodesAreRight
<1>9. page'.at = "tracking"
  BY <1>2, <1>7 DEF TrackingKept
<1>10. CASE r = Len(run.codes) /\ run' = [run EXCEPT !.todo = <<"save">>]
  <2>1. /\ GoesOn /\ run'.shown = <<>> /\ run'.turned = 0 /\ run'.tab = run.tab /\ run'.todo = <<"save">>
    BY <1>2, <1>10 DEF IsRun, GoesOn
  <2>2. Stage4Follows'
    BY <1>3, <1>7, <1>9, <2>1 DEF Stage4Follows, Labelled
  <2> QED BY <1>2, <1>7, <1>8, <2>1, <2>2, TrackingStep
<1>11. CASE r # Len(run.codes) /\ Repeat
  <2>1. /\ GoesOn /\ run'.shown = <<>> /\ run'.turned = 0 /\ run'.tab = run.tab /\ run'.todo = <<"fill">>
        /\ run'.codes = run.codes /\ run'.clicked = r
    BY <1>2, <1>11 DEF Repeat, IsRun, GoesOn, r
  <2>2. r < Boxes[s]
    BY <1>4, <1>5, <1>11
  <2>3. Stage4Follows'
    BY <1>3, <1>7, <1>9, <2>1, <2>2 DEF Stage4Follows, Labelled, Code
  <2> QED BY <1>2, <1>7, <1>8, <2>1, <2>3, TrackingStep
<1> QED BY <1>10, <1>11 DEF FillRow, r

LEMMA SaveKeeps ==
  ASSUME ShipmentInv, Save, UNCHANGED asked
  PROVE  ShipmentInv'
<1>1. Todo("save")
  BY DEF Save
<1>2. /\ run.stage = 4 /\ run.state = "running" /\ run.todo = <<"save">> /\ page.at = "tracking"
      /\ Stage4Follows /\ run.shown = <<>> /\ run.turned = 0
      /\ IsPage(page) /\ IsRun(run) /\ run.met \in BOOLEAN /\ run.clicked \in Nat
  BY <1>1, TrackingTodo DEF StageWords
<1>3. /\ run.tab \in DOMAIN Shipments /\ (\A i \in 1..(run.tab - 1) : Shipments[i] \in page.shipped)
      /\ page.tab \in Labelled
  BY <1>2 DEF Stage4Follows
<1>4. /\ GoesOn /\ run'.shown = <<>> /\ run'.turned = 0 /\ run'.tab = run.tab /\ run'.todo = <<"shipped">>
  BY <1>2 DEF Save, IsRun, GoesOn
<1>5. ASSUME TrackingKept, page.shipped \subseteq page'.shipped
      PROVE  Stage4Follows'
  <2>1. page'.at = "tracking" /\ \A i \in 1..(run.tab - 1) : Shipments[i] \in page'.shipped
    BY <1>2, <1>3, <1>5 DEF TrackingKept
  <2> QED BY <1>3, <1>4, <2>1 DEF Stage4Follows
<1>6. CASE UNCHANGED page
  <2>1. TrackingKept /\ CodesAreRight'
    BY <1>6, TrackingSame
  <2> QED BY <1>2, <1>4, <1>5, <1>6, <2>1, TrackingStep
<1>7. CASE /\ \A row \in 1..Boxes[page.tab] : page.typed[page.tab][row] # <<>>
           /\ page' = [page EXCEPT !.shipped = @ \cup {page.tab}]
  <2>1. /\ TrackingKept /\ page'.tab = page.tab /\ page'.typed = page.typed
        /\ page'.shipped = page.shipped \cup {page.tab}
    BY <1>2, <1>7 DEF IsPage, TrackingKept
  <2>2. CodesAreRight'
    <3>1. ASSUME NEW t \in Labelled, NEW row \in 1..Boxes[t], t \in page'.shipped
          PROVE  page'.typed[t][row] = Code(t, row)
      <4>1. page.typed[t][row] \in {<<>>, Code(t, row)}
        BY DEF ShipmentInv, CodesAreRight
      <4>2. CASE t = page.tab
        BY <1>7, <2>1, <4>1, <4>2
      <4>3. CASE t # page.tab
        BY <2>1, <3>1, <4>3 DEF ShipmentInv, CodesAreRight
      <4> QED BY <4>2, <4>3
    <3>2. (\A t \in Labelled :
             /\ DOMAIN page.typed[t] = 1..Boxes[t]
             /\ \A row \in 1..Boxes[t] :
                  /\ page.typed[t][row] \in {<<>>, Code(t, row)}
                  /\ t \in page.shipped => page.typed[t][row] = Code(t, row))'
      BY <2>1, <3>1 DEF ShipmentInv, CodesAreRight, Labelled, Code
    <3> QED BY <2>1, <3>2 DEF ShipmentInv, CodesAreRight, Labelled
  <2> QED BY <1>2, <1>4, <1>5, <2>1, <2>2, TrackingStep
<1> QED BY <1>6, <1>7 DEF Save, SaveTracking

LEMMA ShippedKeeps ==
  ASSUME ShipmentInv, AwaitShipped, UNCHANGED asked
  PROVE  ShipmentInv'
<1>1. Todo("shipped") /\ UNCHANGED page
  BY DEF AwaitShipped
<1>2. CASE ShipmentCompletedVisible(page, Shipments[run.tab])
  <2>1. NextTab
    BY <1>2 DEF AwaitShipped
  <2>2. Shipments[run.tab] \in page.shipped
    BY <1>2 DEF ShipmentCompletedVisible
  <2> QED BY <1>1, <2>1, <2>2, NextTabKeeps
<1>3. CASE Fail(TRUE)
  BY <1>1, <1>3, TrackingFails
<1> QED BY <1>2, <1>3 DEF AwaitShipped
----------------------------------------------------------------------------
(***************************************************************************)
(* The agent, and what Amazon does by itself.                              *)
(***************************************************************************)

(* A stage that follows its predecessor finds the page it begins on. *)
LEMMA FollowsIsReady ==
  ASSUME ShipmentInv, ~run.met, NEW stage \in 1..4, Follows(stage)
  PROVE  Ready(stage) /\ (stage = 3 => page.at = "carrier")
<1>1. /\ run.stage \in 0..4 /\ run.state \in {"idle", "finished", "returned", "running"}
      /\ run.state = "finished" => page.at \in PlaceAfter(run.stage)
      /\ run.state = "returned" => page.at = "units"
  BY DEF ShipmentInv, Types, Undisturbed
<1>2. CASE run.state = "idle"
  BY <1>2 DEF Follows, Ready
<1>3. CASE run.state = "returned"
  BY <1>1, <1>3 DEF Follows, Ready
<1>4. CASE run.state = "finished"
  <2>1. stage = run.stage + 1 /\ page.at \in PlaceAfter(run.stage)
    BY <1>1, <1>4 DEF Follows
  <2>2. CASE run.stage = 0
    BY <2>1, <2>2 DEF Ready
  <2>3. CASE run.stage = 1
    BY <2>1, <2>3 DEF PlaceAfter, Ready
  <2>4. CASE run.stage = 2
    BY <2>1, <2>4 DEF PlaceAfter, Ready, ProbeOwnCarrierReady, OnCarrierPage
  <2>5. CASE run.stage = 3
    BY <2>1, <2>5 DEF PlaceAfter, Ready, TrackingInputReady
  <2> QED BY <1>1, <2>1, <2>2, <2>3, <2>4, <2>5
<1>5. CASE run.state = "running"
  BY <1>5 DEF Follows
<1> QED BY <1>1, <1>2, <1>3, <1>4, <1>5

(* A stage begins with all of its steps, and with the first of them in its place. *)
LEMMA BeginningFollows ==
  ASSUME ShipmentInv, UNCHANGED asked, UNCHANGED page, NEW stage \in 1..4, Ready(stage),
         run'.stage = stage, run'.state = "running", run'.todo = PlanOf(stage)
  PROVE  /\ StageFollows'
         /\ stage # 3 \/ page.at = "carrier" => run'.todo # <<>> /\ WellPlaced(Head(run.todo))'
<1>1. page.layout \in LayoutNames
  BY KnownLayout DEF ShipmentInv
<1>2. CASE stage = 1
  <2>1. run'.todo = Stage1
    BY <1>2 DEF PlanOf
  <2>2. StageFollows'
    BY <1>2, <2>1 DEF StageFollows, Stage1Follows
  <2>3. WellPlaced("region")'
    BY DEF WellPlaced, PlaceFor
  <2> QED BY <1>2, <2>1, <2>2, <2>3, Switching
<1>3. CASE stage = 2
  <2>1. run'.todo = Left(Stage2, 1)
    BY <1>3, Stage2Whole DEF PlanOf
  <2>2. Stage2Follows'
    BY <2>1 DEF Stage2Follows
  <2>3. StageFollows'
    BY <1>3, <2>2 DEF StageFollows
  <2>4. run'.todo # <<>> /\ Head(run'.todo) = "packing_card"
    <3>1. 1 \in 1..Len(Stage2)
      BY Stage2Words
    <3> QED BY <2>1, <3>1, Stage2Words, LeftStep, PackingWords
  <2>5. WellPlaced("packing_card")'
    BY <1>3 DEF WellPlaced, PlaceFor, Ready
  <2> QED BY <1>3, <2>3, <2>4, <2>5
<1>4. CASE stage = 3
  <2> DEFINE full == FullPlan(page.layout)
  <2>1. PICK n \in 1..4 :
          /\ OwnCarrierPlan(page) = Left(full, n)
          /\ n = 1 \/ page.at = "form"
          /\ page.layout \in {"3_2", "ca"} => n <= 2
    BY <1>1, <1>4, Stage3Whole DEF Ready
  <2>2. run'.todo = Left(full, n)
    BY <1>4, <2>1 DEF PlanOf
  <2>3. /\ full \in Seq(WordsOf(full)) /\ Len(full) \in Nat /\ Len(full) >= 9
        /\ page.layout \in {"3_2", "ca"} => Len(full) \in {9, 10}
    <3>1. Len(full) = CASE page.layout = "legacy" -> 12 [] page.layout = "3_2" -> 10 [] OTHER -> 9
      BY <1>1, Stage3Words
    <3> QED BY <1>1, <3>1, Stage3Words
  <2>4. n \in 1..Len(full)
    BY <2>1, <2>3
  <2>5. full[1] = "own_carrier"
    BY <1>1, CarrierWords DEF LayoutNames
  <2> HIDE DEF full
  <2>6. run'.todo # <<>> /\ Head(run'.todo) = full[n] /\ Len(run'.todo) = Len(full) - n + 1
    BY <2>2, <2>3, <2>4, LeftStep
  <2>7. page.layout \in {"3_2", "ca"} => ~(Len(run'.todo) < 8)
    BY <2>1, <2>3, <2>6
  <2>8. page.layout \in {"3_2", "ca"} =>
          ~(Len(run'.todo) < 8) /\ ~(Len(run'.todo) < 7) /\ ~(Len(run'.todo) < 6)
    BY <2>1, <2>3, <2>6
  <2>9. \E k \in 1..(Len(full) + 1) : run'.todo = Left(full, k)
    BY <2>2, <2>3, <2>4
  <2>10. Stage3Follows'
    BY <2>8, <2>9 DEF Stage3Follows, full
  <2>11. StageFollows'
    BY <1>4, <2>10 DEF StageFollows
  <2>12. page.at = "carrier" => WellPlaced("own_carrier")' /\ n = 1
    BY <2>1 DEF WellPlaced, PlaceFor
  <2> QED BY <1>4, <2>5, <2>6, <2>11, <2>12
<1>5. CASE stage = 4
  <2>1. run'.todo = <<"tabs">> /\ page.at = "tracking"
    BY <1>5 DEF PlanOf, Stage4, Ready, TrackingInputReady
  <2>2. Stage4Follows'
    BY <2>1 DEF Stage4Follows
  <2>3. StageFollows'
    BY <1>5, <2>2 DEF StageFollows
  <2>4. WellPlaced("tabs")'
    BY <2>1 DEF WellPlaced, PlaceFor
  <2> QED BY <1>5, <2>1, <2>3, <2>4
<1> QED BY <1>2, <1>3, <1>4, <1>5

LEMMA BeginKeeps ==
  ASSUME ShipmentInv, UNCHANGED asked, NEW stage \in 1..4, BeginStage(stage)
  PROVE  ShipmentInv'
<1>1. Follows(stage) /\ UNCHANGED page
  BY DEF BeginStage
<1> DEFINE todo == IF Ready(stage) THEN PlanOf(stage) ELSE <<>>
           state == IF Ready(stage) THEN "running" ELSE "refused"
           begun == run.begun + 1
<1>2. run' = [Rest EXCEPT !.stage = stage, !.begun = begun, !.met = run.met,
                          !.todo = todo, !.state = state]
  BY DEF BeginStage
<1> HIDE DEF todo, state, begun
<1>3. /\ run'.stage = stage /\ run'.state = state /\ run'.todo = todo /\ run'.met = run.met
      /\ run'.clicked = 0 /\ run'.turned = 0 /\ run'.shown = <<>>
  BY <1>2 DEF Rest
<1>4. IsRun(run')
  BY <1>2 DEF Rest, IsRun
<1>5. IsPage(page') /\ Elsewhere /\ SameCodes
  BY <1>1, PageKept DEF ShipmentInv
<1>6. Types'
  <2>1. state \in {"running", "refused"}
    BY DEF state
  <2>2. page'.layout \in Layouts /\ asked' \in Tasks /\ run'.met \in BOOLEAN
    BY <1>1, <1>3 DEF ShipmentInv, Types
  <2> QED BY <1>3, <1>4, <1>5, <2>1, <2>2 DEF Types
<1>7. PageIsRight' /\ CodesAreRight'
  BY <1>1, <1>5, RightElsewhere, NoFurtherThere, CodesKept DEF ShipmentInv
<1>8. FinishedIsShipped'
  BY <1>3 DEF FinishedIsShipped, state
<1>9. CalendarIsNear'
  BY <1>3 DEF CalendarIsNear
<1>10. StageFollows' /\ Undisturbed'
  <2>1. CASE Ready(stage)
    <3>1. run'.state = "running" /\ run'.todo = PlanOf(stage)
      BY <1>3, <2>1 DEF state, todo
    <3>2. /\ StageFollows'
          /\ stage # 3 \/ page.at = "carrier" => run'.todo # <<>> /\ WellPlaced(Head(run.todo))'
      BY <1>1, <1>3, <2>1, <3>1, BeginningFollows
    <3>3. ~run'.met => stage # 3 \/ page.at = "carrier"
      BY <1>1, <1>3, FollowsIsReady
    <3>4. Undisturbed'
      BY <1>3, <3>1, <3>2, <3>3 DEF Undisturbed
    <3> QED BY <3>2, <3>4
  <2>2. CASE ~Ready(stage)
    <3>1. run'.state = "refused"
      BY <1>3, <2>2 DEF state
    <3>2. run'.met
      <4>1. SUFFICES ASSUME ~run.met PROVE FALSE
        BY <1>3 DEF ShipmentInv, Types
      <4> QED BY <1>1, <2>2, <4>1, FollowsIsReady
    <3> QED BY <3>1, <3>2 DEF StageFollows, Undisturbed
  <2> QED BY <2>1, <2>2
<1> QED BY <1>6, <1>7, <1>8, <1>9, <1>10 DEF ShipmentInv

LEMMA FinishKeeps ==
  ASSUME ShipmentInv, FinishStage, UNCHANGED asked
  PROVE  ShipmentInv'
<1>1. UNCHANGED page /\ run.state = "running" /\ run.todo = <<>>
  BY DEF FinishStage
<1>2. /\ IsRun(run') /\ run'.state = "finished" /\ run'.met = run.met
      /\ run'.stage = run.stage /\ run'.shown = run.shown /\ run'.turned = run.turned
      /\ run'.clicked = run.clicked
  BY DEF FinishStage, ShipmentInv, Types, IsRun
<1>3. IsPage(page') /\ Elsewhere /\ SameCodes
  BY <1>1, PageKept DEF ShipmentInv
<1>4. Types'
  BY <1>1, <1>2 DEF ShipmentInv, Types
<1>5. PageIsRight' /\ CodesAreRight'
  BY <1>1, <1>3, RightElsewhere, NoFurtherThere, CodesKept DEF ShipmentInv
<1>6. StageFollows'
  BY <1>2 DEF StageFollows
<1>7. FinishedIsShipped'
  <2>1. run.stage = 4 => Labelled \subseteq page.shipped
    BY <1>1 DEF ShipmentInv, StageFollows, Stage4Follows
  <2> QED BY <1>1, <1>2, <2>1 DEF FinishedIsShipped, Labelled
<1>8. Undisturbed'
  <2>1. ~run.met => page.at \in PlaceAfter(run.stage)
    BY <1>1 DEF ShipmentInv, Undisturbed
  <2> QED BY <1>1, <1>2, <2>1 DEF Undisturbed
<1>9. CalendarIsNear'
  BY <1>2 DEF ShipmentInv, CalendarIsNear
<1> QED BY <1>4, <1>5, <1>6, <1>7, <1>8, <1>9 DEF ShipmentInv

LEMMA FallBackKeeps ==
  ASSUME ShipmentInv, FallBackToStep2, UNCHANGED asked
  PROVE  ShipmentInv'
<1>1. page.at \in OnStep3 /\ page' = [page EXCEPT !.at = "units", !.packing = <<>>]
  BY DEF FallBackToStep2, OnCarrierPage, OnStep3, BackToStep2
<1>2. /\ IsPage(page') /\ SameCodes /\ page'.at = "units" /\ page'.layout = page.layout
      /\ page'.region = page.region /\ page'.agl = page.agl /\ page'.skus = page.skus
      /\ page'.mode = page.mode /\ page'.carrier = page.carrier
      /\ page'.ship = page.ship /\ page'.deliver = page.deliver
  BY <1>1 DEF ShipmentInv, Types, IsPage, SameCodes
<1>3. /\ IsRun(run') /\ run'.state = run.state /\ run'.stage = run.stage /\ run'.todo = run.todo
      /\ run'.shown = run.shown /\ run'.turned = run.turned /\ run'.clicked = run.clicked
      /\ run'.filled = run.filled
  <2>1. CASE run.stage = 3 /\ run.state = "running"
    BY <2>1 DEF FallBackToStep2, ShipmentInv, Types
  <2>2. CASE ~(run.stage = 3 /\ run.state = "running")
    BY <2>2 DEF FallBackToStep2, ShipmentInv, Types, IsRun
  <2> QED BY <2>1, <2>2
<1>4. IF run.stage = 3 /\ run.state = "running" THEN run' = run ELSE run'.met = TRUE
  BY DEF FallBackToStep2, ShipmentInv, Types, IsRun
<1>5. Types'
  BY <1>2, <1>3, <1>4 DEF ShipmentInv, Types
<1>6. PageIsRight'
  <2>1. ~page.agl /\ LabelMatchesSite(page.region, asked.site) /\ page.skus = LoadConsignmentSummary(asked.rows)
    BY <1>1 DEF ShipmentInv, PageIsRight, OnStep3, Home, Unlisted, Confirmed, Packed
  <2> QED BY <1>2, <2>1 DEF PageIsRight, Home, Unlisted, Confirmed, Packed, OnStep3, Accepted
<1>7. CodesAreRight'
  BY <1>2, CodesKept DEF ShipmentInv
<1>8. StageFollows'
  <2>1. run.state = "running" => run.stage # 4
    BY <1>1 DEF ShipmentInv, StageFollows, Stage4Follows, OnStep3
  <2>2. Stage1Follows => Stage1Follows'
    BY <1>2, <1>3 DEF Stage1Follows
  <2>3. Stage2Follows => Stage2Follows'
    BY <1>2, <1>3 DEF Stage2Follows
  <2>4. Stage3Follows => Stage3Follows'
    BY <1>2, <1>3 DEF Stage3Follows, Mode, Target
  <2> QED BY <1>3, <2>1, <2>2, <2>3, <2>4 DEF ShipmentInv, StageFollows
<1>9. FinishedIsShipped'
  BY <1>2, <1>3 DEF ShipmentInv, FinishedIsShipped, SameCodes, Labelled
<1>10. Undisturbed'
  <2>1. CASE run.stage = 3 /\ run.state = "running"
    <3>1. ~run.met => run.todo # <<>>
      BY <1>1, <2>1 DEF ShipmentInv, Undisturbed, PlaceAfter, OnStep3
    <3>2. BackAtStep2'
      BY <1>2, <1>3, <2>1 DEF BackAtStep2
    <3>3. run' = run
      BY <1>4, <2>1
    <3> QED BY <2>1, <3>1, <3>2, <3>3 DEF Undisturbed
  <2>2. CASE ~(run.stage = 3 /\ run.state = "running")
    BY <1>4, <2>2 DEF Undisturbed
  <2> QED BY <2>1, <2>2
<1>11. CalendarIsNear'
  BY <1>3, CalendarKept DEF ShipmentInv
<1> QED BY <1>5, <1>6, <1>7, <1>8, <1>9, <1>10, <1>11 DEF ShipmentInv

LEMMA RestartKeeps ==
  ASSUME ShipmentInv, BrowserRestarts, UNCHANGED asked
  PROVE  ShipmentInv'
<1>1. PICK region \in Regions : page' = [page EXCEPT !.at = "home", !.region = region, !.chosen = region]
  BY DEF BrowserRestarts
<1>2. IsPage(page') /\ SameCodes /\ page'.at = "home" /\ page'.layout = page.layout
  BY <1>1 DEF ShipmentInv, Types, IsPage, SameCodes
<1> DEFINE state == IF run.state = "running" THEN "failed" ELSE run.state
<1>3. run' = [run EXCEPT !.met = TRUE, !.state = state]
  BY DEF BrowserRestarts, ShipmentInv, Types, IsRun
<1> HIDE DEF state
<1>4. /\ IsRun(run') /\ run'.state = state /\ run'.stage = run.stage /\ run'.met = TRUE
      /\ run'.shown = run.shown /\ run'.turned = run.turned /\ run'.clicked = run.clicked
  BY <1>3 DEF ShipmentInv, Types, IsRun
<1>5. /\ state # "running" /\ (state = "finished" => run.state = "finished")
      /\ state \in {"idle", "running", "finished", "returned", "failed", "refused", "rejected"}
  BY DEF state, ShipmentInv, Types
<1>6. Types'
  BY <1>2, <1>4, <1>5 DEF ShipmentInv, Types
<1>7. PageIsRight'
  BY <1>2 DEF PageIsRight, Home, Unlisted, Confirmed, Packed, OnStep3, Accepted
<1>8. CodesAreRight'
  BY <1>2, CodesKept DEF ShipmentInv
<1>9. StageFollows' /\ Undisturbed'
  BY <1>4, <1>5 DEF StageFollows, Undisturbed
<1>10. FinishedIsShipped'
  BY <1>2, <1>4, <1>5 DEF ShipmentInv, FinishedIsShipped, SameCodes, Labelled
<1>11. CalendarIsNear'
  BY <1>4, <1>5 DEF ShipmentInv, CalendarIsNear
<1> QED BY <1>6, <1>7, <1>8, <1>9, <1>10, <1>11 DEF ShipmentInv

LEMMA NothingHappens ==
  ASSUME ShipmentInv, UNCHANGED vars
  PROVE  ShipmentInv'
<1>1. page' = page /\ run' = run /\ asked' = asked
  BY DEF vars
<1>2. Types' /\ PageIsRight' /\ CodesAreRight'
  BY <1>1 DEF ShipmentInv, Types, PageIsRight, CodesAreRight, Labelled, Sheet, Mode, Target
<1>3. StageFollows'
  <2>1. Stage1Follows => Stage1Follows'
    BY <1>1 DEF Stage1Follows
  <2>2. Stage2Follows => Stage2Follows'
    BY <1>1 DEF Stage2Follows
  <2>3. Stage3Follows => Stage3Follows'
    BY <1>1 DEF Stage3Follows, Mode, Target
  <2>4. Stage4Follows => Stage4Follows'
    BY <1>1 DEF Stage4Follows, Labelled, Code
  <2> QED BY <1>1, <2>1, <2>2, <2>3, <2>4 DEF ShipmentInv, StageFollows
<1>4. FinishedIsShipped'
  BY <1>1 DEF ShipmentInv, FinishedIsShipped, Labelled
<1>5. Undisturbed'
  BY <1>1 DEF ShipmentInv, Undisturbed, BackAtStep2, WellPlaced
<1>6. CalendarIsNear'
  BY <1>1, CalendarKept DEF ShipmentInv
<1> QED BY <1>2, <1>3, <1>4, <1>5, <1>6 DEF ShipmentInv
----------------------------------------------------------------------------
(***************************************************************************)
(* The quantities of a sheet.                                              *)
(***************************************************************************)
LEMMA HighestBox ==
  ASSUME NEW rows, IsFiniteSet(DOMAIN rows), \A i \in DOMAIN rows : rows[i].box \in Nat,
         BoxNumbers(rows) # {}
  PROVE  /\ ExtractBoxCount(rows) \in Nat
         /\ \A i \in DOMAIN rows : rows[i].box # 0 => rows[i].box \in 1..ExtractBoxCount(rows)
<1> DEFINE D == DOMAIN rows
           G == {T \in SUBSET D : T = {} \/ \E m \in T : \A i \in T : rows[m].box >= rows[i].box}
<1>1. ASSUME NEW T \in SUBSET D, \A U \in SUBSET T : U # T => U \in G
      PROVE  T \in G
  <2>1. CASE T = {}
    BY <2>1
  <2>2. CASE T # {}
    <3>1. PICK x : x \in T
      BY <2>2
    <3>2. T \ {x} \in G
      BY <1>1, <3>1
    <3>3. \A i \in T : rows[i].box \in Nat
      OBVIOUS
    <3>4. CASE T \ {x} = {}
      BY <3>1, <3>3, <3>4
    <3>5. CASE T \ {x} # {}
      <4>1. PICK m \in T \ {x} : \A i \in T \ {x} : rows[m].box >= rows[i].box
        BY <3>2, <3>5
      <4>2. CASE rows[m].box >= rows[x].box
        BY <3>3, <4>1, <4>2
      <4>3. CASE ~(rows[m].box >= rows[x].box)
        <5>1. \A i \in T : rows[x].box >= rows[i].box
          BY <3>1, <3>3, <4>1, <4>3
        <5> QED BY <3>1, <5>1
      <4> QED BY <4>2, <4>3
    <3> QED BY <3>4, <3>5
  <2> QED BY <2>1, <2>2
<1> HIDE DEF G
<1>2. D \in G
  BY <1>1, SubsetInduction
<1>3. D # {}
  BY DEF BoxNumbers
<1>4. PICK m \in D : \A i \in D : rows[m].box >= rows[i].box
  BY <1>2, <1>3 DEF G
<1>5. rows[m].box \in BoxNumbers(rows) /\ \A b \in BoxNumbers(rows) : rows[m].box >= b
  <2>1. PICK i \in D : rows[i].box # 0
    BY DEF BoxNumbers
  <2>2. rows[m].box # 0
    BY <1>4, <2>1
  <2> QED BY <1>4, <2>2 DEF BoxNumbers
<1> DEFINE total == ExtractBoxCount(rows)
<1>6. total \in BoxNumbers(rows) /\ \A b \in BoxNumbers(rows) : total >= b
  BY <1>5 DEF ExtractBoxCount, Max
<1>7. total \in Nat
  BY <1>6 DEF BoxNumbers
<1> HIDE DEF total
<1>8. ASSUME NEW i \in D, rows[i].box # 0
      PROVE  rows[i].box \in 1..total
  <2>1. rows[i].box \in BoxNumbers(rows) /\ rows[i].box \in Nat
    BY <1>8 DEF BoxNumbers
  <2> QED BY <1>6, <1>7, <1>8, <2>1
<1> QED BY <1>7, <1>8 DEF total

(* When every row has a box, what is packed of a SKU is what is listed of it. *)
LEMMA PackedIsListed ==
  ASSUME NEW rows, IsFiniteSet(DOMAIN rows),
         \A i \in DOMAIN rows : rows[i].box \in Nat /\ rows[i].qty \in Nat,
         BoxNumbers(rows) # {}, AllBoxed(rows), NEW sku \in Skus(rows),
         NEW sheet, sheet = FillMultiBoxStep2Template(rows, Step2Template(Skus(rows), ExtractBoxCount(rows)))
  PROVE  PackedQuantity(sheet, sku) = LoadConsignmentSummary(rows)[sku]
<1> DEFINE D == DOMAIN rows
           I == {i \in D : rows[i].sku = sku}
           F == [i \in I |-> rows[i].qty]
           total == ExtractBoxCount(rows)
           boxes == BoxNumbers(rows)
           Of(b) == {i \in I : rows[i].box = b}
           K == {c \in Skus(rows) \X (1..total) : c[1] = sku}
           class == [i \in I |-> <<sku, rows[i].box>>]
<1>1. total \in Nat /\ \A i \in D : rows[i].box \in 1..total
  BY HighestBox DEF AllBoxed
<1>2. {i \in D : rows[i].box # 0} = D
  BY DEF AllBoxed
<1>3. /\ DOMAIN sheet.cells = Skus(rows) \X (1..total)
      /\ \A c \in Skus(rows) \X (1..total) :
           sheet.cells[c] =
             IF c \in Skus(rows) \X boxes /\ SumQuantity(rows, {i \in D : rows[i].sku = c[1] /\ rows[i].box = c[2]}) > 0
             THEN SumQuantity(rows, {i \in D : rows[i].sku = c[1] /\ rows[i].box = c[2]}) ELSE 0
  <2> DEFINE cells == [c \in Skus(rows) \X boxes |->
                         SumQuantity(rows, {i \in D : rows[i].sku = c[1] /\ rows[i].box = c[2]})]
  <2>1. ReadSourceData(rows).cells = cells
    BY <1>2 DEF ReadSourceData, Skus
  <2>2. sheet.cells = [c \in Skus(rows) \X (1..total) |->
                         IF c \in DOMAIN cells /\ cells[c] > 0 THEN cells[c] ELSE 0]
    <3> HIDE DEF cells, total
    <3>1. Step2Template(Skus(rows), total).cells = [c \in Skus(rows) \X (1..total) |-> 0]
      BY DEF Step2Template
    <3>2. sheet.cells = [c \in DOMAIN Step2Template(Skus(rows), total).cells |->
                           IF c \in DOMAIN cells /\ cells[c] > 0 THEN cells[c]
                           ELSE Step2Template(Skus(rows), total).cells[c]]
      BY <2>1 DEF FillMultiBoxStep2Template, Step2Template, total
    <3> QED BY <3>1, <3>2
  <2>3. DOMAIN cells = Skus(rows) \X boxes
    OBVIOUS
  <2>4. \A c \in Skus(rows) \X boxes :
          cells[c] = SumQuantity(rows, {i \in D : rows[i].sku = c[1] /\ rows[i].box = c[2]})
    OBVIOUS
  <2> HIDE DEF cells, total, boxes
  <2> QED BY <2>2, <2>3, <2>4
<1>4. IsFiniteSet(I) /\ \A i \in I : F[i] \in Nat
  BY FS_Subset
<1>5. \A b : IsFiniteSet(Of(b)) /\ Of(b) \subseteq I
  BY <1>4, FS_Subset
<1>6. \A b : SumQuantity(rows, Of(b)) = Total(F, Of(b)) /\ Total(F, Of(b)) \in Nat
  <2> TAKE b
  <2> DEFINE J == Of(b)
             H == [i \in J |-> rows[i].qty]
  <2>1. IsFiniteSet(J) /\ J \subseteq I
    BY <1>5
  <2>2. \A i \in J : H[i] = F[i] /\ F[i] \in Nat
    BY <1>4, <2>1
  <2>3. SumQuantity(rows, J) = Total(H, J)
    <3> HIDE DEF J
    <3> QED BY <2>1, QuantityIsTotal
  <2> HIDE DEF J, F, H
  <2>4. Total(H, J) = Total(F, J)
    BY <2>1, <2>2, TotalSame
  <2>5. Total(F, J) \in Nat
    BY <2>1, <2>2, TotalType
  <2> QED BY <2>3, <2>4, <2>5 DEF J
<1>7. IsFiniteSet(K)
  <2>1. IsFiniteSet({sku} \X (1..total))
    <3> HIDE DEF total
    <3>1. IsFiniteSet(1..total)
      BY <1>1, FS_Interval
    <3>2. IsFiniteSet({sku})
      BY FS_Singleton
    <3> QED BY <3>1, <3>2, FS_Product
  <2>2. K \subseteq {sku} \X (1..total)
    OBVIOUS
  <2> QED BY <2>1, <2>2, FS_Subset
<1>8. \A i \in I : class[i] \in K
  BY <1>1
<1>9. \A k \in K : sheet.cells[k] = Total(F, {i \in I : class[i] = k})
  <2> TAKE k \in K
  <2>1. k \in Skus(rows) \X (1..total) /\ k[1] = sku /\ k = <<sku, k[2]>>
    OBVIOUS
  <2> DEFINE b == k[2]
  <2>2. {i \in D : rows[i].sku = k[1] /\ rows[i].box = k[2]} = Of(b)
    BY <2>1
  <2>3. {i \in I : class[i] = k} = Of(b)
    BY <2>1
  <2>4. sheet.cells[k] = IF k \in Skus(rows) \X boxes /\ Total(F, Of(b)) > 0 THEN Total(F, Of(b)) ELSE 0
    <3> DEFINE J == {i \in D : rows[i].sku = k[1] /\ rows[i].box = k[2]}
    <3>1. sheet.cells[k] = IF k \in Skus(rows) \X boxes /\ SumQuantity(rows, J) > 0
                           THEN SumQuantity(rows, J) ELSE 0
      BY <1>3, <2>1
    <3>2. J = Of(b)
      BY <2>2
    <3>3. SumQuantity(rows, Of(b)) = Total(F, Of(b))
      BY <1>6
    <3> HIDE DEF J, Of, F, b, boxes
    <3> QED BY <3>1, <3>2, <3>3
  <2>5. CASE b \in boxes
    <3>1. k \in Skus(rows) \X boxes
      BY <2>1, <2>5
    <3>2. Total(F, Of(b)) \in Nat
      BY <1>6
    <3> DEFINE t == Total(F, Of(b))
    <3>3. t \in Nat /\ sheet.cells[k] = IF t > 0 THEN t ELSE 0
      BY <2>4, <3>1, <3>2
    <3> HIDE DEF t
    <3>4. sheet.cells[k] = t
      BY <3>3
    <3> QED BY <2>3, <3>4 DEF t
  <2>6. CASE b \notin boxes
    <3>1. Of(b) = {}
      BY <2>6 DEF BoxNumbers, AllBoxed
    <3>2. Total(F, Of(b)) = 0
      BY <3>1, <1>5, TotalStep
    <3> QED BY <2>3, <2>4, <3>2
  <2> QED BY <2>5, <2>6
<1>10. K = {c \in DOMAIN sheet.cells : c[1] = sku}
  BY <1>3
<1>11. PackedQuantity(sheet, sku) = Total(sheet.cells, K)
  BY <1>7, <1>10, PackedIsTotal
<1>12. LoadConsignmentSummary(rows)[sku] = Total(F, I)
  <2>1. LoadConsignmentSummary(rows)[sku] = SumQuantity(rows, I)
    BY DEF LoadConsignmentSummary
  <2>2. SumQuantity(rows, I) = Total(F, I)
    <3> HIDE DEF I
    <3> QED BY <1>4, QuantityIsTotal
  <2> QED BY <2>1, <2>2
<1> DEFINE cells == sheet.cells
           P == [k \in K |-> {i \in I : class[i] = k}]
<1>13. \A k \in K : cells[k] = Total(F, P[k])
  <2> TAKE k \in K
  <2>1. P[k] = {i \in I : class[i] = k}
    OBVIOUS
  <2> HIDE DEF P, F, class, I
  <2> QED BY <1>9, <2>1
<1>14. \A k \in K : P[k] \subseteq I /\ \A i \in I : i \in P[k] <=> class[i] = k
  OBVIOUS
<1> HIDE DEF I, F, K, class, cells, P
<1>15. Total(cells, K) = Total(F, I)
  BY ONLY <1>4, <1>7, <1>8, <1>13, <1>14, TotalByClass
<1> QED BY <1>11, <1>12, <1>15 DEF cells
----------------------------------------------------------------------------
(***************************************************************************)
(* The invariant and what follows from it.                                 *)
(***************************************************************************)
LEMMA InitIsRight ==
  ASSUME Init
  PROVE  ShipmentInv
<1>1. PICK region \in Regions, layout \in Layouts :
        page = [at |-> "home", region |-> region, chosen |-> region, agl |-> FALSE,
                skus |-> [s \in {} |-> 0], packing |-> EmptySheet, layout |-> layout,
                mode |-> "none", carrier |-> "none", ship |-> <<>>, deliver |-> <<>>,
                tab |-> "none", typed |-> NoCodes, shipped |-> {}]
  BY DEF Init
<1>2. /\ IsPage(page) /\ page.at = "home" /\ page.layout = layout /\ page.tab = "none"
      /\ page.typed = NoCodes /\ page.shipped = {}
  BY <1>1 DEF IsPage
<1>3. /\ IsRun(run) /\ run.stage = 0 /\ run.state = "idle" /\ run.met = FALSE
      /\ run.clicked = 0 /\ run.turned = 0 /\ run.shown = <<>>
  BY DEF Init, Rest, IsRun
<1>4. Types
  <2>1. asked \in Tasks
    BY DEF Init
  <2>2. page.layout \in Layouts
    BY <1>2
  <2>3. /\ run.stage \in 0..4
        /\ run.state \in {"idle", "running", "finished", "returned", "failed", "refused", "rejected"}
        /\ run.clicked \in Nat /\ run.turned \in Nat
    BY <1>3
  <2>4. run.met \in BOOLEAN
    BY <1>3
  <2> QED BY <1>2, <1>3, <2>1, <2>2, <2>3, <2>4 DEF Types
<1>5. PageIsRight
  BY <1>2 DEF PageIsRight, Home, Unlisted, Confirmed, Packed, OnStep3, Accepted
<1>6. CodesAreRight
  <2>1. DOMAIN page.typed = Labelled
    BY <1>2 DEF NoCodes, Labelled
  <2>2. ASSUME NEW s \in Labelled
        PROVE  /\ DOMAIN page.typed[s] = 1..Boxes[s]
               /\ \A row \in 1..Boxes[s] : page.typed[s][row] = <<>>
    <3>1. page.typed[s] = [row \in 1..Boxes[s] |-> <<>>]
      BY <1>2 DEF NoCodes, Labelled
    <3> QED BY <3>1
  <2> QED BY <1>2, <2>1, <2>2 DEF CodesAreRight
<1>7. StageFollows /\ FinishedIsShipped /\ Undisturbed /\ CalendarIsNear
  BY <1>3 DEF StageFollows, FinishedIsShipped, Undisturbed, CalendarIsNear
<1> QED BY <1>4, <1>5, <1>6, <1>7 DEF ShipmentInv

LEMMA NextKeeps ==
  ASSUME ShipmentInv, [Next]_vars
  PROVE  ShipmentInv'
<1>1. CASE UNCHANGED vars
  BY <1>1, NothingHappens
<1>2. CASE Next
  <2>0. UNCHANGED asked
    BY <1>2 DEF Next
  <2>1. ASSUME NEW stage \in 1..4, BeginStage(stage) PROVE ShipmentInv'
    BY <2>0, <2>1, BeginKeeps
  <2>2. ASSUME NEW what \in PlainClicks, WaitForClick(what) PROVE ShipmentInv'
    BY <2>0, <2>2, ClickKeeps DEF WaitForClick
  <2>3. ASSUME NEW what \in Awaited, WaitForCondition(what) PROVE ShipmentInv'
    BY <2>0, <2>3, WaitKeeps DEF WaitForCondition
  <2>4. ASSUME NEW dropdown \in {"mode", "carrier"}, SelectDropdown(dropdown) PROVE ShipmentInv'
    BY <2>0, <2>4, DropdownKeeps
  <2>5. ASSUME NEW picker \in {"ship", "deliver"},
               ClickDateInput(picker) \/ ClickCalendarDay(picker) \/ TurnMonth(picker)
        PROVE  ShipmentInv'
    BY <2>0, <2>5, DateInputKeeps, DayKeeps, TurnKeeps
  <2>6. CASE FinishStage \/ Timeout \/ NothingToWorkOn
    BY <2>0, <2>6, FinishKeeps, TimeoutKeeps, NothingKeeps
  <2>7. CASE SwitchRegion \/ VerifySellerCentralLogin \/ WaitForHomeRegionMatch
             \/ OpenSendToAmazonPage \/ OpenUploadMode \/ UploadFilledTemplate
    BY <2>0, <2>7, RegionKeeps, LoginKeeps, HomeKeeps, OpenKeeps, UploadModeKeeps, UploadKeeps
  <2>8. CASE ClickPackingMethodBox \/ FillSheet \/ UploadFilledMultiBoxExcel
    BY <2>0, <2>8, CardKeeps, FillSheetKeeps, ValidateKeeps
  <2>9. CASE ReturnedToStep2Start \/ ConfirmModalIfVisible \/ SelectCarrierMode \/ WriteShipmentSummary
    BY <2>0, <2>9, ReturnKeeps, ConfirmKeeps, ModeKeeps, SummaryKeeps
  <2>10. CASE ReadTabs \/ SelectTab \/ ShowDetails \/ FillRow \/ Save \/ AwaitShipped
    BY <2>0, <2>10, ReadTabsKeeps, SelectTabKeeps, DetailsKeeps, FillRowKeeps, SaveKeeps, ShippedKeeps
  <2>11. CASE FallBackToStep2 \/ BrowserRestarts
    BY <2>0, <2>11, FallBackKeeps, RestartKeeps
  <2>12. CASE UNCHANGED <<page, run, faults>>
    <3>1. UNCHANGED vars
      BY <2>0, <2>12 DEF vars
    <3> QED BY <3>1, NothingHappens
  <2>13. Step
    BY <1>2 DEF Next
  <2> QED BY <2>1, <2>2, <2>3, <2>4, <2>5, <2>6, <2>7, <2>8, <2>9, <2>10, <2>11, <2>12, <2>13 DEF Step
<1> QED BY <1>1, <1>2

(* Every step of every stage, of Amazon's pages and of what Amazon does by  *)
(* itself keeps the page, the plan and the codes in agreement.              *)
THEOREM ShipmentInvariant == Spec => []ShipmentInv
<1>1. Init => ShipmentInv
  BY InitIsRight
<1>2. ShipmentInv /\ [Next]_vars => ShipmentInv'
  BY NextKeeps
<1> QED BY <1>1, <1>2, PTL DEF Spec

(* A finished stage 4 has given every box of every shipment the code of its *)
(* own row, and every shipment is shipped (enter_tracking_codes).           *)
THEOREM AFinishedStageHasShipped == Spec => []FinishedMeansShipped
<1>1. ASSUME ShipmentInv
      PROVE  FinishedMeansShipped
  <2>1. ASSUME run.state = "finished", run.stage = 4, NEW i \in DOMAIN Shipments
        PROVE  /\ Shipments[i] \in page.shipped
               /\ \A row \in 1..Boxes[Shipments[i]] :
                    page.typed[Shipments[i]][row] = Code(Shipments[i], row)
    <3>1. Shipments[i] \in Labelled
      BY DEF Labelled
    <3>2. Shipments[i] \in page.shipped
      BY <1>1, <2>1, <3>1 DEF ShipmentInv, FinishedIsShipped
    <3> QED BY <1>1, <3>1, <3>2 DEF ShipmentInv, CodesAreRight
  <2> QED BY <2>1 DEF FinishedMeansShipped
<1> QED BY ShipmentInvariant, <1>1, PTL

(* A stage that follows its predecessor neither fails, nor is refused, nor  *)
(* has its sheet rejected, on every layout, region, calendar and consignment*)
(* of the assumptions, unless something it is not made for has met it.      *)
THEOREM AnUndisturbedStageSucceeds == Spec => []UndisturbedStagesSucceed
<1>1. ShipmentInv => UndisturbedStagesSucceed
  BY DEF ShipmentInv, Undisturbed, UndisturbedStagesSucceed
<1> QED BY ShipmentInvariant, <1>1, PTL

(* What Amazon has accepted is what was asked for: quantities listed and    *)
(* packed, in the new layouts mode, carrier and dates, and the marketplace  *)
(* of every site whose names are in no other region's label; of the others  *)
(* region_switch.py may take another site's label for theirs.               *)
THEOREM TheAcceptedShipmentWasAsked == Spec => []AcceptedShipmentIsTheOneAsked
<1>1. ASSUME ShipmentInv, page.at \in {"accepted", "tracking"}
      PROVE  /\ LabelMatchesSite(page.region, asked.site) /\ ~page.agl
             /\ page.skus = LoadConsignmentSummary(asked.rows) /\ page.packing = Sheet
             /\ page.layout \in {"3_2", "ca"} =>
                  page.mode = Mode /\ page.carrier = "OTHER" /\ page.ship = asked.today /\ page.deliver = Target
  <2>1. page.at \in Accepted /\ page.at \in Packed /\ page.at \in Confirmed /\ page.at \notin Home \cup Unlisted
    BY <1>1 DEF Accepted, Packed, Confirmed, Home, Unlisted
  <2> QED BY <1>1, <2>1 DEF ShipmentInv, PageIsRight
<1>2. ASSUME ShipmentInv, page.skus = LoadConsignmentSummary(asked.rows), page.packing = Sheet,
             AllBoxed(asked.rows), NEW sku \in DOMAIN page.skus
      PROVE  PackedQuantity(page.packing, sku) = page.skus[sku]
  <2> DEFINE rows == asked.rows
  <2>1. asked \in Tasks
    BY <1>2 DEF ShipmentInv, Types
  <2>2. /\ rows \in Seq({rows[i] : i \in DOMAIN rows}) /\ BoxNumbers(rows) # {}
        /\ \A i \in DOMAIN rows : rows[i].box \in Nat /\ rows[i].qty \in Nat
    BY <2>1, TasksAssumption
  <2>3. IsFiniteSet(DOMAIN rows)
    <3> HIDE DEF rows
    <3>1. DOMAIN rows = 1..Len(rows) /\ Len(rows) \in Nat
      BY <2>2
    <3> QED BY <3>1, FS_Interval
  <2>4. sku \in Skus(rows)
    BY <1>2, SkusOfPage
  <2>5. page.packing = FillMultiBoxStep2Template(rows, Step2Template(Skus(rows), ExtractBoxCount(rows)))
    BY <1>2 DEF Sheet
  <2> QED BY <1>2, <2>2, <2>3, <2>4, <2>5, PackedIsListed
<1>3. ASSUME ToldApart(asked.site), LabelMatchesSite(page.region, asked.site)
      PROVE  Marketplace[page.region] = asked.site
  BY <1>3 DEF ToldApart, LabelMatchesSite
<1>4. ShipmentInv => AcceptedShipmentIsTheOneAsked
  BY <1>1, <1>2, <1>3 DEF AcceptedShipmentIsTheOneAsked
<1> QED BY ShipmentInvariant, <1>4, PTL
===============================================================================
