--------------------------- MODULE TemplateStore ---------------------------
(***************************************************************************)
(* The store of custom parameter schemes, a JSON file that the template    *)
(* commands read and write back as a whole (replenishment_template.py).    *)
(* There is no lock: a command reads the list, parses the workbook, and    *)
(* writes.  An editor is one command in progress.                          *)
(***************************************************************************)
EXTENDS ReplenishmentTemplate, Functions

CONSTANTS
  Editors,         \* template commands that may be in progress at once
  Builtins,        \* the built-in schemes: name -> parameters
  CustomNames,     \* names a user gives
  AutoNames,       \* the names import picks when none is given, in order
  Sheets,          \* the workbooks a user may hand in
  MaxVersion       \* bound: replacements of one scheme

Bound == Int \cup {None}

BoundsAreNumbers(tiers) ==
  \A i \in DOMAIN tiers : tiers[i].range.lo \in Bound /\ tiers[i].range.hi \in Bound

(* The lines of the special rules come in the order of their sheet, and the bounds of a range
   are numbers: the forms it is read in have no other. *)
ASSUME SheetAssumption ==
  \A sheet \in Sheets :
    /\ sheet.body.rules \in Seq({sheet.body.rules[i] : i \in DOMAIN sheet.body.rules})
    /\ \A i \in DOMAIN sheet.body.days : sheet.body.days[i].gt.lo \in Bound
    /\ BoundsAreNumbers(sheet.body.tiers) /\ BoundsAreNumbers(sheet.body.companionTiers)

VARIABLES
  store,           \* the custom schemes: a sequence of [name, version, params]
  editing,         \* editor -> None or the command in progress
  raced            \* history: a command began, wrote or ended while another was in progress

vars == <<store, editing, raced>>

Init == store = <<>> /\ editing = [e \in Editors |-> None] /\ raced = FALSE

Overlapped(e) == \E f \in Editors \ {e} : editing[f] # None

NamesIn(list) == {list[i].name : i \in DOMAIN list}

IndexOf(list, name) == CHOOSE i \in DOMAIN list :
                         list[i].name = name /\ \A j \in 1..(i - 1) : list[j].name # name

(* list_templates raises for every caller when a name is stored twice. *)
Listable(list) == /\ IsInjective([i \in DOMAIN list |-> list[i].name])
                  /\ NamesIn(list) \cap DOMAIN Builtins = {}

(* Mutant: the built-in names are forgotten. *)
KnownNamesStored == NamesIn(store)
KnownNames == DOMAIN Builtins \cup NamesIn(store)

(* _next_custom_template_name *)
NextAutoName(list) ==
  LET free == {i \in DOMAIN AutoNames : AutoNames[i] \notin NamesIn(list)}
  IN IF free = {} THEN None ELSE AutoNames[CHOOSE i \in free : \A j \in free : i <= j]

(* import_template_xlsx: the name is checked against the list read at the start. *)
BeginImport(e, name, sheet) ==
  LET given == IF name = None THEN NextAutoName(store) ELSE name
  IN /\ editing[e] = None
     /\ Listable(store)
     /\ given # None /\ given \notin KnownNames
     /\ SheetAccepted(sheet)
     /\ editing' = [editing EXCEPT ![e] = [kind |-> "import", name |-> given, held |-> <<>>,
                                           params |-> SheetParams(sheet)]]
     /\ UNCHANGED store

(* The list is read again before the scheme is appended. *)
FinishImport(e) ==
  /\ editing[e] # None /\ editing[e].kind = "import"
  /\ store' = Append(store, [name |-> editing[e].name, version |-> 1, params |-> editing[e].params])
  /\ editing' = [editing EXCEPT ![e] = None]

(* replace_template_xlsx: only an existing custom scheme, whose version goes up. *)
BeginReplace(e, name, sheet) ==
  /\ editing[e] = None
  /\ name \in NamesIn(store) /\ store[IndexOf(store, name)].version < MaxVersion
  /\ SheetAccepted(sheet)
  /\ editing' = [editing EXCEPT ![e] = [kind |-> "replace", name |-> name, held |-> store,
                                        params |-> SheetParams(sheet)]]
  /\ UNCHANGED store

(* The whole list read at the start is written back. *)
FinishReplace(e) ==
  /\ editing[e] # None /\ editing[e].kind = "replace"
  /\ LET held == editing[e].held
         i == IndexOf(held, editing[e].name)
     IN store' = [held EXCEPT ![i].version = @ + 1, ![i].params = editing[e].params]
  /\ editing' = [editing EXCEPT ![e] = None]

(* rename_template *)
Rename(e, name, new) ==
  /\ editing[e] = None
  /\ name \in NamesIn(store) /\ new \notin KnownNames
  /\ ValidTemplate(store[IndexOf(store, name)].params)
  /\ store' = [store EXCEPT ![IndexOf(store, name)].name = new]
  /\ UNCHANGED editing

Command(e) ==
  \/ \E sheet \in Sheets, name \in CustomNames \cup {None} : BeginImport(e, name, sheet)
  \/ FinishImport(e)
  \/ \E sheet \in Sheets, name \in CustomNames : BeginReplace(e, name, sheet)
  \/ FinishReplace(e)
  \/ \E name, new \in CustomNames : Rename(e, name, new)

Next == \E e \in Editors : Command(e) /\ raced' = (raced \/ Overlapped(e))

Spec == Init /\ [][Next]_vars

----------------------------------------------------------------------------
(* A scheme, once stored, is one the calculation can use: it is valid, and so are the schemes
   its special rules make of it (validate_template, effective_params_for_msku). *)
StoredSchemesAreValid == \A i \in DOMAIN store : ValidTemplate(store[i].params)

(* The store stays readable: every command that lists the schemes finds each name once and
   none of the built-in ones (list_templates raises otherwise), as long as no two commands
   overlap: nothing keeps them apart. *)
StoreStaysReadable == ~raced => Listable(store)

(* A scheme's exported workbook, handed in unchanged, gives the scheme back
   (export_template_xlsx, parse_template_xlsx). *)
ExportedSheetReadsBack ==
  \A i \in DOMAIN store :
    LET sheet == ExportSheet(store[i].params)
    IN SheetAccepted(sheet) /\ SheetParams(sheet) = store[i].params

(* The same, for workbooks the parser takes. *)
AcceptedExportIsExact ==
  \A i \in DOMAIN store :
    LET sheet == ExportSheet(store[i].params)
    IN SheetAccepted(sheet) => SheetParams(sheet) = store[i].params

(* Two bounds that a whole number or six digits do not tell apart: at most half of the sixth
   digit lies between them. *)
SameToSixDigits(a, b) ==
  \/ a = b
  \/ /\ a # None /\ b # None /\ a % Million # 0
     /\ 2 * (a - b) <= a \div 100000 /\ 2 * (b - a) <= a \div 100000

SameTiers(t, u) ==
  /\ DOMAIN t = DOMAIN u
  /\ \A i \in DOMAIN t :
       /\ DOMAIN t[i] = DOMAIN u[i]
       /\ \A k \in DOMAIN t[i] : IF k \in {"gt", "lte"} THEN SameToSixDigits(t[i][k], u[i][k])
                                                      ELSE t[i][k] = u[i][k]

SameScheme(p, q) ==
  /\ DOMAIN p = DOMAIN q
  /\ \A k \in DOMAIN p : IF k \in {"days", "tiers", "companionTiers"} THEN SameTiers(p[k], q[k])
                                                                    ELSE p[k] = q[k]

(* What is read back from an exported workbook the parser takes is the scheme, rule for rule
   and tier for tier; only a bound of a range that is not a whole number may have changed, by
   no more than the six digits it is written with (_display_number_text). *)
AcceptedExportIsTheScheme ==
  \A i \in DOMAIN store :
    LET sheet == ExportSheet(store[i].params)
    IN SheetAccepted(sheet) => SameScheme(store[i].params, SheetParams(sheet))
=============================================================================
