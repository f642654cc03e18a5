------------------------- MODULE TemplateStoreProofs -------------------------
(***************************************************************************)
(* Proofs about TemplateStore for every number of editors, every set of    *)
(* names and workbooks and every set of built-in schemes.                  *)
(***************************************************************************)
EXTENDS TemplateStore, SequenceTheorems, FiniteSetTheorems, TLAPS

(* What a command may hold and the store may contain.  An automatic name   *)
(* is the first of the names that are free, whichever these are.           *)
AutoNamesGiven ==
  {AutoNames[CHOOSE i \in free : \A j \in free : i <= j] : free \in SUBSET DOMAIN AutoNames}

Names == CustomNames \cup AutoNamesGiven

AcceptedParams == {SheetParams(sheet) : sheet \in {t \in Sheets : SheetAccepted(t)}}

Scheme == [name : Names, version : Nat, params : AcceptedParams]

CommandInProgress == [kind : {"import", "replace"}, name : Names, held : Seq(Scheme),
                      params : AcceptedParams]

StoreTypes ==
  /\ store \in Seq(Scheme)
  /\ editing \in [Editors -> {None} \cup CommandInProgress]
  /\ raced \in BOOLEAN

(* While no two commands have overlapped, the one in progress still sees   *)
(* the store as it read it.                                                *)
OneCommand == \A e, f \in Editors : editing[e] # None /\ editing[f] # None => e = f

ReadIsCurrent ==
  \A e \in Editors :
    editing[e] # None =>
      /\ editing[e].kind = "import" => editing[e].name \notin KnownNames
      /\ editing[e].kind = "replace" => editing[e].held = store

(* The inductive invariant. *)
StoreInv ==
  /\ StoreTypes
  /\ ~raced => OneCommand /\ ReadIsCurrent /\ Listable(store)

-----------------------------------------------------------------------------
(* Lemmas about lists of schemes: what the three ways of writing the store  *)
(* back do to the names.                                                    *)
Distinct(list) == \A i, j \in DOMAIN list : list[i].name = list[j].name => i = j

LEMMA ListableIsDistinct ==
  ASSUME NEW list
  PROVE  Listable(list) <=> Distinct(list) /\ NamesIn(list) \cap DOMAIN Builtins = {}
BY DEF Listable, IsInjective, Distinct

(* An import appends a name that is not known. *)
LEMMA AppendKeepsListable ==
  ASSUME NEW list \in Seq(Scheme), NEW s \in Scheme, Listable(list),
         s.name \notin DOMAIN Builtins \cup NamesIn(list)
  PROVE  Append(list, s) \in Seq(Scheme) /\ Listable(Append(list, s))
<1> DEFINE longer == Append(list, s)
<1>1. /\ longer \in Seq(Scheme)
      /\ DOMAIN longer = 1..(Len(list) + 1) /\ DOMAIN list = 1..Len(list) /\ Len(list) \in Nat
      /\ \A i \in 1..Len(list) : longer[i] = list[i]
      /\ longer[Len(list) + 1] = s
  OBVIOUS
<1> HIDE DEF longer
<1>2. Distinct(list) /\ NamesIn(list) \cap DOMAIN Builtins = {}
  BY ListableIsDistinct
<1>3. \A i \in 1..Len(list) : list[i].name \in NamesIn(list)
  BY <1>1 DEF NamesIn
<1>4. NamesIn(longer) \subseteq NamesIn(list) \cup {s.name}
  BY <1>1, <1>3 DEF NamesIn
<1>5. Distinct(longer)
  <2> SUFFICES ASSUME NEW i \in 1..(Len(list) + 1), NEW j \in 1..(Len(list) + 1),
                      longer[i].name = longer[j].name
               PROVE  i = j
    BY <1>1 DEF Distinct
  <2>1. CASE i \in 1..Len(list) /\ j \in 1..Len(list)
    BY <1>1, <1>2, <2>1 DEF Distinct
  <2>2. CASE i = Len(list) + 1 /\ j \in 1..Len(list)
    BY <1>1, <1>3, <2>2
  <2>3. CASE j = Len(list) + 1 /\ i \in 1..Len(list)
    BY <1>1, <1>3, <2>3
  <2> QED
    BY <1>1, <2>1, <2>2, <2>3
<1>6. Listable(longer)
  BY <1>2, <1>4, <1>5, ListableIsDistinct
<1> QED
  BY <1>1, <1>6 DEF longer

(* A replacement writes a list with the names of the one that was read. *)
LEMMA ReplaceKeepsNames ==
  ASSUME NEW list \in Seq(Scheme), NEW i, NEW params \in AcceptedParams
  PROVE  LET new == [list EXCEPT ![i].version = @ + 1, ![i].params = params]
         IN /\ new \in Seq(Scheme)
            /\ Listable(list) => Listable(new)
<1> DEFINE new == [list EXCEPT ![i].version = @ + 1, ![i].params = params]
<1>1. DOMAIN new = DOMAIN list /\ DOMAIN list = 1..Len(list) /\ Len(list) \in Nat
  OBVIOUS
<1>2. \A k \in DOMAIN list : new[k] \in Scheme /\ new[k].name = list[k].name
  <2> SUFFICES ASSUME NEW k \in DOMAIN list
               PROVE  new[k] \in Scheme /\ new[k].name = list[k].name
    OBVIOUS
  <2>1. list[k] \in Scheme
    OBVIOUS
  <2>2. CASE k = i
    <3>1. new[k] = [[list[k] EXCEPT !.version = @ + 1] EXCEPT !.params = params]
      BY <2>2
    <3>2. new[k] = [name |-> list[k].name, version |-> list[k].version + 1, params |-> params]
      BY <2>1, <3>1 DEF Scheme
    <3> QED
      BY <2>1, <3>2 DEF Scheme
  <2>3. CASE k # i
    BY <2>1, <2>3
  <2> QED
    BY <2>2, <2>3
<1>3. new \in Seq(Scheme)
  <2>1. new \in [1..Len(list) -> Scheme]
    BY <1>1, <1>2
  <2> QED
    BY ZenonT(60), <1>1, <2>1, SeqDef
<1> HIDE DEF new
<1>4. NamesIn(new) = NamesIn(list)
  BY <1>1, <1>2 DEF NamesIn
<1>5. Distinct(list) => Distinct(new)
  BY <1>1, <1>2 DEF Distinct
<1> QED
  BY <1>3, <1>4, <1>5, ListableIsDistinct DEF new

(* A scheme gets a name that is not known. *)
LEMMA RenameKeepsListable ==
  ASSUME NEW list \in Seq(Scheme), NEW i, NEW name \in Names
  PROVE  LET new == [list EXCEPT ![i].name = name]
         IN /\ new \in Seq(Scheme)
            /\ Listable(list) /\ name \notin DOMAIN Builtins \cup NamesIn(list) => Listable(new)
<1> DEFINE new == [list EXCEPT ![i].name = name]
<1>1. DOMAIN new = DOMAIN list /\ DOMAIN list = 1..Len(list) /\ Len(list) \in Nat
  OBVIOUS
<1>2. \A k \in DOMAIN list : new[k] \in Scheme
                             /\ new[k].name = IF k = i THEN name ELSE list[k].name
  <2> SUFFICES ASSUME NEW k \in DOMAIN list
               PROVE  new[k] \in Scheme
                      /\ new[k].name = IF k = i THEN name ELSE list[k].name
    OBVIOUS
  <2>1. list[k] \in Scheme
    OBVIOUS
  <2>2. CASE k = i
    <3>1. new[k] = [list[k] EXCEPT !.name = name]
      BY <2>2
    <3> QED
      BY <2>1, <2>2, <3>1 DEF Scheme
  <2>3. CASE k # i
    BY <2>1, <2>3
  <2> QED
    BY <2>2, <2>3
<1>3. new \in Seq(Scheme)
  <2>1. new \in [1..Len(list) -> Scheme]
    BY <1>1, <1>2
  <2> QED
    BY <1>1, <2>1, SeqDef
<1> HIDE DEF new
<1>4. NamesIn(new) \subseteq NamesIn(list) \cup {name}
  BY <1>1, <1>2 DEF NamesIn
<1>5. Distinct(list) /\ name \notin NamesIn(list) => Distinct(new)
  BY <1>1, <1>2 DEF Distinct, NamesIn
<1> QED
  BY <1>3, <1>4, <1>5, ListableIsDistinct DEF new

-----------------------------------------------------------------------------
LEMMA InitEstablishes == Init => StoreInv
<1> SUFFICES ASSUME Init PROVE StoreInv
  OBVIOUS
<1>1. StoreTypes
  <2>1. store \in Seq(Scheme)
    BY DEF Init
  <2>2. editing \in [Editors -> {None} \cup CommandInProgress]
    BY DEF Init
  <2>3. raced \in BOOLEAN
    BY DEF Init
  <2> QED
    BY <2>1, <2>2, <2>3 DEF StoreTypes
<1>2. OneCommand /\ ReadIsCurrent
  BY DEF Init, OneCommand, ReadIsCurrent
<1>3. Listable(store)
  BY ListableIsDistinct DEF Init, Distinct, NamesIn
<1> QED
  BY <1>1, <1>2, <1>3 DEF StoreInv

(* A command begins: it takes the name or the list from the store as it is. *)
LEMMA BeginKeepsInv ==
  ASSUME StoreInv, NEW e \in Editors, raced' = (raced \/ Overlapped(e)),
         \/ \E sheet \in Sheets, name \in CustomNames \cup {None} : BeginImport(e, name, sheet)
         \/ \E sheet \in Sheets, name \in CustomNames : BeginReplace(e, name, sheet)
  PROVE  StoreInv'
<1> USE DEF StoreInv
<1> DEFINE Begins(c) == /\ editing' = [editing EXCEPT ![e] = c]
                        /\ store' = store
                        /\ c.kind = "import" => c.name \notin KnownNames
                        /\ c.kind = "replace" => c.held = store
<1>1. PICK command \in CommandInProgress : Begins(command)
  <2>1. ASSUME NEW sheet \in Sheets, NEW name \in CustomNames \cup {None},
               BeginImport(e, name, sheet)
        PROVE  \E c \in CommandInProgress : Begins(c)
    <3> DEFINE given   == IF name = None THEN NextAutoName(store) ELSE name
               command == [kind |-> "import", name |-> given, held |-> <<>>,
                           params |-> SheetParams(sheet)]
    <3>1. /\ given # None /\ given \notin KnownNames /\ SheetAccepted(sheet)
          /\ editing' = [editing EXCEPT ![e] = command] /\ store' = store
      BY <2>1 DEF BeginImport
    <3>2. given \in Names
      <4>1. CASE name = None
        BY <3>1, <4>1 DEF NextAutoName, Names, AutoNamesGiven
      <4>2. CASE name # None
        BY <4>2 DEF Names
      <4> QED
        BY <4>1, <4>2
    <3>3. SheetParams(sheet) \in AcceptedParams
      BY <3>1 DEF AcceptedParams
    <3> HIDE DEF given
    <3>4. command \in CommandInProgress /\ command.kind = "import" /\ command.name = given
      BY <3>2, <3>3 DEF CommandInProgress
    <3> HIDE DEF command
    <3> QED
      BY <3>1, <3>4
  <2>2. ASSUME NEW sheet \in Sheets, NEW name \in CustomNames, BeginReplace(e, name, sheet)
        PROVE  \E c \in CommandInProgress : Begins(c)
    <3> DEFINE command == [kind |-> "replace", name |-> name, held |-> store,
                           params |-> SheetParams(sheet)]
    <3>1. /\ SheetAccepted(sheet)
          /\ editing' = [editing EXCEPT ![e] = command] /\ store' = store
      BY <2>2 DEF BeginReplace
    <3>2. SheetParams(sheet) \in AcceptedParams
      BY <3>1 DEF AcceptedParams
    <3>3. command \in CommandInProgress /\ command.kind = "replace" /\ command.held = store
      BY <3>2 DEF CommandInProgress, StoreTypes, Names
    <3> HIDE DEF command
    <3> QED
      BY <3>1, <3>3
  <2> QED
    BY <2>1, <2>2
<1>2. StoreTypes'
  BY <1>1 DEF StoreTypes
<1>3. ASSUME ~raced' PROVE OneCommand' /\ ReadIsCurrent' /\ Listable(store')
  <2>1. \A f \in Editors \ {e} : editing[f] = None /\ editing'[f] = None
    BY <1>1, <1>3 DEF Overlapped, StoreTypes
  <2>2. editing'[e] = command
    BY <1>1 DEF StoreTypes
  <2>3. OneCommand'
    BY <2>1 DEF OneCommand
  <2>4. ReadIsCurrent'
    BY <1>1, <2>1, <2>2 DEF ReadIsCurrent, KnownNames, NamesIn
  <2> QED
    BY <1>1, <1>3, <2>3, <2>4
<1> QED
  BY <1>2, <1>3

(* A command ends: what it writes keeps the list readable if the list has   *)
(* not changed since it was read.                                           *)
LEMMA FinishKeepsInv ==
  ASSUME StoreInv, NEW e \in Editors, raced' = (raced \/ Overlapped(e)),
         FinishImport(e) \/ FinishReplace(e)
  PROVE  StoreInv'
<1> USE DEF StoreInv
<1>1. editing[e] \in CommandInProgress /\ editing[e] # None
  BY DEF FinishImport, FinishReplace, StoreTypes
<1>2. editing' = [editing EXCEPT ![e] = None]
  BY DEF FinishImport, FinishReplace
<1>3. /\ store' \in Seq(Scheme)
      /\ ~raced => Listable(store')
  <2>1. CASE FinishImport(e)
    <3> DEFINE scheme == [name |-> editing[e].name, version |-> 1, params |-> editing[e].params]
    <3>1. scheme \in Scheme /\ scheme.name = editing[e].name
      BY <1>1 DEF Scheme, CommandInProgress
    <3>2. store' = Append(store, scheme) /\ editing[e].kind = "import"
      BY <2>1 DEF FinishImport
    <3>3. ~raced => scheme.name \notin DOMAIN Builtins \cup NamesIn(store)
      BY <1>1, <3>1, <3>2 DEF ReadIsCurrent, KnownNames
    <3> HIDE DEF scheme
    <3> QED
      BY <3>1, <3>2, <3>3, AppendKeepsListable DEF StoreTypes
  <2>2. CASE FinishReplace(e)
    <3> DEFINE held == editing[e].held
               i    == IndexOf(held, editing[e].name)
    <3>1. /\ store' = [held EXCEPT ![i].version = @ + 1, ![i].params = editing[e].params]
          /\ editing[e].kind = "replace"
      BY <2>2 DEF FinishReplace
    <3>2. held \in Seq(Scheme) /\ editing[e].params \in AcceptedParams
      BY <1>1 DEF CommandInProgress
    <3>3. ~raced => held = store
      BY <1>1, <3>1 DEF ReadIsCurrent
    <3> HIDE DEF held, i
    <3> QED
      BY <3>1, <3>2, <3>3, ReplaceKeepsNames
  <2> QED
    BY <2>1, <2>2
<1>4. StoreTypes'
  BY <1>2, <1>3 DEF StoreTypes
<1>5. ASSUME ~raced' PROVE OneCommand' /\ ReadIsCurrent'
  <2>1. \A f \in Editors : editing'[f] = None
    BY <1>2, <1>5 DEF Overlapped, StoreTypes
  <2> QED
    BY <2>1 DEF OneCommand, ReadIsCurrent
<1> QED
  BY <1>3, <1>4, <1>5

(* A scheme is renamed in one step, at a moment when nobody has read it. *)
LEMMA RenameKeepsInv ==
  ASSUME StoreInv, NEW e \in Editors, raced' = (raced \/ Overlapped(e)),
         NEW name \in CustomNames, NEW new \in CustomNames, Rename(e, name, new)
  PROVE  StoreInv'
<1> USE DEF StoreInv
<1>1. /\ editing[e] = None /\ editing' = editing
      /\ new \notin DOMAIN Builtins \cup NamesIn(store)
      /\ store' = [store EXCEPT ![IndexOf(store, name)].name = new]
  BY DEF Rename, KnownNames
<1>2. store' \in Seq(Scheme) /\ (~raced => Listable(store'))
  <2>1. new \in Names
    BY DEF Names
  <2> QED
    BY <1>1, <2>1, RenameKeepsListable DEF StoreTypes
<1>3. ASSUME ~raced' PROVE OneCommand' /\ ReadIsCurrent'
  <2>1. \A f \in Editors : editing'[f] = None
    BY <1>1, <1>3 DEF Overlapped, StoreTypes
  <2> QED
    BY <2>1 DEF OneCommand, ReadIsCurrent
<1> QED
  BY <1>1, <1>2, <1>3 DEF StoreTypes

LEMMA StepKeepsInv == StoreInv /\ [Next]_vars => StoreInv'
<1> SUFFICES ASSUME StoreInv, [Next]_vars PROVE StoreInv'
  OBVIOUS
<1>1. CASE Next
  <2>1. PICK e \in Editors : Command(e) /\ raced' = (raced \/ Overlapped(e))
    BY <1>1 DEF Next
  <2> QED
    BY <2>1, BeginKeepsInv, FinishKeepsInv, RenameKeepsInv DEF Command
<1>2. CASE UNCHANGED vars
  BY <1>2 DEF vars, StoreInv, StoreTypes, OneCommand, ReadIsCurrent, KnownNames
<1> QED
  BY <1>1, <1>2

(* The inductive invariant holds in every reachable state. *)
THEOREM StoreCorrect == Spec => []StoreInv
BY InitEstablishes, StepKeepsInv, PTL DEF Spec

(* Whatever workbooks are handed in and however commands overlap, only      *)
(* schemes the calculation can use are ever stored.                         *)
THEOREM OnlyValidSchemesStored == Spec => []StoredSchemesAreValid
<1>1. StoreInv => StoredSchemesAreValid
  <2> SUFFICES ASSUME StoreInv, NEW i \in DOMAIN store PROVE ValidTemplate(store[i].params)
    BY DEF StoredSchemesAreValid
  <2>1. store[i] \in Scheme
    BY DEF StoreInv, StoreTypes
  <2>2. store[i].params \in AcceptedParams
    BY <2>1 DEF Scheme
  <2> QED
    BY <2>2 DEF AcceptedParams, SheetAccepted
<1> QED
  BY <1>1, StoreCorrect, PTL

(* Any sequence of imports, replacements and renames, by any number of      *)
(* users, leaves a list that every command can read, as long as no two of   *)
(* the commands overlap.                                                    *)
THEOREM StoreIsReadable == Spec => []StoreStaysReadable
<1>1. StoreInv => StoreStaysReadable
  BY DEF StoreInv, StoreStaysReadable
<1> QED
  BY <1>1, StoreCorrect, PTL

-----------------------------------------------------------------------------
(* The way of a scheme through its workbook and back.                       *)
(* A set of naturals with 0 and every successor holds them all. *)
LEMMA NaturalInduction ==
  ASSUME NEW G, 0 \in G, \A n \in Nat : n \in G => n + 1 \in G
  PROVE  Nat \subseteq G
<1>1. SUFFICES ASSUME NEW m \in Nat, m \notin G PROVE FALSE
  OBVIOUS
<1>. DEFINE Bad == {0..n : n \in {k \in 0..m : k \notin G}}
            S == 0..m
<1>2. IsFiniteSet(S)
  BY FS_Interval
<1>3. IsWellFoundedOn(StrictSubsetOrdering(S), SUBSET S)
  <2>. HIDE DEF S
  <2>1. FiniteSubsetsOf(S) = SUBSET S
    BY <1>2, FS_FiniteSubsetsOfFinite
  <2>. QED  BY <2>1, FS_StrictSubsetOrderingWellFounded
<1>4. Bad \subseteq SUBSET S /\ Bad # {}
  BY <1>1
<1>. HIDE DEF Bad, S
<1>5. PICK T \in Bad : \A U \in Bad : ~(<<U, T>> \in StrictSubsetOrdering(S))
  BY <1>3, <1>4, WFMin
<1>6. PICK n \in 0..m : n \notin G /\ T = 0..n
  BY <1>5 DEF Bad
<1>. DEFINE k == n - 1
            U == 0..k
<1>7. n # 0 /\ n = k + 1 /\ k \in 0..m /\ k \in Nat
  BY <1>6
<1>8. k \notin G
  BY <1>6, <1>7
<1>. HIDE DEF k
<1>9. U \in Bad
  BY <1>7, <1>8 DEF Bad
<1>10. U \subseteq T /\ n \in T /\ n \notin U /\ U \subseteq S /\ T \subseteq S
  BY <1>6, <1>7 DEF S
<1>11. <<U, T>> \in StrictSubsetOrdering(S)
  BY <1>10 DEF StrictSubsetOrdering
<1>. QED  BY <1>5, <1>9, <1>11

(* The lines of the special rules are read one after the other.             *)
Reading(s, n, F) ==
  F = [i \in 0..n |-> IF i = 0 THEN <<>>
                      ELSE IF SaysSomething(s[i]) THEN Append(F[i - 1], s[i]) ELSE F[i - 1]]

LEMMA ReadingExists == \A s : \A n \in Nat : \E F : Reading(s, n, F)
<1>. SUFFICES ASSUME NEW s PROVE \A n \in Nat : \E F : Reading(s, n, F)
  OBVIOUS
<1>. DEFINE G == {n \in Nat : \E F : Reading(s, n, F)}
<1>1. 0 \in G
  <2>. DEFINE E == [i \in 0..0 |-> <<>>]
  <2>1. E = [i \in 0..0 |-> IF i = 0 THEN <<>> ELSE IF SaysSomething(s[i]) THEN Append(E[i - 1], s[i]) ELSE E[i - 1]]
    OBVIOUS
  <2>. HIDE DEF E
  <2>2. Reading(s, 0, E)
    BY <2>1 DEF Reading
  <2>. QED  BY <2>2
<1>2. ASSUME NEW n \in Nat, n \in G PROVE n + 1 \in G
  <2>1. PICK F : Reading(s, n, F)
    BY <1>2
  <2>. DEFINE Next1 == IF SaysSomething(s[n + 1]) THEN Append(F[n], s[n + 1]) ELSE F[n]
              E == [i \in 0..(n + 1) |-> IF i = n + 1 THEN Next1 ELSE F[i]]
  <2>2. /\ DOMAIN F = 0..n
        /\ \A i \in 0..n : F[i] = IF i = 0 THEN <<>> ELSE IF SaysSomething(s[i]) THEN Append(F[i - 1], s[i]) ELSE F[i - 1]
    BY <2>1 DEF Reading
  <2>3. /\ \A i \in 0..n : E[i] = F[i]
        /\ E[n + 1] = Next1
    BY <1>2
  <2>4. ASSUME NEW i \in 0..(n + 1)
        PROVE  E[i] = IF i = 0 THEN <<>> ELSE IF SaysSomething(s[i]) THEN Append(E[i - 1], s[i]) ELSE E[i - 1]
    <3>1. CASE i = n + 1
      <4>1. i # 0 /\ i - 1 = n /\ n \in 0..n
        BY <1>2, <3>1
      <4>. HIDE DEF E
      <4>2. E[i - 1] = F[n] /\ E[i] = Next1
        BY <2>3, <3>1, <4>1
      <4>. QED  BY <3>1, <4>1, <4>2
    <3>2. CASE i # n + 1
      <4>1. i \in 0..n
        BY <1>2, <3>2
      <4>2. i # 0 => i - 1 \in 0..n
        BY <1>2, <4>1
      <4>. HIDE DEF E
      <4>. QED  BY <2>2, <2>3, <4>1, <4>2
    <3>. QED  BY <3>1, <3>2
  <2>5. DOMAIN E = 0..(n + 1) /\ E = [i \in 0..(n + 1) |-> E[i]]
    OBVIOUS
  <2>. HIDE DEF E
  <2>6. Reading(s, n + 1, E)
    BY <2>4, <2>5 DEF Reading
  <2>. QED  BY <1>2, <2>6
<1>. HIDE DEF G
<1>3. Nat \subseteq G
  BY <1>1, <1>2, NaturalInduction
<1>. QED  BY <1>3 DEF G

LEMMA RulesAreRead ==
  ASSUME NEW s, Len(s) \in Nat
  PROVE  \E F : Reading(s, Len(s), F) /\ ReadRules(s) = F[Len(s)]
<1> DEFINE F == CHOOSE f : Reading(s, Len(s), f)
<1>1. Reading(s, Len(s), F)
  BY ReadingExists
<1>2. ReadRules(s) = F[Len(s)]
  BY DEF ReadRules, Reading
<1> QED
  BY <1>1, <1>2

(* What is read of a sheet is a sequence of its lines.                      *)
LEMMA ReadRulesType ==
  ASSUME NEW S, NEW s \in Seq(S)
  PROVE  ReadRules(s) \in Seq(S)
<1>0. Len(s) \in Nat /\ DOMAIN s = 1..Len(s)
  OBVIOUS
<1>1. PICK F : Reading(s, Len(s), F) /\ ReadRules(s) = F[Len(s)]
  BY <1>0, RulesAreRead
<1>2. \A i \in 0..Len(s) :
        F[i] = IF i = 0 THEN <<>>
               ELSE IF SaysSomething(s[i]) THEN Append(F[i - 1], s[i]) ELSE F[i - 1]
  BY <1>1, Zenon DEF Reading
<1> DEFINE G == {n \in Nat : n <= Len(s) => F[n] \in Seq(S)}
<1>3. 0 \in G
  <2>1. F[0] = <<>>
    BY <1>0, <1>2
  <2>2. <<>> \in Seq(S)
    OBVIOUS
  <2> QED
    BY <2>1, <2>2
<1>4. ASSUME NEW n \in Nat, n \in G PROVE n + 1 \in G
  <2>1. SUFFICES ASSUME n + 1 <= Len(s) PROVE F[n + 1] \in Seq(S)
    BY <1>4
  <2>2. n + 1 \in 0..Len(s) /\ n + 1 # 0 /\ (n + 1) - 1 = n /\ s[n + 1] \in S /\ F[n] \in Seq(S)
    BY <1>0, <1>4, <2>1
  <2>3. F[n + 1] = IF SaysSomething(s[n + 1]) THEN Append(F[n], s[n + 1]) ELSE F[n]
    BY <1>2, <2>2
  <2> QED
    BY <2>2, <2>3
<1> HIDE DEF G
<1>5. Len(s) \in G
  BY <1>0, <1>3, <1>4, NaturalInduction
<1> QED
  BY <1>0, <1>1, <1>5 DEF G

(* Where every line says something nothing is skipped.                      *)
LEMMA FullRulesAreKept ==
  ASSUME NEW S, NEW s \in Seq(S), \A i \in DOMAIN s : SaysSomething(s[i])
  PROVE  ReadRules(s) = s
<1>0. Len(s) \in Nat /\ DOMAIN s = 1..Len(s)
  OBVIOUS
<1>1. PICK F : Reading(s, Len(s), F) /\ ReadRules(s) = F[Len(s)]
  BY <1>0, RulesAreRead
<1>2. \A i \in 0..Len(s) :
        F[i] = IF i = 0 THEN <<>>
               ELSE IF SaysSomething(s[i]) THEN Append(F[i - 1], s[i]) ELSE F[i - 1]
  BY <1>1, Zenon DEF Reading
<1> DEFINE G == {n \in Nat : n <= Len(s) =>
                   F[n] \in Seq(S) /\ Len(F[n]) = n /\ \A i \in 1..n : F[n][i] = s[i]}
<1>3. 0 \in G
  <2>1. F[0] = <<>>
    BY <1>0, <1>2
  <2>2. <<>> \in Seq(S) /\ Len(<<>>) = 0 /\ \A i \in 1..0 : FALSE
    OBVIOUS
  <2> QED
    BY <2>1, <2>2
<1>4. ASSUME NEW n \in Nat, n \in G PROVE n + 1 \in G
  <2> DEFINE prev == F[n]
  <2>1. SUFFICES ASSUME n + 1 <= Len(s)
                 PROVE  F[n + 1] \in Seq(S) /\ Len(F[n + 1]) = n + 1
                        /\ \A i \in 1..(n + 1) : F[n + 1][i] = s[i]
    BY <1>4
  <2>2. /\ n + 1 \in 0..Len(s) /\ n + 1 # 0 /\ (n + 1) - 1 = n /\ n + 1 \in DOMAIN s
        /\ s[n + 1] \in S
        /\ prev \in Seq(S) /\ Len(prev) = n /\ \A i \in 1..n : prev[i] = s[i]
    BY <1>0, <1>4, <2>1
  <2>3. F[n + 1] = Append(prev, s[n + 1])
    BY <1>2, <2>2
  <2> HIDE DEF prev
  <2> QED
    BY <2>2, <2>3
<1> HIDE DEF G
<1>5. Len(s) \in G
  BY <1>0, <1>3, <1>4, NaturalInduction
<1>6. F[Len(s)] \in Seq(S) /\ Len(F[Len(s)]) = Len(s) /\ \A i \in 1..Len(s) : F[Len(s)][i] = s[i]
  BY <1>0, <1>5 DEF G
<1> QED
  BY <1>0, <1>1, <1>6

(* A number is written with a last digit that is small beside it,           *)
LEMMA PlaceIsSmall ==
  ASSUME NEW b \in Nat
  PROVE  LastPlace(b) \in Places /\ (LastPlace(b) <= b \div 100000 \/ LastPlace(b) = 1)
<1> DEFINE q == b \div 100000
           Fits(s) == /\ s <= q \/ s = 1
                      /\ \A t \in Places : t <= q => t <= s
<1>1. q \in Nat
  OBVIOUS
<1>2. \E s \in Places : Fits(s)
  <2> HIDE DEF q
  <2>1. CASE q < 10                       BY <1>1, <2>1 DEF Places
  <2>2. CASE 10 <= q /\ q < 100           BY <1>1, <2>2 DEF Places
  <2>3. CASE 100 <= q /\ q < 1000         BY <1>1, <2>3 DEF Places
  <2>4. CASE 1000 <= q /\ q < 10000       BY <1>1, <2>4 DEF Places
  <2>5. CASE 10000 <= q /\ q < 100000     BY <1>1, <2>5 DEF Places
  <2>6. CASE 100000 <= q /\ q < 1000000   BY <1>1, <2>6 DEF Places
  <2>7. CASE 1000000 <= q                 BY <1>1, <2>7 DEF Places
  <2> HIDE DEF Fits
  <2> QED
    BY <1>1, <2>1, <2>2, <2>3, <2>4, <2>5, <2>6, <2>7
<1>3. LastPlace(b) = CHOOSE s \in Places : Fits(s)
  BY DEF LastPlace
<1> HIDE DEF Fits
<1>4. LastPlace(b) \in Places /\ Fits(LastPlace(b))
  BY <1>2, <1>3
<1> QED
  BY <1>4 DEF Fits

(* so that what is written is the number or close to it.                    *)
LEMMA RoundingIsClose ==
  ASSUME NEW b \in Nat, NEW s \in Places, s <= b \div 100000 \/ s = 1
  PROVE  LET r == RoundedAt(b, s)
         IN /\ r \in Int
            /\ r = b \/ (2 * (b - r) <= b \div 100000 /\ 2 * (r - b) <= b \div 100000)
<1> DEFINE rest == b % s
<1>1. s \in Nat \ {0} /\ rest \in 0..(s - 1) /\ (s = 1 => rest = 0)
  BY DEF Places
<1>2. RoundedAt(b, s) = IF 2 * rest > s \/ (2 * rest = s /\ b \in TiesUp) THEN b - rest + s ELSE b - rest
  BY DEF RoundedAt
<1> HIDE DEF rest
<1> DEFINE q == b \div 100000
<1>3. q \in Nat /\ (s <= q \/ s = 1)
  OBVIOUS
<1> HIDE DEF q
<1>4. LET r == RoundedAt(b, s) IN r \in Int /\ (r = b \/ (2 * (b - r) <= q /\ 2 * (r - b) <= q))
  <2>1. CASE 2 * rest > s \/ (2 * rest = s /\ b \in TiesUp)
    <3>1. RoundedAt(b, s) = b - rest + s
      BY <1>2, <2>1
    <3>2. 2 * rest >= s
      BY <1>1, <2>1
    <3> QED
      BY <1>1, <1>3, <3>1, <3>2
  <2>2. CASE ~(2 * rest > s \/ (2 * rest = s /\ b \in TiesUp))
    <3>1. RoundedAt(b, s) = b - rest
      BY <1>2, <2>2
    <3>2. 2 * rest <= s
      BY <1>1, <2>2
    <3> QED
      BY <1>1, <1>3, <3>1, <3>2
  <2> QED
    BY <2>1, <2>2
<1> QED
  BY <1>4 DEF q

LEMMA ShownIsClose ==
  ASSUME NEW b \in Nat \cup {None}
  PROVE  SameToSixDigits(b, Shown(b))
<1>1. CASE b = None \/ b % Million = 0
  BY <1>1 DEF Shown, SameToSixDigits
<1>2. CASE b # None /\ b % Million # 0
  <2>1. b \in Nat
    BY <1>2
  <2>2. Shown(b) = RoundedAt(b, LastPlace(b))
    BY <1>2 DEF Shown
  <2>3. LastPlace(b) \in Places /\ (LastPlace(b) <= b \div 100000 \/ LastPlace(b) = 1)
    BY <2>1, PlaceIsSmall
  <2> DEFINE r == RoundedAt(b, LastPlace(b))
  <2>4. /\ r \in Int
        /\ r = b \/ (2 * (b - r) <= b \div 100000 /\ 2 * (r - b) <= b \div 100000)
    BY <2>1, <2>3, RoundingIsClose
  <2> QED
    BY <1>2, <2>2, <2>4, NoneAssumption DEF SameToSixDigits
<1> QED
  BY <1>1, <1>2

(* The ranges that are written, where they can be read, say what the tiers  *)
(* say, with the digits that are shown.                                     *)
LEMMA LabelsReadBack ==
  /\ \A days, i : RangeReadable(DaysRangeLabel(days, i)) =>
       LowerOf(DaysRangeLabel(days, i)) = Shown(days[i].gt)
  /\ \A t, p : RangeReadable(SeaRangeLabel(t, p)) =>
       /\ LowerOf(SeaRangeLabel(t, p)) = Shown(t.gt)
       /\ UpperOf(SeaRangeLabel(t, p)) = Shown(t.lte)
<1>0. Shown(None) = None
  BY DEF Shown
<1>1. \A days, i : RangeReadable(DaysRangeLabel(days, i)) =>
        LowerOf(DaysRangeLabel(days, i)) = Shown(days[i].gt)
  BY <1>0 DEF LowerOf, DaysRangeLabel, Written, Span, RangeReadable
<1>2. \A t, p : RangeReadable(SeaRangeLabel(t, p)) =>
        /\ LowerOf(SeaRangeLabel(t, p)) = Shown(t.gt)
        /\ UpperOf(SeaRangeLabel(t, p)) = Shown(t.lte)
  BY <1>0 DEF LowerOf, UpperOf, SeaRangeLabel, Written, Span, RangeReadable
<1> QED
  BY <1>1, <1>2

LEMMA TiersReadBack ==
  ASSUME NEW tiers, NEW p, NEW body, NEW read, read = ReadTiers(tiers),
         BoundsAreNumbers(tiers), ValidSeaTiers(read),
         ReadableTiers(LabelTiers(read, p), body)
  PROVE  SameTiers(read, ReadTiers(LabelTiers(read, p)))
<1>1. /\ read = [i \in DOMAIN tiers |-> read[i]] /\ DOMAIN read = DOMAIN tiers
      /\ \A i \in DOMAIN tiers :
           /\ read[i] = [gt |-> read[i].gt, days |-> read[i].days, lte |-> read[i].lte]
           /\ read[i].gt = LowerOf(tiers[i].range) /\ read[i].lte = UpperOf(tiers[i].range)
  BY DEF ReadTiers
<1> DEFINE back == ReadTiers(LabelTiers(read, p))
<1>2. /\ DOMAIN back = DOMAIN read
      /\ \A i \in DOMAIN read :
           back[i] = [gt |-> LowerOf(SeaRangeLabel(read[i], p)), days |-> read[i].days,
                      lte |-> UpperOf(SeaRangeLabel(read[i], p))]
  BY DEF ReadTiers, LabelTiers
<1>3. \A i \in DOMAIN read : RangeReadable(SeaRangeLabel(read[i], p))
  BY DEF ReadableTiers, LabelTiers
<1>4. \A i \in DOMAIN read : read[i].gt \in Nat \cup {None} /\ read[i].lte \in Nat \cup {None}
  <2> SUFFICES ASSUME NEW i \in DOMAIN read
               PROVE  read[i].gt \in Nat \cup {None} /\ read[i].lte \in Nat \cup {None}
    OBVIOUS
  <2>1. read[i].gt \in Bound /\ read[i].lte \in Bound
    BY <1>1 DEF BoundsAreNumbers, LowerOf, UpperOf, Bound
  <2>2. (read[i].gt # None => read[i].gt >= 0) /\ (read[i].lte # None => read[i].lte >= 0)
    BY DEF ValidSeaTiers
  <2> QED
    BY <2>1, <2>2 DEF Bound
<1> HIDE DEF back
<1>5. ASSUME NEW i \in DOMAIN read
      PROVE  /\ DOMAIN read[i] = DOMAIN back[i]
             /\ \A k \in DOMAIN read[i] :
                  IF k \in {"gt", "lte"} THEN SameToSixDigits(read[i][k], back[i][k])
                                         ELSE read[i][k] = back[i][k]
  <2> DEFINE r == read[i]
             c == back[i]
  <2>1. LowerOf(SeaRangeLabel(r, p)) = Shown(r.gt) /\ UpperOf(SeaRangeLabel(r, p)) = Shown(r.lte)
    BY Zenon, <1>3, LabelsReadBack
  <2>2. r = [gt |-> r.gt, days |-> r.days, lte |-> r.lte]
    BY <1>1
  <2>3. c = [gt |-> Shown(r.gt), days |-> r.days, lte |-> Shown(r.lte)]
    BY <1>2, <2>1
  <2>4. SameToSixDigits(r.gt, Shown(r.gt)) /\ SameToSixDigits(r.lte, Shown(r.lte))
    BY <1>4, ShownIsClose
  <2> HIDE DEF r, c
  <2>5. /\ DOMAIN r = {"gt", "days", "lte"} /\ DOMAIN c = {"gt", "days", "lte"}
        /\ c.gt = Shown(r.gt) /\ c.lte = Shown(r.lte) /\ c.days = r.days
    <3>1. DOMAIN r = {"gt", "days", "lte"}
      BY <2>2
    <3> QED
      BY <2>3, <3>1
  <2>6. \A k \in DOMAIN r : IF k \in {"gt", "lte"} THEN SameToSixDigits(r[k], c[k]) ELSE r[k] = c[k]
    BY <2>4, <2>5
  <2> QED
    BY <2>5, <2>6 DEF r, c
<1> QED
  BY <1>2, <1>5 DEF SameTiers, back

(* A scheme that was taken from a workbook goes back into it and, if the     *)
(* workbook is taken, out of it.                                            *)
LEMMA SchemeReadsBack ==
  ASSUME NEW sheet \in Sheets, SheetAccepted(sheet),
         SheetAccepted(ExportSheet(SheetParams(sheet)))
  PROVE  LET p == SheetParams(sheet)
         IN SameScheme(p, SheetParams(ExportSheet(p)))
<1> DEFINE body == sheet.body
           p == SheetParams(sheet)
           E == ExportSheet(p).body
           q == SheetParams(ExportSheet(p))
           pdays == [i \in DOMAIN body.days |-> [body.days[i] EXCEPT !.gt = LowerOf(body.days[i].gt)]]
           ptiers == ReadTiers(body.tiers)
           pcomp == ReadTiers(body.companionTiers)
           prules == ReadRules(body.rules)
           edays == [i \in DOMAIN p.days |-> [p.days[i] EXCEPT !.gt = DaysRangeLabel(p.days, i)]]
           qdays == [i \in DOMAIN E.days |-> [E.days[i] EXCEPT !.gt = LowerOf(E.days[i].gt)]]
           pnet == IF body.minNet = None THEN 0 ELSE body.minNet
           qnet == IF E.minNet = None THEN 0 ELSE E.minNet
           Known == {"days", "tiers", "companionTiers", "minNet", "rules"}
<1>1. p = [[[[[body EXCEPT !.days = pdays] EXCEPT !.tiers = ptiers] EXCEPT !.companionTiers = pcomp]
             EXCEPT !.minNet = pnet] EXCEPT !.rules = prules]
  BY DEF SheetParams
<1>2. E = [[[p EXCEPT !.days = edays] EXCEPT !.tiers = LabelTiers(p.tiers, p)]
            EXCEPT !.companionTiers = LabelTiers(p.companionTiers, p)]
  BY DEF ExportSheet
<1>3. q = [[[[[E EXCEPT !.days = qdays] EXCEPT !.tiers = ReadTiers(E.tiers)]
             EXCEPT !.companionTiers = ReadTiers(E.companionTiers)] EXCEPT !.minNet = qnet]
            EXCEPT !.rules = ReadRules(E.rules)]
  BY DEF SheetParams
<1>4. body.rules \in Seq({body.rules[i] : i \in DOMAIN body.rules})
  BY SheetAssumption
<1>5. prules \in Seq({body.rules[i] : i \in DOMAIN body.rules})
  <2> DEFINE S == {body.rules[i] : i \in DOMAIN body.rules}
  <2> HIDE DEF S
  <2>1. body.rules \in Seq(S)
    BY <1>4 DEF S
  <2>2. prules \in Seq(S)
    BY <2>1, ReadRulesType
  <2> QED
    BY <2>2 DEF S
<1>6. ValidTemplate(p) /\ ValidDays(p) /\ ValidSeaTiers(p.tiers) /\ ValidSeaTiers(p.companionTiers)
  BY DEF SheetAccepted, ValidTemplate, ValidBase, ValidSea
<1>16. /\ \A i \in DOMAIN E.days : RangeReadable(E.days[i].gt)
       /\ ReadableTiers(E.tiers, E) /\ ReadableTiers(E.companionTiers, E)
  BY Zenon DEF SheetAccepted
<1>17. /\ \A i \in DOMAIN body.days : body.days[i].gt.lo \in Bound
       /\ BoundsAreNumbers(body.tiers) /\ BoundsAreNumbers(body.companionTiers)
  BY SheetAssumption
<1> HIDE DEF p, E, q, body, pdays, ptiers, pcomp, prules, pnet
<1>7. /\ DOMAIN p = DOMAIN body /\ p = [k \in DOMAIN body |-> p[k]]
      /\ "days" \in DOMAIN body => p.days = pdays
      /\ "tiers" \in DOMAIN body => p.tiers = ptiers
      /\ "companionTiers" \in DOMAIN body => p.companionTiers = pcomp
      /\ "minNet" \in DOMAIN body => p.minNet = pnet
      /\ "rules" \in DOMAIN body => p.rules = prules
  BY <1>1
<1> HIDE DEF edays
<1>8. /\ DOMAIN E = DOMAIN body
      /\ "days" \in DOMAIN body => E.days = edays
      /\ "tiers" \in DOMAIN body => E.tiers = LabelTiers(p.tiers, p)
      /\ "companionTiers" \in DOMAIN body => E.companionTiers = LabelTiers(p.companionTiers, p)
      /\ \A k \in DOMAIN body \ {"days", "tiers", "companionTiers"} : E[k] = p[k]
  BY <1>2, <1>7
<1> HIDE DEF qdays, qnet
<1>9. /\ DOMAIN q = DOMAIN body /\ q = [k \in DOMAIN body |-> q[k]]
      /\ "days" \in DOMAIN body => q.days = qdays
      /\ "tiers" \in DOMAIN body => q.tiers = ReadTiers(E.tiers)
      /\ "companionTiers" \in DOMAIN body => q.companionTiers = ReadTiers(E.companionTiers)
      /\ "minNet" \in DOMAIN body => q.minNet = qnet
      /\ "rules" \in DOMAIN body => q.rules = ReadRules(E.rules)
      /\ \A k \in DOMAIN body \ Known : q[k] = E[k]
  BY <1>3, <1>8
<1>10. "days" \in DOMAIN body => SameTiers(p.days, q.days)
  <2> SUFFICES ASSUME "days" \in DOMAIN body PROVE SameTiers(pdays, qdays)
    BY <1>7, <1>9
  <2>1. /\ DOMAIN pdays = DOMAIN body.days
        /\ \A i \in DOMAIN body.days :
             pdays[i] = [body.days[i] EXCEPT !.gt = LowerOf(body.days[i].gt)]
    BY DEF pdays
  <2>2. /\ DOMAIN edays = DOMAIN pdays
        /\ \A i \in DOMAIN pdays : edays[i] = [pdays[i] EXCEPT !.gt = DaysRangeLabel(pdays, i)]
    BY <1>7 DEF edays
  <2>3. /\ DOMAIN qdays = DOMAIN edays
        /\ \A i \in DOMAIN edays : qdays[i] = [edays[i] EXCEPT !.gt = LowerOf(edays[i].gt)]
    BY <1>8 DEF qdays
  <2>4. ASSUME NEW i \in DOMAIN pdays
        PROVE  /\ DOMAIN pdays[i] = DOMAIN qdays[i]
               /\ \A k \in DOMAIN pdays[i] :
                    IF k \in {"gt", "lte"} THEN SameToSixDigits(pdays[i][k], qdays[i][k])
                                           ELSE pdays[i][k] = qdays[i][k]
    <3> DEFINE b == body.days[i]
               d == pdays[i]
               l == DaysRangeLabel(pdays, i)
               e == edays[i]
               c == qdays[i]
    <3>1. d = [b EXCEPT !.gt = LowerOf(b.gt)] /\ e = [d EXCEPT !.gt = l] /\ c = [e EXCEPT !.gt = LowerOf(e.gt)]
      BY <2>1, <2>2, <2>3
    <3>2. RangeReadable(e.gt)
      BY <1>8, <1>16, <2>2
    <3>3. b.gt.lo \in Bound
      BY <1>17, <2>1
    <3>4. d.gt # None => d.gt >= 0
      BY <1>6, <1>7 DEF ValidDays
    <3>5. RangeReadable(l) => LowerOf(l) = Shown(d.gt)
      BY Zenon, LabelsReadBack
    <3> HIDE DEF b, d, l, e, c
    <3>6. /\ DOMAIN d = DOMAIN b /\ DOMAIN e = DOMAIN b /\ DOMAIN c = DOMAIN b
          /\ \A k \in DOMAIN b \ {"gt"} : c[k] = d[k]
          /\ "gt" \in DOMAIN b => d.gt = LowerOf(b.gt) /\ e.gt = l /\ c.gt = LowerOf(l)
      BY <3>1
    <3>7. "gt" \in DOMAIN b => SameToSixDigits(d.gt, c.gt)
      <4> SUFFICES ASSUME "gt" \in DOMAIN b PROVE SameToSixDigits(d.gt, c.gt)
        OBVIOUS
      <4>1. d.gt \in Bound
        BY <3>3, <3>6 DEF LowerOf, Bound
      <4>2. d.gt \in Nat \cup {None}
        BY <3>4, <4>1 DEF Bound
      <4> QED
        BY <3>2, <3>5, <3>6, <4>2, ShownIsClose
    <3>8. \A k \in DOMAIN b : k = "lte" => SameToSixDigits(d[k], c[k])
      BY <3>6 DEF SameToSixDigits
    <3>9. \A k \in DOMAIN b : IF k \in {"gt", "lte"} THEN SameToSixDigits(d[k], c[k]) ELSE d[k] = c[k]
      BY <3>6, <3>7, <3>8
    <3> QED
      BY <3>6, <3>9 DEF d, c
  <2> QED
    BY <2>1, <2>2, <2>3, <2>4 DEF SameTiers
<1>11. "tiers" \in DOMAIN body => SameTiers(p.tiers, q.tiers)
  BY <1>6, <1>7, <1>8, <1>9, <1>16, <1>17, TiersReadBack DEF ptiers
<1>12. "companionTiers" \in DOMAIN body => SameTiers(p.companionTiers, q.companionTiers)
  BY <1>6, <1>7, <1>8, <1>9, <1>16, <1>17, TiersReadBack DEF pcomp
<1>15. "minNet" \in DOMAIN body => q.minNet = p.minNet
  BY <1>7, <1>8, <1>9 DEF pnet, qnet
<1>13. "rules" \in DOMAIN body => q.rules = p.rules
  <2> SUFFICES ASSUME "rules" \in DOMAIN body PROVE ReadRules(prules) = prules
    BY <1>7, <1>8, <1>9
  <2>1. \A i \in DOMAIN prules : SaysSomething(prules[i])
    BY <1>6, <1>7 DEF ValidTemplate, SaysSomething
  <2> QED
    BY <1>5, <2>1, FullRulesAreKept
<1>14. \A k \in DOMAIN body :
         IF k \in {"days", "tiers", "companionTiers"} THEN SameTiers(p[k], q[k]) ELSE p[k] = q[k]
  <2>1. \A k \in DOMAIN body \ Known : q[k] = p[k]
    BY <1>8, <1>9
  <2> QED
    BY <2>1, <1>10, <1>11, <1>12, <1>13, <1>15
<1> QED
  BY <1>7, <1>9, <1>14 DEF p, q, SameScheme

(* Whatever scheme is in the store, its exported workbook, handed in        *)
(* unchanged and taken by the parser, is read as the same scheme: no tier,   *)
(* rule or parameter changes on the way, and no bound of a range by more     *)
(* than the six digits it is written with (export_template_xlsx,             *)
(* _display_number_text, parse_template_xlsx).                               *)
THEOREM ExportsReadBack == Spec => []AcceptedExportIsTheScheme
<1>1. StoreInv => AcceptedExportIsTheScheme
  <2> SUFFICES ASSUME StoreInv, NEW i \in DOMAIN store,
                      SheetAccepted(ExportSheet(store[i].params))
               PROVE  SameScheme(store[i].params, SheetParams(ExportSheet(store[i].params)))
    BY DEF AcceptedExportIsTheScheme
  <2>1. store[i] \in Scheme
    BY DEF StoreInv, StoreTypes
  <2>2. PICK sheet \in Sheets : SheetAccepted(sheet) /\ store[i].params = SheetParams(sheet)
    BY <2>1 DEF Scheme, AcceptedParams
  <2> QED
    BY <2>2, SchemeReadsBack
<1> QED
  BY <1>1, StoreCorrect, PTL
=============================================================================
