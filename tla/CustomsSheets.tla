---------------------------- MODULE CustomsSheets ----------------------------
(***************************************************************************)
(* How the sheets of the customs template are made as long as the          *)
(* declaration (services/agent_cli/mabang/fill_customs_declaration.py):    *)
(* rows are inserted and deleted under formulas, merged cells, a print     *)
(* area and page breaks that name rows by their numbers.                   *)
(*                                                                         *)
(* A sheet is [rows, merges, print, breaks].  A row is [id, refs]: id says *)
(* what it holds and refs are the references [to, fixed, own] its formulas *)
(* make, to a row, written with a $ or not, on this sheet or on another.   *)
(* A merge is [what, first, last].                                         *)
(***************************************************************************)
EXTENDS Integers, Sequences, FiniteSets, FiniteSetsExt, SequencesExt, Functions

CONSTANTS
  BlockRows,    \* CUSTOMS_DETAIL_BLOCK_ROWS
  KeptBlocks,   \* CUSTOMS_DETAIL_BLANK_BLOCKS_TO_KEEP
  KeptRows      \* FORMULA_BLANK_ROWS_TO_KEEP

MapRefs(row, Moved(_)) == [row EXCEPT !.refs = {Moved(r) : r \in @}]

(***************************************************************************)
(* References: a formula copied to another row, a formula below rows that  *)
(* were inserted, and below rows that were deleted.                        *)
(***************************************************************************)
CopiedRef(ref, by) == IF ref.fixed \/ ref.to + by <= 0 THEN ref ELSE [ref EXCEPT !.to = @ + by]

InsertedRef(ref, at, n) == IF ~ref.own \/ ref.fixed \/ ref.to < at THEN ref ELSE [ref EXCEPT !.to = @ + n]

(* Mutant: references are left as they were. *)
DeletedRefKept(ref, start, n) == ref
DeletedRef(ref, start, n) ==
  IF ~ref.own \/ ref.fixed \/ ref.to <= start + n - 1 THEN ref ELSE [ref EXCEPT !.to = @ - n]

(* _insert_rows_preserving_template: the rows above are not read again, nor the print area. *)
InsertRows(sheet, at, n) ==
  LET Below(row) == MapRefs(row, LAMBDA r : InsertedRef(r, at, n))
      empty == [i \in 1 .. n |-> [id |-> "blank", refs |-> {}]]
      tail == SubSeq(sheet.rows, at, Len(sheet.rows))
  IN [sheet EXCEPT
        !.rows = SubSeq(@, 1, at - 1) \o empty \o [i \in DOMAIN tail |-> Below(tail[i])],
        !.merges = {IF m.first < at THEN m ELSE [m EXCEPT !.first = @ + n, !.last = @ + n] : m \in @}]

(***************************************************************************)
(* Deletion.  A merge that begins in the rows deleted and ends below them, *)
(* or that spans them, stops it.                                           *)
(***************************************************************************)
Crosses(m, start, n) == ~(m.last < start) /\ ~(m.first > start + n - 1) /\ m.last > start + n - 1

DeletionRefused(sheet, start, n) == n > 0 /\ \E m \in sheet.merges : Crosses(m, start, n)

MergesAfter(merges, start, n) ==
  {m \in merges : m.last < start}
  \cup {[m EXCEPT !.last = start - 1] : m \in {m \in merges : m.first < start /\ m.last >= start}}
  \cup {[m EXCEPT !.first = @ - n, !.last = @ - n] : m \in {m \in merges : m.first > start + n - 1}}

(* The print area begins with the first row. *)
PrintAfter(print, start, n) ==
  IF start <= print THEN Max({1, print - (Min({print, start + n - 1}) - start + 1)}) ELSE print

BreaksAfter(breaks, print, start, n) ==
  {b \in {IF b > start + n - 1 THEN b - n ELSE b : b \in breaks \ (start .. start + n - 1)} : b <= print}

DeleteRows(sheet, start, n) ==
  LET Below(row) == MapRefs(row, LAMBDA r : DeletedRef(r, start, n))
      tail == SubSeq(sheet.rows, start + n, Len(sheet.rows))
  IN IF n <= 0 THEN sheet
     ELSE [rows   |-> SubSeq(sheet.rows, 1, start - 1) \o [i \in DOMAIN tail |-> Below(tail[i])],
           merges |-> MergesAfter(sheet.merges, start, n),
           print  |-> PrintAfter(sheet.print, start, n),
           breaks |-> BreaksAfter(sheet.breaks, PrintAfter(sheet.print, start, n), start, n)]

(***************************************************************************)
(* The formula sheets (invoice, packing list, contract): a header, detail  *)
(* rows whose first is the model of all, and a summary row.                *)
(***************************************************************************)
RowOf(sheet, id) == Min({i \in DOMAIN sheet.rows : sheet.rows[i].id = id})
HasRow(sheet, id) == \E i \in DOMAIN sheet.rows : sheet.rows[i].id = id

FormulaSheetRefused(sheet) ==
  ~HasRow(sheet, "header") \/ ~HasRow(sheet, "total") \/ RowOf(sheet, "total") <= RowOf(sheet, "header") + 1

(* Room for n rows above the summary row. *)
Extended(sheet, n) ==
  LET missing == n - (RowOf(sheet, "total") - RowOf(sheet, "header") - 1)
  IN IF missing > 0 THEN InsertRows(sheet, RowOf(sheet, "total"), missing) ELSE sheet

(* The first detail row copied n times, the rows left over emptied. *)
Copied(sheet, n) ==
  LET first == RowOf(sheet, "header") + 1
      total == RowOf(sheet, "total")
      Copy(i) == [id |-> "item", refs |-> {CopiedRef(r, i - first) : r \in sheet.rows[first].refs}]
  IN [sheet EXCEPT !.rows =
        [i \in DOMAIN @ |-> IF i \notin first .. total - 1 THEN @[i]
                            ELSE IF i < first + n THEN Copy(i) ELSE [id |-> "blank", refs |-> {}]]]

Shortened(sheet, n) ==
  LET start == RowOf(sheet, "header") + 1 + n + KeptRows
  IN DeleteRows(sheet, start, RowOf(sheet, "total") - start)

(* Mutant: the sum stops one row short. *)
SummedShort(sheet, n) ==
  LET first == RowOf(sheet, "header") + 1
      total == RowOf(sheet, "total")
  IN [sheet EXCEPT !.rows[total].refs = {[to |-> i, fixed |-> FALSE, own |-> TRUE] : i \in first .. first + n - 2}]
Summed(sheet, n) ==
  LET first == RowOf(sheet, "header") + 1
      total == RowOf(sheet, "total")
  IN [sheet EXCEPT !.rows[total].refs = {[to |-> i, fixed |-> FALSE, own |-> TRUE] : i \in first .. first + n - 1}]

FormulaSheet(sheet, n) == Summed(Shortened(Copied(Extended(sheet, n), n), n), n)

FormulaFillRefused(sheet, n) ==
  \/ FormulaSheetRefused(sheet)
  \/ LET s == Copied(Extended(sheet, n), n)
         start == RowOf(s, "header") + 1 + n + KeptRows
     IN DeletionRefused(s, start, RowOf(s, "total") - start)

(***************************************************************************)
(* The declaration sheet: blocks of rows under the header, one for each    *)
(* product, and the number of boxes in a cell merged over all of them.     *)
(***************************************************************************)
BlockCount(sheet) ==
  LET first == RowOf(sheet, "header") + 1
      Filled(k) == \E i \in first + (k - 1) * BlockRows .. first + k * BlockRows - 1 :
                     i \in DOMAIN sheet.rows /\ (sheet.rows[i].id # "blank" \/ \E m \in sheet.merges : i \in m.first .. m.last)
  IN Max({0} \cup {k \in 1 .. Len(sheet.rows) \div BlockRows :
                     first + k * BlockRows - 1 <= Len(sheet.rows) /\ \A l \in 1 .. k : Filled(l)})

BlockStart(sheet, k) == RowOf(sheet, "header") + 1 + (k - 1) * BlockRows

DetailsRefused(sheet, n) == ~HasRow(sheet, "header") \/ BlockCount(sheet) = 0 \/ n > BlockCount(sheet)

(* The first merge of the column at the first block makes way for one over the blocks written. *)
BoxesMerged(sheet, n) ==
  LET first == BlockStart(sheet, 1)
  IN [sheet EXCEPT !.merges =
        {m \in @ : ~(m.what = "boxes" /\ first \in m.first .. m.last)}
        \cup {[what |-> "boxes", first |-> first, last |-> BlockStart(sheet, n) + BlockRows - 1]}]

(* The values of the blocks not used are emptied, and all but a few of those blocks deleted. *)
BlocksDeleted(sheet, blocks, n) ==
  LET unused == n + KeptBlocks + 1
      start == BlockStart(sheet, unused)
      emptied == [sheet EXCEPT !.rows =
                    [i \in DOMAIN @ |-> IF i >= BlockStart(sheet, n + 1) /\ i < BlockStart(sheet, blocks + 1)
                                        THEN [id |-> "blank", refs |-> {}] ELSE @[i]]]
  IN DeleteRows(emptied, start, (blocks - unused + 1) * BlockRows)

Written(sheet, n) ==
  [sheet EXCEPT !.rows = [i \in DOMAIN @ |-> IF i >= BlockStart(sheet, 1) /\ i < BlockStart(sheet, n + 1)
                                             THEN [@[i] EXCEPT !.id = "item"] ELSE @[i]]]

DetailSheet(sheet, n) == BlocksDeleted(BoxesMerged(Written(sheet, n), n), BlockCount(sheet), n)

DetailFillRefused(sheet, n) ==
  \/ DetailsRefused(sheet, n)
  \/ LET blocks == BlockCount(sheet)
     IN DeletionRefused(BoxesMerged(sheet, n), BlockStart(sheet, n + KeptBlocks + 1), (blocks - n - KeptBlocks) * BlockRows)
=============================================================================
