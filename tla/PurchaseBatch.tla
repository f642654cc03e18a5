---------------------------- MODULE PurchaseBatch ----------------------------
(***************************************************************************)
(* The commands that turn delivery orders into a purchase batch of the ERP *)
(* and its workbooks (services/agent_cli/mabang:                           *)
(* generate_purchase_batch_workbooks, regenerate_purchase_files).  The ERP *)
(* is external: it plans against its stock, remembers the batches it has   *)
(* committed by request, and asks before it deducts stock or replaces a    *)
(* batch.  Everything the user confirms is something a command has shown.  *)
(***************************************************************************)
EXTENDS PurchasePlan

CONSTANTS
  Sps,             \* sequences of delivery orders a user asks for
  Contents,        \* [content -> CSV] the delivery CSVs there are
  Downloads,       \* [sp -> contents the exports of an order give]
  Master,          \* the master workbook
  TemplateSuppliers, \* suppliers the contract template has a sheet for
  Entries,         \* sequence of the ERP's stock entries [key, contract, price, original]
  FaultyServer,    \* the ERP may answer with a wrong plan
  MaxDownloads, MaxMoves, MaxBatches, MaxCommands \* bounds

ASSUME OrdersAssumption ==
  /\ \A sps \in Sps : sps \in Seq(DOMAIN Downloads)
  /\ \A sp \in DOMAIN Downloads : Downloads[sp] \subseteq DOMAIN Contents
  /\ \A c \in DOMAIN Contents :
       /\ IsFiniteSet(DOMAIN Contents[c])
       /\ \A i \in DOMAIN Contents[c] :
            \A s \in DOMAIN Contents[c][i].parts : Contents[c][i].parts[s] \in Nat
ASSUME MasterAssumption == Master.products \in Seq(Range(Master.products))
ASSUME EntriesAssumption ==
  /\ Entries \in Seq(Range(Entries))
  /\ \A e \in DOMAIN Entries : Entries[e].original \in Nat /\ Entries[e].contract # None
  /\ None \notin DOMAIN Entries

VARIABLES files, downloads, stock, moves, batches, knowsModes, shown, commands, command, result

erp == <<stock, moves, batches, knowsModes>>
vars == <<files, downloads, erp, shown, commands, command, result>>

Idle == [phase |-> "idle"]
NoResult == [status |-> "none"]

Csvs(fs) == [sp \in DOMAIN fs |-> Contents[fs[sp].content]]

(***************************************************************************)
(* What a command sends: a file is its name and its content, and both are  *)
(* in the digest the request is known by.  The quote is not.               *)
(***************************************************************************)
Request(sps, mode, replace) ==
  [sps |-> sps, mode |-> mode, replace |-> replace,
   files |-> [sp \in Range(sps) |-> files[sp]], lines |-> IntentLines(sps, Csvs(files), Master)]

(* Mutant: the quote is part of the request's identity. *)
RequestIdWithQuote(request, quote) == <<request, quote>>
RequestId(request, quote) == <<request, None>>

Token(request) ==
  IF Unmatched(request.sps, Csvs(request.files), Master) = {} THEN None
  ELSE <<request.sps, request.files, request.mode>>

(* Mutant: any confirmation will do. *)
TokenMatchesAny(token, request) == (Token(request) = None) <=> (token = None)
TokenMatches(token, request) == token = Token(request)

(***************************************************************************)
(* The ERP (external).                                                     *)
(***************************************************************************)
Overlap(a, b) == Max({0, Min({a[2], b[2]}) - Max({a[1], b[1]}) + 1})

(* First in, first out: the shares of a line are laid end to end over what is left in the
   entries of its model, and what they leave uncovered is bought. *)
MineOf(key, mode) == {e \in DOMAIN Entries : mode = "fifo" /\ Entries[e].key = key}
LeftUpto(left, mine, e) == SumAt(left, {f \in mine : f <= e})
ShareSpan(shares, i) == <<SharedUnits(shares, 1 .. i - 1) + 1, SharedUnits(shares, 1 .. i)>>
SourceSpan(planned, left, mine, e) ==
  IF e = None THEN <<LeftUpto(left, mine, Len(Entries)) + 1, planned>>
  ELSE <<LeftUpto(left, mine, e) - left[e] + 1, LeftUpto(left, mine, e)>>

ErpLine(key, asked, left, mode) ==
  LET mine == MineOf(key, mode)
      Span(e) == SourceSpan(asked.planned, left, mine, e)
      Used(e) == Overlap(<<1, asked.planned>>, Span(e))
      used == {e \in mine : Used(e) > 0}
      Detail(i, e) == [share |-> i, sp |-> asked.shares[i].sp, sku |-> asked.shares[i].sku, entry |-> e,
                       quantity |-> Overlap(ShareSpan(asked.shares, i), Span(e))]
      details == {Detail(i, e) : i \in DOMAIN asked.shares, e \in used \cup {None}}
      applied == [e \in used |-> Used(e)]
      carried == SumAt(applied, used)
  IN [planned |-> asked.planned, carryover |-> carried, purchase |-> asked.planned - carried,
      details |-> {d \in details : d.quantity > 0}, applied |-> applied]

Conflicts(request) ==
  {n \in DOMAIN batches : /\ batches[n].current /\ n # request.replace
                          /\ batches[n].id # RequestId(request, command.quote)
                          /\ Range(batches[n].request.sps) \cap Range(request.sps) # {}}

(* What lines take of an entry. *)
TakenOf(lines, e) ==
  SumAt([k \in DOMAIN lines |-> IF e \in DOMAIN lines[k].applied THEN lines[k].applied[e] ELSE 0], DOMAIN lines)

(* What is in stock once the batch to be replaced has given back what it took. *)
StockFor(request) ==
  [e \in DOMAIN stock |->
     stock[e] + (IF request.replace = None THEN 0 ELSE TakenOf(batches[request.replace].answer.lines, e))]

Plan(request) ==
  [k \in DOMAIN request.lines |->
     ErpLine(k, request.lines[k], StockFor(request), IF knowsModes THEN request.mode ELSE "fifo")]

Answer(request, lines, batch) ==
  [mode |-> IF knowsModes THEN request.mode ELSE None, batch |-> batch, sps |-> request.sps,
   lines |-> lines, contracts |-> SuppliersBought(lines)]

(* A faulty server gives every share to one order, or forgets a line. *)
Answers(request, lines, batch) ==
  LET OneSp(sp) == [k \in DOMAIN lines |-> [lines[k] EXCEPT !.details = {[d EXCEPT !.sp = sp] : d \in @}]]
      Less(k) == [l \in DOMAIN lines \ {k} |-> lines[l]]
  IN {Answer(request, ls, batch) :
        ls \in {lines} \cup (IF FaultyServer
                             THEN {OneSp(request.sps[1]), Less(CHOOSE k \in DOMAIN lines : TRUE)} ELSE {})}

Taken(lines) == {k \in DOMAIN lines : lines[k].carryover > 0}
Quote(request) ==
  [request |-> request, lines |-> [k \in Taken(Plan(request)) |-> Plan(request)[k]],
   stock |-> [e \in DOMAIN Entries |-> [remaining |-> StockFor(request)[e], original |-> Entries[e].original]]]

Commit(id, request) ==
  LET n == Len(batches) + 1
      kept == [b \in DOMAIN batches |-> [batches[b] EXCEPT !.current = @ /\ b # request.replace]]
      lines == Plan(request)
  IN /\ batches' = Append(kept, [id |-> id, request |-> request, current |-> TRUE, answer |-> Answer(request, lines, n)])
     /\ stock' = [e \in DOMAIN stock |-> StockFor(request)[e] - TakenOf(lines, e)]

(***************************************************************************)
Init ==
  /\ files \in [DOMAIN Downloads -> UNION {[content : Downloads[sp], version : {0}] : sp \in DOMAIN Downloads}]
  /\ \A sp \in DOMAIN files : files[sp].content \in Downloads[sp]
  /\ downloads = 0 /\ moves = 0 /\ commands = 0
  /\ \E full \in BOOLEAN : stock = [e \in DOMAIN Entries |-> IF full THEN Entries[e].original ELSE 0]
  /\ batches = <<>>
  /\ knowsModes \in BOOLEAN
  /\ shown = [tokens |-> {}, quotes |-> {}, conflicts |-> {}]
  /\ command = Idle
  /\ result = NoResult

(* The order is exported again: a new file, of the same content or of another. *)
Redownload(sp) ==
  /\ downloads < MaxDownloads
  /\ downloads' = downloads + 1
  /\ \E c \in Downloads[sp] : files' = [files EXCEPT ![sp] = [content |-> c, version |-> @.version + 1]]
  /\ UNCHANGED <<erp, shown, commands, command, result>>

(* Other users of the ERP take from its stock. *)
StockMoves(e) ==
  /\ moves < MaxMoves /\ stock[e] > 0
  /\ moves' = moves + 1
  /\ stock' = [stock EXCEPT ![e] = @ - 1]
  /\ UNCHANGED <<files, downloads, batches, knowsModes, shown, commands, command, result>>

(***************************************************************************)
(* The command.                                                            *)
(***************************************************************************)
Finish(r) == command' = Idle /\ result' = r
Show(token, quote, conflict) ==
  shown' = [tokens |-> shown.tokens \cup token, quotes |-> shown.quotes \cup quote,
            conflicts |-> shown.conflicts \cup conflict]
ShowNothing == UNCHANGED shown

ArgumentsRefused(mode, preview, quote) == quote # None /\ (preview \/ mode = "none")

(* Mutant: a command in mode "none" commits at once. *)
AskFirstInPreview(mode, preview) == preview

(* A command in mode "none" asks for a preview before it commits anything. *)
AskFirst(mode, preview) == preview \/ mode = "none"

(* run, up to the first call of the ERP: the reasons to stop, in their order. *)
Start(sps, mode, preview, token, quote, replace) ==
  LET request == Request(sps, mode, replace)
      refused == \/ ArgumentsRefused(mode, preview, quote)
                 \/ IntentRefused(sps, Csvs(files), Master)
      noSheet == {k[1] : k \in DOMAIN request.lines} \ TemplateSuppliers # {}
  IN /\ command = Idle /\ commands < MaxCommands
     /\ commands' = commands + 1
     /\ IF refused THEN Finish([status |-> "refused"]) /\ ShowNothing
        ELSE IF ~TokenMatches(token, request)
        THEN Finish([status |-> IF token = None THEN "confirm_unmatched" ELSE "unmatched_stale"])
             /\ Show({Token(request)} \ {None}, {}, {})
        ELSE IF noSheet THEN Finish([status |-> "no_template_sheet"]) /\ ShowNothing
        ELSE /\ command' = [phase |-> IF AskFirst(mode, preview) THEN "preview" ELSE "import",
                            request |-> request, quote |-> quote, preview |-> preview, answer |-> None]
             /\ result' = NoResult /\ ShowNothing
     /\ UNCHANGED <<files, downloads, erp>>

(* A refusal the user can answer: stock to take, or a batch of the same order. *)
Conflict409 ==
  /\ Finish([status |-> "replace_required", request |-> command.request,
             with |-> {batches[n].request : n \in Conflicts(command.request)}])
  /\ Show({}, {}, Conflicts(command.request))

(* The files are made of this answer. *)
Answered(answer) == [command EXCEPT !.phase = "write", !.answer = answer]

AskErp ==
  /\ command.phase = "preview"
  /\ \/ Conflicts(command.request) # {} /\ Conflict409
     \/ /\ Conflicts(command.request) = {}
        /\ \E answer \in Answers(command.request, Plan(command.request), None) :
             IF ~ValidAnswer(answer, command.request, TRUE)
             THEN Finish([status |-> "answer_refused"])
             ELSE /\ command' = IF command.preview THEN Answered(answer) ELSE [command EXCEPT !.phase = "import"]
                  /\ UNCHANGED result
        /\ ShowNothing
     \/ Finish([status |-> "erp_error"]) /\ ShowNothing
  /\ UNCHANGED <<files, downloads, erp, commands>>

(* The ERP takes from its stock only what the quote it is given says. *)
StockAgreed(request) ==
  Taken(Plan(request)) = {} \/ (command.quote # None /\ command.quote = Quote(request))

Same(id) == {n \in DOMAIN batches : batches[n].current /\ batches[n].id = id}

(* What a batch is answered with may be lost, or may not be the batch. *)
Committed(request, lines, n) ==
  \/ Finish([status |-> "erp_error"])
  \/ \E answer \in Answers(request, lines, n) :
       IF ValidAnswer(answer, request, FALSE)
       THEN command' = Answered(answer) /\ UNCHANGED result
       ELSE Finish([status |-> "artifacts_failed"])

(* The request has been committed before: the ERP answers with that batch. *)
ImportAgain ==
  /\ command.phase = "import"
  /\ \E n \in Same(RequestId(command.request, command.quote)) :
       Committed(command.request, batches[n].answer.lines, n)
  /\ UNCHANGED <<files, downloads, erp, shown, commands>>

ImportRefused ==
  LET request == command.request
  IN /\ command.phase = "import"
     /\ Same(RequestId(request, command.quote)) = {}
     /\ \/ Conflicts(request) # {} /\ Conflict409
        \/ /\ Conflicts(request) = {}
           /\ ~StockAgreed(request)
           /\ IF ValidQuote(Quote(request), request)
              THEN /\ Finish([status |-> IF command.quote = None THEN "confirm_stock" ELSE "quote_stale"])
                   /\ Show({}, {Quote(request)}, {})
              ELSE Finish([status |-> "answer_refused"]) /\ ShowNothing
     /\ UNCHANGED <<files, downloads, erp, commands>>

(* The ERP commits. *)
Import ==
  LET request == command.request
      n == Len(batches) + 1
  IN /\ command.phase = "import" /\ n <= MaxBatches
     /\ Same(RequestId(request, command.quote)) = {}
     /\ Conflicts(request) = {}
     /\ request.replace # None => batches[request.replace].current
     /\ StockAgreed(request)
     /\ Commit(RequestId(request, command.quote), request)
     /\ Committed(request, Plan(request), n)
     /\ UNCHANGED <<files, downloads, moves, knowsModes, shown, commands>>

Prices == [k \in {LineKey(p) : p \in Range(Master.products)} |->
             (CHOOSE p \in Range(Master.products) : LineKey(p) = k).price]

(* What is reported of the files that were written; fresh: of the files of the intent. *)
Written(status, request, answer, books, fresh) ==
  [status |-> status, request |-> request, answer |-> answer, books |-> books, fresh |-> fresh,
   contracts |-> [s \in answer.contracts |-> ContractRows(books.summary, s)]]

(* generate_purchase_batch_workbooks and render_*_purchase_artifacts: the CSVs are read again,
   and every write may fail. *)
Write ==
  LET request == command.request
      lines == command.answer.lines
      books == Workbooks(request.sps, Csvs(files), Master, lines, Prices, Entries)
      Failed == Finish([status |-> IF command.preview THEN "failed" ELSE "artifacts_failed"])
  IN /\ command.phase = "write"
     /\ \/ Failed
        \/ IF \/ WorkbooksRefused(request.sps, Csvs(files), Master, lines)
              \/ ContractsRefused(books.summary, command.answer)
           THEN Failed
           ELSE Finish(Written(IF command.preview THEN "preview" ELSE "completed", request, command.answer, books,
                               \A sp \in Range(request.sps) : files[sp].content = request.files[sp].content))
     /\ UNCHANGED <<files, downloads, erp, shown, commands>>

(* _validate_snapshot_identity *)
SnapshotCurrent(n) == batches[n].current

(* regenerate_purchase_files: from what the ERP recorded of a current batch. *)
Regenerate(n) ==
  LET answer == batches[n].answer
      books == SnapshotWorkbooks(answer.sps, answer.lines, Prices, Entries)
  IN /\ command = Idle /\ commands < MaxCommands
     /\ commands' = commands + 1 /\ command' = Idle
     /\ result' = IF ~SnapshotCurrent(n) THEN [status |-> "not_current"]
                  ELSE IF answer.contracts \ TemplateSuppliers # {} THEN [status |-> "no_template_sheet"]
                  ELSE IF \/ SnapshotRefused(answer.sps, answer.lines)
                          \/ ContractsRefused(books.summary, answer) THEN [status |-> "failed"]
                  ELSE Written("completed", batches[n].request, answer, books, TRUE)
     /\ UNCHANGED <<files, downloads, erp, shown>>

Modes == {"fifo", "none"}

Next ==
  \/ \E sp \in DOMAIN Downloads : Redownload(sp)
  \/ \E e \in DOMAIN Entries : StockMoves(e)
  \/ \E sps \in Sps, mode \in Modes, preview \in BOOLEAN, token \in {None} \cup shown.tokens,
       quote \in {None} \cup shown.quotes, replace \in {None} \cup shown.conflicts :
       Start(sps, mode, preview, token, quote, replace)
  \/ AskErp
  \/ ImportAgain
  \/ ImportRefused
  \/ Import
  \/ Write
  \/ \E n \in DOMAIN batches : Regenerate(n)

Spec == Init /\ [][Next]_vars

(***************************************************************************)
(* Properties.                                                             *)
(***************************************************************************)
(* A batch is committed only after the user has been shown exactly the SKUs of these files it
   leaves out, and exactly the stock it takes: neither a changed file nor moved stock lets an
   older confirmation through (build_purchase_intent, run). *)
ConsentPrecedesCommit ==
  \A n \in DOMAIN batches :
    LET b == batches[n]
    IN /\ Token(b.request) # None => Token(b.request) \in shown.tokens
       /\ Taken(b.answer.lines) # {} =>
            \E q \in shown.quotes : /\ q.request = b.request
                                    /\ q.lines = [k \in Taken(b.answer.lines) |-> b.answer.lines[k]]

(* What is committed is committed on the route that was asked for: an ERP too old to know of
   a request without deduction never commits one (run, preview_purchase_intent). *)
CommitsOnTheAskedRoute ==
  \A n \in DOMAIN batches : ModeOf(batches[n].answer) = batches[n].request.mode

RowSum(rows, k) == UnitsIn({r \in rows : FoldKey(r.key) = k})

(* The workbooks hold every unit planned of a line once, and the sheet of each order its share. *)
LineIsHeld(books, request, k) ==
  LET asked == request.lines[k]
      OfSp(sp) == {i \in DOMAIN asked.shares : asked.shares[i].sp = sp}
  IN /\ RowSum(books.summary, k) = asked.planned
     /\ \A sp \in Range(request.sps) :
          RowSum(books.restock[sp], k) = SharedUnits(asked.shares, OfSp(sp))

(* The master workbook spells the model of the products a request plans of a line in one way. *)
SpeltAlike(request, k) ==
  \A p, q \in PlannedProducts(request.sps, Csvs(request.files), Master) :
    LineKey(p) = k /\ LineKey(q) = k => p.model = q.model

(* When a command succeeds, whatever the ERP answered, the summary holds every planned unit
   once and the sheet of each order its own share, of every line whose planned products are
   spelled alike, as long as the files of the intent are the ones the workbooks were made of. *)
SuccessHoldsThePlan ==
  result.status \in {"completed", "preview"} /\ result.fresh =>
    \A k \in DOMAIN result.request.lines :
      SpeltAlike(result.request, k) => LineIsHeld(result.books, result.request, k)

(* The same of every line: erp_purchase_batch.py:254 takes spellings that differ in case for one
   model. *)
EverySpellingIsHeld ==
  result.status \in {"completed", "preview"} /\ result.fresh =>
    \A k \in DOMAIN result.request.lines : LineIsHeld(result.books, result.request, k)

(* The contracts of a completed command buy what the batch buys, also when an order was
   exported again in between (load_purchase_summary_lines, _fill_erp_purchase_contracts). *)
ContractsAreTheBatch ==
  result.status = "completed" =>
    /\ DOMAIN result.contracts = SuppliersBought(result.answer.lines)
    /\ \A k \in DOMAIN result.answer.lines :
         result.answer.lines[k].purchase > 0 =>
           RowSum(result.contracts[k[1]], k) = result.answer.lines[k].purchase

(* A command given again, with or without the quote it was given before, is not told to replace
   the batch it made itself (build_purchase_intent, request_id). *)
RetryIsRecognised == result.status = "replace_required" => result.request \notin result.with

(* "The same command again fills in what is missing": an order exported again with the same
   content is still the same command. *)
RetryCompletes ==
  result.status = "replace_required" =>
    \A r \in result.with : ~(/\ r.sps = result.request.sps /\ r.mode = result.request.mode
                             /\ r.lines = result.request.lines
                             /\ \A sp \in Range(r.sps) : r.files[sp].content = result.request.files[sp].content)
=============================================================================
