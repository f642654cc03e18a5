------------------------ MODULE PurchaseBatchProofs ------------------------
(***************************************************************************)
(* Proofs of what a purchase command promises, for any orders, workbooks,  *)
(* stock and bounds, in two parts.                                         *)
(*                                                                         *)
(* The first follows what is asked, shown, committed and reported          *)
(* (BatchInv): how the ERP plans and how rows are added up stays opaque.   *)
(*                                                                         *)
(* The second opens both (PlanInv): the sums the modules are written with, *)
(* the intent made of the delivery CSVs, the ERP's plan, which accounts    *)
(* for each share of a line, and the rows that are written of it.          *)
(***************************************************************************)
EXTENDS PurchaseBatch, SequenceTheorems, FiniteSetTheorems, TLAPS

(* What is known of a batch: it bears the identity of its request, its contracts are those of
   its lines, and the user was asked for it. *)
BatchHolds(b, tokens, quotes) ==
  /\ b = [id |-> b.id, request |-> b.request, current |-> b.current, answer |-> b.answer]
  /\ b.id = RequestId(b.request, None)
  /\ b.answer.contracts = SuppliersBought(b.answer.lines)
  /\ ModeOf(b.answer) = b.request.mode
  /\ Token(b.request) # None => Token(b.request) \in tokens
  /\ Taken(b.answer.lines) # {} =>
       \E q \in quotes : /\ q.request = b.request
                         /\ q.lines = [k \in Taken(b.answer.lines) |-> b.answer.lines[k]]

BatchesHold ==
  /\ batches = [n \in 1..Len(batches) |-> batches[n]] /\ Len(batches) \in Nat
  /\ \A n \in DOMAIN batches : BatchHolds(batches[n], shown.tokens, shown.quotes)

(* What is known of the command in progress: it gives only what was shown, and imports only on
   a route the ERP takes. *)
CommandHolds ==
  \/ command = Idle
  \/ /\ command = [phase |-> command.phase, request |-> command.request, quote |-> command.quote,
                   preview |-> command.preview, answer |-> command.answer]
     /\ command.phase \in {"preview", "import", "write"}
     /\ Token(command.request) \in {None} \cup shown.tokens
     /\ command.quote \in {None} \cup shown.quotes
     /\ command.phase = "import" =>
          ModeOf([mode |-> IF knowsModes THEN command.request.mode ELSE None]) = command.request.mode
     /\ command.phase = "write" => command.answer.contracts = SuppliersBought(command.answer.lines)

BatchInv ==
  /\ BatchesHold
  /\ CommandHolds
  /\ RetryIsRecognised
  /\ ContractsAreTheBatch

(***************************************************************************)
(* Lemmas.                                                                 *)

(***************************************************************************)
(* What was consented to stays so: what is shown only grows. *)
LEMMA ConsentStays ==
  ASSUME BatchesHold, UNCHANGED <<batches>>,
         shown.tokens \subseteq shown'.tokens, shown.quotes \subseteq shown'.quotes
  PROVE  BatchesHold'
<1>. DEFINE tokens == shown'.tokens
             quotes == shown'.quotes
<1>1. \A n \in DOMAIN batches : BatchHolds(batches[n], tokens, quotes)
  BY DEF BatchesHold, BatchHolds
<1>. QED  BY <1>1 DEF BatchesHold

(* Show adds to what was shown. *)
LEMMA ShownGrows ==
  ASSUME NEW t, NEW q, NEW c, Show(t, q, c)
  PROVE  /\ shown.tokens \subseteq shown'.tokens
         /\ shown.quotes \subseteq shown'.quotes
BY DEF Show

(* Appending a batch to the list of batches. *)
LEMMA AppendHolds ==
  ASSUME NEW s, NEW n \in Nat, s = [i \in 1..n |-> s[i]], NEW e
  PROVE  /\ Len(Append(s, e)) = n + 1
         /\ Append(s, e) = [i \in 1..(n + 1) |-> Append(s, e)[i]]
         /\ \A i \in 1..n : Append(s, e)[i] = s[i]
         /\ Append(s, e)[n + 1] = e
<1>. DEFINE T == {s[i] : i \in 1..n} \cup {e}
<1>1. s \in [1..n -> T]
  OBVIOUS
<1>2. s \in Seq(T) /\ Len(s) = n
  BY <1>1, LenProperties, SeqDef
<1>3. /\ Append(s, e) \in Seq(T) /\ Len(Append(s, e)) = Len(s) + 1
      /\ \A i \in 1..Len(s) : Append(s, e)[i] = s[i]
      /\ Append(s, e)[Len(s) + 1] = e
  BY <1>2, AppendProperties
<1>4. Append(s, e) \in [1..(n + 1) -> T]
  BY <1>2, <1>3, LenProperties
<1>. QED  BY <1>2, <1>3, <1>4

(* Contracts that are written buy what the answer buys (_fill_erp_purchase_contracts). *)
LEMMA ContractsBuy ==
  ASSUME NEW answer, NEW summary,
         answer.contracts = SuppliersBought(answer.lines),
         ~ContractsRefused(summary, answer),
         NEW k \in DOMAIN answer.lines, answer.lines[k].purchase > 0
  PROVE  /\ k[1] \in answer.contracts
         /\ RowSum(ContractRows(summary, k[1]), k) = answer.lines[k].purchase
<1>1. k[1] \in answer.contracts
  BY DEF SuppliersBought
<1>2. UnitsIn({r \in BoughtRows(summary) : FoldKey(r.key) = k}) = answer.lines[k].purchase
  BY <1>1 DEF ContractsRefused
<1>3. {r \in ContractRows(summary, k[1]) : FoldKey(r.key) = k} = {r \in BoughtRows(summary) : FoldKey(r.key) = k}
  BY DEF ContractRows, FoldKey
<1>. QED  BY <1>1, <1>2, <1>3 DEF RowSum

(* A report of written files has the contracts of the answer. *)
LEMMA ReportHolds ==
  ASSUME NEW status, NEW request, NEW answer, NEW books, NEW fresh,
         result' = Written(status, request, answer, books, fresh),
         status \in {"completed", "preview"},
         answer.contracts = SuppliersBought(answer.lines),
         ~ContractsRefused(books.summary, answer)
  PROVE  RetryIsRecognised' /\ ContractsAreTheBatch'
<1>1. /\ result'.status = status /\ result'.answer = answer
      /\ result'.contracts = [s \in answer.contracts |-> ContractRows(books.summary, s)]
  BY DEF Written
<1>2. RetryIsRecognised'
  BY <1>1 DEF RetryIsRecognised
<1>3. \A k \in DOMAIN answer.lines :
        answer.lines[k].purchase > 0 =>
          /\ k[1] \in answer.contracts
          /\ RowSum(ContractRows(books.summary, k[1]), k) = answer.lines[k].purchase
  BY ContractsBuy
<1>4. ContractsAreTheBatch'
  BY <1>1, <1>3 DEF ContractsAreTheBatch
<1>. QED  BY <1>2, <1>4

(* Every other report. *)
LEMMA PlainReport ==
  ASSUME result'.status \notin {"completed", "replace_required"}
  PROVE  RetryIsRecognised' /\ ContractsAreTheBatch'
BY DEF RetryIsRecognised, ContractsAreTheBatch

(***************************************************************************)
(* Each operation keeps the invariant.                                     *)
(***************************************************************************)
LEMMA InitHolds == Init => BatchInv
<1>. SUFFICES ASSUME Init PROVE BatchInv
  OBVIOUS
<1>1. BatchesHold
  BY DEF Init, BatchesHold
<1>2. CommandHolds
  BY DEF Init, CommandHolds
<1>3. RetryIsRecognised /\ ContractsAreTheBatch
  BY DEF Init, NoResult, RetryIsRecognised, ContractsAreTheBatch
<1>. QED  BY <1>1, <1>2, <1>3 DEF BatchInv

(* What others do to files and stock is no matter of consent. *)
LEMMA OthersHold ==
  ASSUME BatchInv, UNCHANGED <<batches, knowsModes, shown, command, result>>
  PROVE  BatchInv'
<1>1. BatchesHold'
  BY ConsentStays DEF BatchInv
<1>2. CommandHolds'
  BY DEF BatchInv, CommandHolds
<1>3. RetryIsRecognised' /\ ContractsAreTheBatch'
  BY DEF BatchInv, RetryIsRecognised, ContractsAreTheBatch
<1>. QED  BY <1>1, <1>2, <1>3 DEF BatchInv

(* A command that ends with a report that is neither a success nor a conflict. *)
LEMMA EndHolds ==
  ASSUME BatchInv, NEW r, Finish(r), r.status \notin {"completed", "replace_required"},
         UNCHANGED batches, shown.tokens \subseteq shown'.tokens, shown.quotes \subseteq shown'.quotes
  PROVE  BatchInv'
<1>1. BatchesHold'
  BY ConsentStays DEF BatchInv
<1>2. CommandHolds'
  BY DEF Finish, CommandHolds
<1>3. RetryIsRecognised' /\ ContractsAreTheBatch'
  BY PlainReport DEF Finish
<1>. QED  BY <1>1, <1>2, <1>3 DEF BatchInv

(* A conflict is with batches of other identity, so of other requests. *)
LEMMA ConflictHolds ==
  ASSUME BatchInv, Conflict409, UNCHANGED batches
  PROVE  BatchInv'
<1>1. BatchesHold'
  BY ConsentStays, ShownGrows DEF BatchInv, Conflict409
<1>2. CommandHolds'
  BY DEF Conflict409, Finish, CommandHolds
<1>3. command.request \notin {batches[n].request : n \in Conflicts(command.request)}
  BY DEF BatchInv, BatchesHold, BatchHolds, Conflicts, RequestId
<1>4. result' = [status |-> "replace_required", request |-> command.request,
                 with |-> {batches[n].request : n \in Conflicts(command.request)}]
  BY DEF Conflict409, Finish
<1>5. RetryIsRecognised' /\ ContractsAreTheBatch'
  BY <1>3, <1>4 DEF RetryIsRecognised, ContractsAreTheBatch
<1>. QED  BY <1>1, <1>2, <1>5 DEF BatchInv

LEMMA StartHolds ==
  ASSUME BatchInv, NEW sps, NEW mode \in Modes, NEW preview \in BOOLEAN,
         NEW token \in {None} \cup shown.tokens, NEW quote \in {None} \cup shown.quotes, NEW replace,
         Start(sps, mode, preview, token, quote, replace)
  PROVE  BatchInv'
<1>. DEFINE request == Request(sps, mode, replace)
            begun == [phase |-> IF AskFirst(mode, preview) THEN "preview" ELSE "import", request |-> request,
                      quote |-> quote, preview |-> preview, answer |-> None]
<1>0. UNCHANGED <<batches, knowsModes>>
  BY DEF Start, erp
<1>1. ASSUME NEW r, Finish(r), r.status \notin {"completed", "replace_required"},
             shown.tokens \subseteq shown'.tokens, shown.quotes \subseteq shown'.quotes
      PROVE  BatchInv'
  BY <1>0, <1>1, EndHolds
<1>2. CASE \E status \in {"refused", "no_template_sheet"} : Finish([status |-> status]) /\ ShowNothing
  BY <1>1, <1>2 DEF ShowNothing
<1>3. CASE \E status \in {"confirm_unmatched", "unmatched_stale"} :
             Finish([status |-> status]) /\ Show({Token(request)} \ {None}, {}, {})
  BY <1>1, <1>3, ShownGrows
<1>4. CASE /\ TokenMatches(token, request)
           /\ command' = begun /\ result' = NoResult /\ ShowNothing
  <2>1. BatchesHold'
    BY <1>0, <1>4, ConsentStays DEF BatchInv, ShowNothing
  <2>2. request.mode = mode
    BY DEF Request
  <2>3. ~AskFirst(mode, preview) => mode = "fifo"
    BY DEF AskFirst, Modes
  <2>4. CommandHolds'
    <3>1. /\ command'.phase = IF AskFirst(mode, preview) THEN "preview" ELSE "import"
          /\ command'.request = request /\ command'.quote = quote
          /\ command' = [phase |-> command'.phase, request |-> command'.request, quote |-> command'.quote,
                         preview |-> command'.preview, answer |-> command'.answer]
      BY <1>4
    <3>2. Token(request) \in {None} \cup shown'.tokens /\ quote \in {None} \cup shown'.quotes
      BY <1>4 DEF TokenMatches, ShowNothing
    <3>3. command'.phase = "import" => ModeOf([mode |-> IF knowsModes' THEN request.mode ELSE None]) = request.mode
      BY <2>2, <2>3, <3>1 DEF ModeOf
    <3>. QED  BY <3>1, <3>2, <3>3 DEF CommandHolds
  <2>5. RetryIsRecognised' /\ ContractsAreTheBatch'
    BY <1>4, PlainReport DEF NoResult
  <2>. QED  BY <2>1, <2>4, <2>5 DEF BatchInv
<1>. QED  BY <1>2, <1>3, <1>4 DEF Start

(* Every answer of the ERP names the route it takes. *)
LEMMA AnswersNameTheRoute ==
  ASSUME NEW request, NEW lines, NEW batch, NEW answer \in Answers(request, lines, batch)
  PROVE  ModeOf(answer) = ModeOf([mode |-> IF knowsModes THEN request.mode ELSE None])
<1>1. PICK ls : answer = Answer(request, ls, batch)
  BY DEF Answers
<1>2. answer.mode = IF knowsModes THEN request.mode ELSE None
  BY <1>1 DEF Answer
<1>. QED  BY <1>2 DEF ModeOf

(* A command with an answer goes on to its files. *)
LEMMA AnsweredHolds ==
  ASSUME CommandHolds, command # Idle, NEW answer, answer.contracts = SuppliersBought(answer.lines),
         command' = Answered(answer), UNCHANGED shown
  PROVE  CommandHolds'
<1>1. /\ command'.phase = "write" /\ command'.answer = answer
      /\ command'.request = command.request /\ command'.quote = command.quote
      /\ command' = [phase |-> command'.phase, request |-> command'.request, quote |-> command'.quote,
                     preview |-> command'.preview, answer |-> command'.answer]
  BY DEF Answered, CommandHolds
<1>. QED  BY <1>1 DEF CommandHolds

LEMMA AskErpHolds ==
  ASSUME BatchInv, AskErp
  PROVE  BatchInv'
<1>0. UNCHANGED <<batches, knowsModes>> /\ command # Idle /\ command.phase = "preview"
  BY DEF AskErp, erp, Idle
<1>1. CASE Conflict409
  BY <1>0, <1>1, ConflictHolds
<1>2. CASE \E status \in {"answer_refused", "erp_error"} : Finish([status |-> status]) /\ ShowNothing
  BY <1>0, <1>2, EndHolds DEF ShowNothing
<1>3. ASSUME NEW answer \in Answers(command.request, Plan(command.request), None), ValidAnswer(answer, command.request, TRUE),
             command' = IF command.preview THEN Answered(answer) ELSE [command EXCEPT !.phase = "import"],
             UNCHANGED result, ShowNothing
      PROVE  BatchInv'
  <2>1. BatchesHold'
    BY <1>0, <1>3, ConsentStays DEF BatchInv, ShowNothing
  <2>2. CASE command.preview
    <3>1. answer.contracts = SuppliersBought(answer.lines)
      BY <1>3 DEF ValidAnswer
    <3>2. CommandHolds'
      BY <1>0, <1>3, <2>2, <3>1, AnsweredHolds DEF BatchInv, ShowNothing
    <3>. QED  BY <1>3, <2>1, <3>2 DEF BatchInv, RetryIsRecognised, ContractsAreTheBatch
  <2>3. CASE ~command.preview
    <3>1. ModeOf([mode |-> IF knowsModes THEN command.request.mode ELSE None]) = command.request.mode
      BY <1>3, AnswersNameTheRoute DEF ValidAnswer
    <3>2. /\ command'.phase = "import"
          /\ command'.request = command.request /\ command'.quote = command.quote
          /\ command' = [phase |-> command'.phase, request |-> command'.request, quote |-> command'.quote,
                         preview |-> command'.preview, answer |-> command'.answer]
      BY <1>0, <1>3, <2>3 DEF BatchInv, CommandHolds
    <3>3. CommandHolds'
      BY <1>0, <1>3, <3>1, <3>2 DEF BatchInv, CommandHolds, ShowNothing
    <3>. QED  BY <1>3, <2>1, <3>3 DEF BatchInv, RetryIsRecognised, ContractsAreTheBatch
  <2>. QED  BY <2>2, <2>3
<1>. QED  BY <1>1, <1>2, <1>3 DEF AskErp

(* What was committed is written down, unless its answer is lost or is not that of the batch. *)
LEMMA CommittedHolds ==
  ASSUME BatchInv, command # Idle, BatchesHold', UNCHANGED shown,
         NEW request, NEW lines, NEW n, request = command.request, Committed(request, lines, n)
  PROVE  BatchInv'
<1>1. CASE \E status \in {"erp_error", "artifacts_failed"} : Finish([status |-> status])
  <2>1. CommandHolds'
    BY <1>1 DEF Finish, CommandHolds
  <2>2. RetryIsRecognised' /\ ContractsAreTheBatch'
    BY <1>1, PlainReport DEF Finish
  <2>. QED  BY <2>1, <2>2 DEF BatchInv
<1>2. ASSUME NEW answer, ValidAnswer(answer, request, FALSE), command' = Answered(answer), UNCHANGED result
      PROVE  BatchInv'
  <2>1. answer.contracts = SuppliersBought(answer.lines)
    BY <1>2 DEF ValidAnswer
  <2>2. CommandHolds'
    BY <1>2, <2>1, AnsweredHolds DEF BatchInv
  <2>. QED  BY <1>2, <2>2 DEF BatchInv, RetryIsRecognised, ContractsAreTheBatch
<1>. QED  BY <1>1, <1>2 DEF Committed

LEMMA ImportAgainHolds ==
  ASSUME BatchInv, ImportAgain
  PROVE  BatchInv'
<1>1. PICK n \in DOMAIN batches : Committed(command.request, batches[n].answer.lines, n)
  BY DEF ImportAgain, Same
<1>2. UNCHANGED <<batches, shown>> /\ command # Idle
  BY DEF ImportAgain, erp, Idle
<1>3. BatchesHold'
  BY <1>2, ConsentStays DEF BatchInv
<1>. QED  BY <1>1, <1>2, <1>3, CommittedHolds

LEMMA ImportRefusedHolds ==
  ASSUME BatchInv, ImportRefused
  PROVE  BatchInv'
<1>0. UNCHANGED batches
  BY DEF ImportRefused, erp
<1>1. CASE Conflict409
  BY <1>0, <1>1, ConflictHolds
<1>2. CASE \E status \in {"confirm_stock", "quote_stale"} :
             Finish([status |-> status]) /\ Show({}, {Quote(command.request)}, {})
  BY <1>0, <1>2, EndHolds, ShownGrows
<1>3. CASE Finish([status |-> "answer_refused"]) /\ ShowNothing
  BY <1>0, <1>3, EndHolds DEF ShowNothing
<1>. QED  BY <1>1, <1>2, <1>3 DEF ImportRefused

(* What is committed has the identity of its request, goes the route that was asked for, and
   takes the stock that was agreed to. *)
LEMMA CommitHolds ==
  ASSUME BatchInv, Import
  PROVE  BatchesHold'
<1>. DEFINE request == command.request
            lines == Plan(request)
            n == Len(batches) + 1
            new == [id |-> RequestId(request, command.quote), request |-> request, current |-> TRUE,
                    answer |-> Answer(request, lines, n)]
            kept == [b \in DOMAIN batches |-> [batches[b] EXCEPT !.current = @ /\ b # request.replace]]
            Holds(b) == BatchHolds(b, shown.tokens, shown.quotes)
<1>0. UNCHANGED shown /\ command # Idle /\ command.phase = "import"
  BY DEF Import, Idle
<1>1. batches' = Append(kept, new)
  BY DEF Import, Commit
<1>2. DOMAIN batches = 1..Len(batches) /\ Len(batches) \in Nat
  BY DEF BatchInv, BatchesHold
<1>3. \A b \in DOMAIN batches : Holds(kept[b])
  <2>. SUFFICES ASSUME NEW b \in DOMAIN batches PROVE Holds(kept[b])
    OBVIOUS
  <2>1. Holds(batches[b])
    BY DEF BatchInv, BatchesHold
  <2>2. /\ kept[b].id = batches[b].id /\ kept[b].request = batches[b].request
        /\ kept[b].answer = batches[b].answer
        /\ kept[b] = [id |-> kept[b].id, request |-> kept[b].request, current |-> kept[b].current,
                      answer |-> kept[b].answer]
    BY <2>1 DEF BatchHolds
  <2>. QED  BY <2>1, <2>2 DEF BatchHolds
<1>4. Holds(new)
  <2>1. new.answer.contracts = SuppliersBought(new.answer.lines) /\ new.answer.lines = lines
    BY DEF Answer
  <2>2. ModeOf(new.answer) = request.mode
    <3>1. new.answer.mode = IF knowsModes THEN request.mode ELSE None
      BY DEF Answer
    <3>. QED  BY <1>0, <3>1 DEF BatchInv, CommandHolds, ModeOf
  <2>3. Token(request) # None => Token(request) \in shown.tokens
    BY <1>0 DEF BatchInv, CommandHolds
  <2>4. Taken(lines) # {} =>
          \E q \in shown.quotes : q.request = request /\ q.lines = [k \in Taken(lines) |-> lines[k]]
    <3>. SUFFICES ASSUME Taken(lines) # {}
                  PROVE  \E q \in shown.quotes : q.request = request /\ q.lines = [k \in Taken(lines) |-> lines[k]]
      OBVIOUS
    <3>1. command.quote # None /\ command.quote = Quote(request)
      BY DEF Import, StockAgreed
    <3>2. Quote(request) \in shown.quotes
      BY <1>0, <3>1 DEF BatchInv, CommandHolds
    <3>3. Quote(request).request = request /\ Quote(request).lines = [k \in Taken(lines) |-> lines[k]]
      BY DEF Quote
    <3>. QED  BY <3>2, <3>3
  <2>. HIDE DEF lines, n
  <2>. QED  BY <2>1, <2>2, <2>3, <2>4 DEF BatchHolds, RequestId
<1>. HIDE DEF kept, new, Holds
<1>5. kept = [b \in 1..Len(batches) |-> kept[b]]
  BY <1>2 DEF kept
<1>6. /\ Len(batches') = Len(batches) + 1
      /\ batches' = [b \in 1..(Len(batches) + 1) |-> batches'[b]]
      /\ \A b \in 1..Len(batches) : batches'[b] = kept[b]
      /\ batches'[Len(batches) + 1] = new
  BY <1>1, <1>2, <1>5, AppendHolds
<1>7. DOMAIN batches' = 1..(Len(batches) + 1)
  BY <1>6
<1>8. \A b \in DOMAIN batches' : Holds(batches'[b])
  BY <1>2, <1>3, <1>4, <1>6, <1>7
<1>. QED  BY <1>0, <1>2, <1>6, <1>8 DEF BatchesHold, Holds

LEMMA ImportHolds ==
  ASSUME BatchInv, Import
  PROVE  BatchInv'
<1>1. UNCHANGED shown /\ command # Idle
  BY DEF Import, Idle
<1>2. BatchesHold'
  BY CommitHolds
<1>3. Committed(command.request, Plan(command.request), Len(batches) + 1)
  BY DEF Import
<1>. QED  BY <1>1, <1>2, <1>3, CommittedHolds

LEMMA WriteHolds ==
  ASSUME BatchInv, Write
  PROVE  BatchInv'
<1>. DEFINE answer == command.answer
            books == Workbooks(command.request.sps, Csvs(files), Master, answer.lines, Prices, Entries)
<1>0. UNCHANGED <<batches, shown>> /\ command # Idle /\ command.phase = "write" /\ command' = Idle
  <2>1. UNCHANGED <<batches, shown>> /\ command.phase = "write"
    BY DEF Write, erp
  <2>2. command' = Idle
    BY DEF Write, Finish
  <2>. QED  BY <2>1, <2>2 DEF Idle
<1>1. answer.contracts = SuppliersBought(answer.lines)
  BY <1>0 DEF BatchInv, CommandHolds
<1>2. BatchesHold' /\ CommandHolds'
  BY <1>0, ConsentStays DEF BatchInv, CommandHolds
<1>3. RetryIsRecognised' /\ ContractsAreTheBatch'
  <2>1. CASE \E status \in {"failed", "artifacts_failed"} : result' = [status |-> status]
    BY <2>1, PlainReport
  <2>2. ASSUME NEW fresh, ~ContractsRefused(books.summary, answer),
               result' = Written(IF command.preview THEN "preview" ELSE "completed", command.request, answer, books, fresh)
        PROVE  RetryIsRecognised' /\ ContractsAreTheBatch'
    BY <1>1, <2>2, ReportHolds
  <2>. QED  BY <2>1, <2>2 DEF Write, Finish
<1>. QED  BY <1>2, <1>3 DEF BatchInv

LEMMA RegenerateHolds ==
  ASSUME BatchInv, NEW b \in DOMAIN batches, Regenerate(b)
  PROVE  BatchInv'
<1>. DEFINE answer == batches[b].answer
            books == SnapshotWorkbooks(answer.sps, answer.lines, Prices, Entries)
<1>0. UNCHANGED <<batches, shown>> /\ command' = Idle
  BY DEF Regenerate, erp
<1>1. answer.contracts = SuppliersBought(answer.lines)
  BY DEF BatchInv, BatchesHold, BatchHolds
<1>2. BatchesHold' /\ CommandHolds'
  BY <1>0, ConsentStays DEF BatchInv, CommandHolds
<1>3. RetryIsRecognised' /\ ContractsAreTheBatch'
  <2>1. CASE \E status \in {"not_current", "no_template_sheet", "failed"} : result' = [status |-> status]
    BY <2>1, PlainReport
  <2>2. CASE /\ ~ContractsRefused(books.summary, answer)
             /\ result' = Written("completed", batches[b].request, answer, books, TRUE)
    BY <1>1, <2>2, ReportHolds
  <2>. QED  BY <2>1, <2>2 DEF Regenerate
<1>. QED  BY <1>2, <1>3 DEF BatchInv

(***************************************************************************)
(* The theorems.                                                           *)
(***************************************************************************)
LEMMA StepHolds == BatchInv /\ [Next]_vars => BatchInv'
<1>. SUFFICES ASSUME BatchInv, [Next]_vars PROVE BatchInv'
  OBVIOUS
<1>1. CASE UNCHANGED vars
  BY <1>1, OthersHold DEF vars, erp
<1>2. ASSUME NEW sp, Redownload(sp) PROVE BatchInv'
  BY <1>2, OthersHold DEF Redownload, erp
<1>3. ASSUME NEW e, StockMoves(e) PROVE BatchInv'
  BY <1>3, OthersHold DEF StockMoves
<1>4. ASSUME NEW sps, NEW mode \in Modes, NEW preview \in BOOLEAN, NEW token \in {None} \cup shown.tokens,
             NEW quote \in {None} \cup shown.quotes, NEW replace, Start(sps, mode, preview, token, quote, replace)
      PROVE  BatchInv'
  BY <1>4, StartHolds
<1>. QED  BY <1>1, <1>2, <1>3, <1>4, AskErpHolds, ImportAgainHolds, ImportRefusedHolds, ImportHolds,
             WriteHolds, RegenerateHolds DEF Next

(* The inductive invariant: every batch is one that was asked for, every command gives only
   what it was shown (build_purchase_intent, run). *)
THEOREM BatchesCorrect == Spec => []BatchInv
BY InitHolds, StepHolds, PTL DEF Spec

(* Nothing is committed without the confirmation of exactly the SKUs that are left out and
   of exactly the stock that is taken (build_purchase_intent, run). *)
THEOREM CommitsAreConsented == Spec => []ConsentPrecedesCommit
<1>1. BatchInv => ConsentPrecedesCommit
  BY DEF BatchInv, BatchesHold, BatchHolds, ConsentPrecedesCommit
<1>. QED  BY <1>1, BatchesCorrect, PTL

(* A batch is on the route that was asked for, whether or not the ERP knows of routes
   (preview_purchase_intent, _validate_success_response). *)
THEOREM RouteIsTheAskedOne == Spec => []CommitsOnTheAskedRoute
<1>1. BatchInv => CommitsOnTheAskedRoute
  BY DEF BatchInv, BatchesHold, BatchHolds, CommitsOnTheAskedRoute
<1>. QED  BY <1>1, BatchesCorrect, PTL

(* Contracts of a completed command, made or made again, buy what the batch buys, whatever
   files were there to read (_fill_erp_purchase_contracts). *)
THEOREM ContractsAreOfTheBatch == Spec => []ContractsAreTheBatch
BY BatchesCorrect, PTL DEF BatchInv

(* No command is told to replace its own batch (request_id). *)
THEOREM RetriesAreRecognised == Spec => []RetryIsRecognised
BY BatchesCorrect, PTL DEF BatchInv

(***************************************************************************)
(* The plan.  First the lemmas it rests on, on finite sets and sums.       *)

(***************************************************************************)
(* Induction on a finite set: what holds of a set whenever it holds of its proper subsets.  G is
   the set of the sets it holds of. *)
LEMMA SubsetInduction ==
  ASSUME NEW S, IsFiniteSet(S), NEW G,
         \A T \in SUBSET S : (\A U \in SUBSET T : U # T => U \in G) => T \in G
  PROVE  S \in G
<1> DEFINE Bad == {T \in SUBSET S : T \notin G}
<1>1. SUFFICES ASSUME S \notin G PROVE FALSE
  OBVIOUS
<1>2. FiniteSubsetsOf(S) = SUBSET S
  BY FS_FiniteSubsetsOfFinite
<1>3. IsWellFoundedOn(StrictSubsetOrdering(S), SUBSET S)
  BY <1>2, FS_StrictSubsetOrderingWellFounded
<1>4. Bad \subseteq SUBSET S /\ Bad # {}
  BY <1>1
<1> HIDE DEF Bad
<1>5. PICK T \in Bad : \A U \in Bad : ~(<<U, T>> \in StrictSubsetOrdering(S))
  BY <1>3, <1>4, WFMin
<1> USE DEF Bad
<1>6. ASSUME NEW U \in SUBSET T, U # T PROVE U \in G
  <2>1. <<U, T>> \in StrictSubsetOrdering(S)
    BY <1>6, T \in SUBSET S, U \in SUBSET S DEF StrictSubsetOrdering
  <2> QED BY <2>1, <1>5
<1> QED BY <1>6

----------------------------------------------------------------------------
(* The sums over the subsets of S, in the order in which a fold takes them. *)
First(s) == CHOOSE x \in s : TRUE

IsSums(F, S, g) ==
  g = [s \in SUBSET S |-> IF s = {} THEN 0 ELSE F[First(s)] + g[s \ {First(s)}]]

LEMMA SumIs == \A F, S : SumAt(F, S) = (CHOOSE g : IsSums(F, S, g))[S]
BY DEF SumAt, SumOver, MapThenSumSet, MapThenFoldSet, IsSums, First

LEMMA FirstIsIn == ASSUME NEW s, s # {} PROVE First(s) \in s
  BY DEF First

(* Two such tables agree wherever both are defined. *)
LEMMA SumsUnique ==
  ASSUME NEW F, NEW S, NEW T, NEW g, NEW h, IsSums(F, S, g), IsSums(F, T, h),
         NEW s, s \subseteq S, s \subseteq T, IsFiniteSet(s)
  PROVE  g[s] = h[s]
<1> DEFINE G == {u \in SUBSET s : g[u] = h[u]}
<1>1. ASSUME NEW u \in SUBSET s, \A v \in SUBSET u : v # u => v \in G
      PROVE  u \in G
  <2>1. /\ g[u] = IF u = {} THEN 0 ELSE F[First(u)] + g[u \ {First(u)}]
        /\ h[u] = IF u = {} THEN 0 ELSE F[First(u)] + h[u \ {First(u)}]
    BY DEF IsSums
  <2>2. CASE u = {}
    BY <2>1, <2>2
  <2>3. CASE u # {}
    <3>1. u \ {First(u)} \in G
      BY <1>1, <2>3, FirstIsIn
    <3> QED BY <3>1, <2>1, <2>3
  <2> QED BY <2>2, <2>3
<1> HIDE DEF G
<1>2. s \in G
  BY <1>1, SubsetInduction
<1> QED BY <1>2 DEF G

(* There is one for every finite set. *)
LEMMA SumsExist ==
  ASSUME NEW F, NEW S, IsFiniteSet(S)
  PROVE  \E g : IsSums(F, S, g)
<1> DEFINE G == {T \in SUBSET S : \E g : IsSums(F, T, g)}
<1>1. ASSUME NEW T \in SUBSET S, \A U \in SUBSET T : U # T => U \in G
      PROVE  T \in G
  <2> DEFINE g[s \in SUBSET T] ==
               IF s = {} THEN 0 ELSE F[First(s)] + SumAt(F, s \ {First(s)})
  <2>1. ASSUME NEW s \in SUBSET T, s # T
        PROVE  g[s] = SumAt(F, s)
    <3> DEFINE h == CHOOSE f : IsSums(F, s, f)
    <3>1. IsSums(F, s, h)
      BY <1>1, <2>1
    <3> HIDE DEF h
    <3>2. h[s] = IF s = {} THEN 0 ELSE F[First(s)] + h[s \ {First(s)}]
      BY <3>1 DEF IsSums
    <3>3. SumAt(F, s) = h[s]
      BY SumIs DEF h
    <3>4. CASE s = {}
      BY <3>2, <3>3, <3>4
    <3>5. CASE s # {}
      <4> DEFINE r == s \ {First(s)}
                 k == CHOOSE f : IsSums(F, r, f)
      <4>1. r \subseteq s /\ r # s /\ r \in SUBSET T /\ r # T
        BY <3>5, FirstIsIn
      <4>2. IsSums(F, r, k)
        BY <4>1, <1>1
      <4>3. IsFiniteSet(r)
        BY <4>1, FS_Subset
      <4> HIDE DEF r, k
      <4>4. k[r] = h[r]
        BY <4>1, <4>2, <4>3, <3>1, SumsUnique
      <4>5. SumAt(F, r) = h[r]
        BY <4>4, SumIs DEF k
      <4> QED BY <4>5, <3>2, <3>3, <3>5 DEF r
    <3> QED BY <3>4, <3>5
  <2>2. ASSUME NEW s \in SUBSET T
        PROVE  g[s] = IF s = {} THEN 0 ELSE F[First(s)] + g[s \ {First(s)}]
    <3>1. CASE s = {}
      BY <3>1
    <3>2. CASE s # {}
      <4>1. s \ {First(s)} \in SUBSET T /\ s \ {First(s)} # T
        BY <3>2, FirstIsIn
      <4>2. g[s \ {First(s)}] = SumAt(F, s \ {First(s)})
        BY <4>1, <2>1
      <4> QED BY <4>2, <3>2
    <3> QED BY <3>1, <3>2
  <2>3. IsSums(F, T, g)
    <3>1. g = [s \in SUBSET T |-> IF s = {} THEN 0 ELSE F[First(s)] + SumAt(F, s \ {First(s)})]
      OBVIOUS
    <3> HIDE DEF g
    <3> QED BY <3>1, <2>2 DEF IsSums
  <2> QED BY <2>3
<1> HIDE DEF G
<1>2. S \in G
  BY <1>1, SubsetInduction
<1> QED BY <1>2 DEF G

LEMMA SumOfSubsets ==
  ASSUME NEW F, NEW S, IsFiniteSet(S), NEW g, IsSums(F, S, g)
  PROVE  \A s \in SUBSET S : SumAt(F, s) = g[s]
<1> TAKE s \in SUBSET S
<1>1. IsFiniteSet(s)
  BY FS_Subset
<1>2. PICK h : IsSums(F, s, h)
  BY <1>1, SumsExist
<1> DEFINE k == CHOOSE f : IsSums(F, s, f)
<1>3. IsSums(F, s, k)
  BY <1>2
<1> HIDE DEF k
<1>4. k[s] = g[s]
  BY <1>1, <1>3, SumsUnique
<1> QED BY <1>4, SumIs DEF k

(* A sum is its first value and the sum of the others. *)
LEMMA SumStep ==
  ASSUME NEW F, NEW S, IsFiniteSet(S)
  PROVE  /\ S = {} => SumAt(F, S) = 0
         /\ S # {} => SumAt(F, S) = F[First(S)] + SumAt(F, S \ {First(S)})
<1>1. PICK g : IsSums(F, S, g)
  BY SumsExist
<1>2. SumAt(F, S) = g[S] /\ SumAt(F, S \ {First(S)}) = g[S \ {First(S)}]
  BY <1>1, SumOfSubsets
<1>3. g[S] = IF S = {} THEN 0 ELSE F[First(S)] + g[S \ {First(S)}]
  BY <1>1 DEF IsSums
<1> QED BY <1>2, <1>3

(* A total is a number, and depends on nothing but the values added. *)
LEMMA SumType ==
  ASSUME NEW F, NEW S, IsFiniteSet(S), \A x \in S : F[x] \in Nat
  PROVE  SumAt(F, S) \in Nat
<1> DEFINE G == {T \in SUBSET S : SumAt(F, T) \in Nat}
<1>1. ASSUME NEW T \in SUBSET S, \A U \in SUBSET T : U # T => U \in G
      PROVE  T \in G
  <2>1. IsFiniteSet(T)
    BY FS_Subset
  <2>2. CASE T = {}
    <3>1. SumAt(F, T) = 0
      BY <2>1, <2>2, SumStep
    <3> QED BY <3>1
  <2>3. CASE T # {}
    <3>1. T \ {First(T)} \in G /\ F[First(T)] \in Nat
      BY <1>1, <2>3, FirstIsIn
    <3>2. SumAt(F, T) = F[First(T)] + SumAt(F, T \ {First(T)})
      BY <2>1, <2>3, SumStep
    <3> QED BY <3>1, <3>2
  <2> QED BY <2>2, <2>3
<1> HIDE DEF G
<1>2. S \in G
  BY <1>1, SubsetInduction
<1> QED BY <1>2 DEF G

(* Values that are the same add up to the same. *)
LEMMA SumSame ==
  ASSUME NEW F, NEW H, NEW S, IsFiniteSet(S), \A x \in S : F[x] = H[x]
  PROVE  SumAt(F, S) = SumAt(H, S)
<1> DEFINE G == {T \in SUBSET S : SumAt(F, T) = SumAt(H, T)}
<1>1. ASSUME NEW T \in SUBSET S, \A U \in SUBSET T : U # T => U \in G
      PROVE  T \in G
  <2>1. IsFiniteSet(T)
    BY FS_Subset
  <2>2. CASE T = {}
    BY <2>1, <2>2, SumStep
  <2>3. CASE T # {}
    <3>1. T \ {First(T)} \in G /\ F[First(T)] = H[First(T)]
      BY <1>1, <2>3, FirstIsIn
    <3>2. /\ SumAt(F, T) = F[First(T)] + SumAt(F, T \ {First(T)})
          /\ SumAt(H, T) = H[First(T)] + SumAt(H, T \ {First(T)})
      BY <2>1, <2>3, SumStep
    <3> QED BY <3>1, <3>2
  <2> QED BY <2>2, <2>3
<1> HIDE DEF G
<1>2. S \in G
  BY <1>1, SubsetInduction
<1> QED BY <1>2 DEF G

(* Any element may be added last. *)
LEMMA SumRemove ==
  ASSUME NEW F, NEW S, IsFiniteSet(S), \A x \in S : F[x] \in Nat
  PROVE  \A x \in S : SumAt(F, S) = F[x] + SumAt(F, S \ {x})
<1> DEFINE G == {T \in SUBSET S : \A x \in T : SumAt(F, T) = F[x] + SumAt(F, T \ {x})}
<1>1. ASSUME NEW T \in SUBSET S, \A U \in SUBSET T : U # T => U \in G, NEW x \in T
      PROVE  SumAt(F, T) = F[x] + SumAt(F, T \ {x})
  <2> DEFINE c == First(T)
  <2>1. IsFiniteSet(T) /\ IsFiniteSet(T \ {c}) /\ IsFiniteSet(T \ {x}) /\ IsFiniteSet((T \ {c}) \ {x})
    <3>1. IsFiniteSet(T)
      BY FS_Subset
    <3> QED BY <3>1, FS_RemoveElement
  <2>2. c \in T
    BY FirstIsIn
  <2>3. SumAt(F, T) = F[c] + SumAt(F, T \ {c})
    BY <2>1, SumStep
  <2>4. CASE x = c
    BY <2>3, <2>4
  <2>5. CASE x # c
    <3>1. T \ {c} \in G /\ T \ {x} \in G /\ x \in T \ {c} /\ c \in T \ {x}
      BY <1>1, <2>2, <2>5
    <3>2. SumAt(F, T \ {c}) = F[x] + SumAt(F, (T \ {c}) \ {x})
      BY <3>1
    <3>3. SumAt(F, T \ {x}) = F[c] + SumAt(F, (T \ {x}) \ {c})
      BY <3>1
    <3>4. (T \ {c}) \ {x} = (T \ {x}) \ {c}
      OBVIOUS
    <3>5. SumAt(F, (T \ {c}) \ {x}) \in Nat /\ F[x] \in Nat /\ F[c] \in Nat
      <4>1. \A y \in (T \ {c}) \ {x} : F[y] \in Nat
        OBVIOUS
      <4>2. SumAt(F, (T \ {c}) \ {x}) \in Nat
        BY <2>1, <4>1, SumType
      <4> QED BY <4>2, <2>2
    <3> HIDE DEF c
    <3>6. \A a, b, t \in Nat : a + (b + t) = b + (a + t)
      OBVIOUS
    <3>7. SumAt(F, T) = F[c] + (F[x] + SumAt(F, (T \ {c}) \ {x}))
      BY <2>3, <3>2
    <3>8. SumAt(F, T \ {x}) = F[c] + SumAt(F, (T \ {c}) \ {x})
      BY <3>3, <3>4
    <3> QED BY <3>5, <3>6, <3>7, <3>8
  <2> QED BY <2>4, <2>5
<1>2. \A T \in SUBSET S : (\A U \in SUBSET T : U # T => U \in G) => T \in G
  BY <1>1
<1> HIDE DEF G
<1>3. S \in G
  BY <1>2, SubsetInduction
<1> QED BY <1>3 DEF G

(* The sum over two sets with nothing in common is the sum of the two sums. *)
LEMMA SumUnion ==
  ASSUME NEW F, NEW A, NEW B, IsFiniteSet(A), IsFiniteSet(B), A \cap B = {},
         \A x \in A \cup B : F[x] \in Nat
  PROVE  SumAt(F, A \cup B) = SumAt(F, A) + SumAt(F, B)
<1> DEFINE G == {T \in SUBSET A : SumAt(F, T \cup B) = SumAt(F, T) + SumAt(F, B)}
<1>1. ASSUME NEW T \in SUBSET A, \A U \in SUBSET T : U # T => U \in G
      PROVE  T \in G
  <2>1. IsFiniteSet(T) /\ IsFiniteSet(T \cup B)
    BY FS_Subset, FS_Union
  <2>2. SumAt(F, B) \in Nat
    BY SumType
  <2>3. CASE T = {}
    <3>1. T \cup B = B /\ SumAt(F, T) = 0
      BY <2>1, <2>3, SumStep
    <3> QED BY <3>1, <2>2
  <2>4. CASE T # {}
    <3>1. PICK x : x \in T
      BY <2>4
    <3>2. T \ {x} \in G /\ F[x] \in Nat /\ (T \cup B) \ {x} = (T \ {x}) \cup B
      BY <1>1, <3>1
    <3>3. \A y \in T : F[y] \in Nat
      OBVIOUS
    <3>4. SumAt(F, T) = F[x] + SumAt(F, T \ {x})
      BY <2>1, <3>1, <3>3, SumRemove
    <3>5. \A y \in T \cup B : F[y] \in Nat
      OBVIOUS
    <3>6. SumAt(F, T \cup B) = F[x] + SumAt(F, (T \ {x}) \cup B)
      BY <2>1, <3>1, <3>2, <3>5, SumRemove
    <3>7. SumAt(F, T \ {x}) \in Nat
      <4>1. IsFiniteSet(T \ {x})
        BY <2>1, FS_RemoveElement
      <4> QED BY <4>1, <3>3, SumType
    <3>8. SumAt(F, (T \ {x}) \cup B) = SumAt(F, T \ {x}) + SumAt(F, B)
      BY <3>2
    <3> HIDE DEF G
    <3>9. \A a, t, b \in Nat : a + (t + b) = (a + t) + b
      OBVIOUS
    <3>10. SumAt(F, T \cup B) = SumAt(F, T) + SumAt(F, B)
      BY <3>2, <3>4, <3>6, <3>7, <3>8, <3>9, <2>2
    <3> QED BY <3>10 DEF G
  <2> QED BY <2>3, <2>4
<1> HIDE DEF G
<1>2. A \in G
  BY <1>1, SubsetInduction
<1> QED BY <1>2 DEF G

(* A sum may be taken class by class: P gives the members of each class, H its sum. *)
AddsUp(F, I, class, K, P, H) ==
  /\ IsFiniteSet(I) /\ IsFiniteSet(K)
  /\ \A i \in I : F[i] \in Nat /\ class[i] \in K
  /\ \A k \in K : P[k] \subseteq I /\ \A i \in I : i \in P[k] <=> class[i] = k
  /\ \A k \in K : H[k] = SumAt(F, P[k])

(* What is added up class by class is what is added up at once. *)
LEMMA SumByClass ==
  ASSUME NEW F, NEW I, NEW class, NEW K, NEW P, NEW H, AddsUp(F, I, class, K, P, H)
  PROVE  SumAt(H, K) = SumAt(F, I)
<1> USE DEF AddsUp
<1> DEFINE Of(L) == {i \in I : class[i] \in L}
           G == {L \in SUBSET K : SumAt(H, L) = SumAt(F, Of(L))}
<1>1. \A L : IsFiniteSet(Of(L)) /\ Of(L) \subseteq I
  BY FS_Subset
<1>2. \A k \in K : H[k] \in Nat
  <2> TAKE k \in K
  <2> DEFINE J == P[k]
  <2>1. IsFiniteSet(J) /\ \A i \in J : F[i] \in Nat
    BY FS_Subset
  <2> HIDE DEF J
  <2>2. SumAt(F, J) \in Nat
    BY <2>1, SumType
  <2> QED BY <2>2 DEF J
<1>3. ASSUME NEW L \in SUBSET K, \A U \in SUBSET L : U # L => U \in G
      PROVE  L \in G
  <2>1. IsFiniteSet(L)
    BY FS_Subset
  <2>2. CASE L = {}
    <3>1. Of(L) = {} /\ SumAt(H, L) = 0
      BY <2>1, <2>2, SumStep
    <3>2. SumAt(F, {}) = 0
      BY FS_EmptySet, SumStep
    <3> HIDE DEF Of
    <3>3. SumAt(H, L) = SumAt(F, Of(L))
      BY <3>1, <3>2
    <3> QED BY <3>3
  <2>3. CASE L # {}
    <3>1. PICK k : k \in L
      BY <2>3
    <3>2. SumAt(H, L) = H[k] + SumAt(H, L \ {k})
      <4>1. \A l \in L : H[l] \in Nat
        BY <1>2
      <4> QED BY <2>1, <3>1, <4>1, SumRemove
    <3>3. SumAt(H, L \ {k}) = SumAt(F, Of(L \ {k}))
      <4>1. L \ {k} \in G
        BY <1>3, <3>1
      <4> QED BY <4>1
    <3> DEFINE J == P[k]
    <3>4. Of(L) = J \cup Of(L \ {k}) /\ J \cap Of(L \ {k}) = {}
      BY <3>1
    <3>5. IsFiniteSet(J) /\ J \subseteq I
      <4>1. J \subseteq I
        BY <3>1
      <4> HIDE DEF J
      <4> QED BY <4>1, FS_Subset
    <3>6. H[k] = SumAt(F, J)
      BY <3>1
    <3> DEFINE R == Of(L \ {k})
    <3>7. IsFiniteSet(R) /\ R \subseteq I
      BY <1>1
    <3>8. \A x \in J \cup R : F[x] \in Nat
      BY <3>5, <3>7
    <3>9. J \cap R = {}
      BY <3>4
    <3> HIDE DEF J, R
    <3>10. SumAt(F, J \cup R) = SumAt(F, J) + SumAt(F, R)
      BY <3>5, <3>7, <3>8, <3>9, SumUnion
    <3> HIDE DEF G
    <3>11. SumAt(H, L) = SumAt(F, Of(L))
      BY <3>2, <3>3, <3>4, <3>6, <3>10 DEF R
    <3> QED BY <3>11 DEF G
  <2> QED BY <2>2, <2>3
<1> HIDE DEF G
<1>4. K \in G
  BY <1>3, SubsetInduction
<1>5. Of(K) = I
  OBVIOUS
<1> HIDE DEF Of
<1> QED BY <1>4, <1>5 DEF G

----------------------------------------------------------------------------
(* Sums of nothing, of one value, of zeros; and of some of the rows, shares or details. *)
LEMMA SumNone == \A F : SumAt(F, {}) = 0
  BY FS_EmptySet, SumStep

LEMMA SumOne == ASSUME NEW F, NEW x, F[x] \in Nat PROVE SumAt(F, {x}) = F[x]
<1>1. IsFiniteSet({x}) /\ {x} \ {x} = {}
  BY FS_Singleton
<1>2. SumAt(F, {x}) = F[x] + SumAt(F, {x} \ {x})
  BY <1>1, SumRemove
<1> QED BY <1>1, <1>2, SumNone

LEMMA SumZeros ==
  ASSUME NEW F, NEW S, IsFiniteSet(S), \A x \in S : F[x] = 0
  PROVE  SumAt(F, S) = 0
<1> DEFINE G == {T \in SUBSET S : SumAt(F, T) = 0}
<1>1. ASSUME NEW T \in SUBSET S, \A U \in SUBSET T : U # T => U \in G
      PROVE  T \in G
  <2>1. IsFiniteSet(T)
    BY FS_Subset
  <2>2. CASE T = {}
    BY <2>2, SumNone
  <2>3. CASE T # {}
    <3>1. T \ {First(T)} \in G /\ F[First(T)] = 0
      BY <1>1, <2>3, FirstIsIn
    <3>2. SumAt(F, T) = F[First(T)] + SumAt(F, T \ {First(T)})
      BY <2>1, <2>3, SumStep
    <3> QED BY <3>1, <3>2
  <2> QED BY <2>2, <2>3
<1> HIDE DEF G
<1>2. S \in G
  BY <1>1, SubsetInduction
<1> QED BY <1>2 DEF G

(* The image of a finite set. *)
LEMMA ImageFinite ==
  ASSUME NEW S, IsFiniteSet(S), NEW f
  PROVE  IsFiniteSet({f[x] : x \in S})
<1> DEFINE T == {f[x] : x \in S}
           g == [x \in S |-> f[x]]
<1>1. g \in Surjection(S, T)
  BY DEF Surjection
<1> HIDE DEF T, g
<1>2. IsFiniteSet(T)
  BY <1>1, FS_Surjection
<1> QED BY <1>2 DEF T

LEMMA UnitsOfSome ==
  ASSUME NEW D, IsFiniteSet(D), NEW S, S \subseteq D
  PROVE  UnitsIn(S) = SumAt([d \in D |-> d.quantity], S)
<1>1. IsFiniteSet(S)
  BY FS_Subset
<1> DEFINE F == [d \in S |-> d.quantity]
           H == [d \in D |-> d.quantity]
<1>2. \A d \in S : F[d] = H[d]
  OBVIOUS
<1> HIDE DEF F, H
<1>3. SumAt(F, S) = SumAt(H, S)
  BY <1>1, <1>2, SumSame
<1> QED BY <1>3 DEF UnitsIn, F, H

LEMMA SharesOfSome ==
  ASSUME NEW shares, NEW I, IsFiniteSet(I), NEW S, S \subseteq I
  PROVE  SharedUnits(shares, S) = SumAt([i \in I |-> shares[i].quantity], S)
<1>1. IsFiniteSet(S)
  BY FS_Subset
<1> DEFINE F == [i \in S |-> shares[i].quantity]
           H == [i \in I |-> shares[i].quantity]
<1>2. \A i \in S : F[i] = H[i]
  OBVIOUS
<1> HIDE DEF F, H
<1>3. SumAt(F, S) = SumAt(H, S)
  BY <1>1, <1>2, SumSame
<1> QED BY <1>3 DEF SharedUnits, F, H

----------------------------------------------------------------------------
(* The details of a line: finitely many, of something, from an entry or bought now. *)
AreDetails(details) ==
  /\ IsFiniteSet(details)
  /\ \A d \in details : /\ d.quantity \in Nat /\ d.quantity > 0
                        /\ d.entry \in {None} \cup DOMAIN Entries

LEMMA SomeDetails ==
  ASSUME NEW D, AreDetails(D), NEW S, S \subseteq D
  PROVE  AreDetails(S)
BY FS_Subset DEF AreDetails

(* A sum of details that are there is positive. *)
LEMMA UnitsPositive ==
  ASSUME NEW D, AreDetails(D)
  PROVE  UnitsIn(D) \in Nat /\ (D # {} => UnitsIn(D) > 0)
<1> DEFINE F == [d \in D |-> d.quantity]
<1>1. IsFiniteSet(D) /\ \A d \in D : F[d] \in Nat /\ F[d] > 0
  BY DEF AreDetails
<1> HIDE DEF F
<1>2. SumAt(F, D) \in Nat
  BY <1>1, SumType
<1>3. ASSUME NEW d \in D PROVE SumAt(F, D) > 0
  <2>1. IsFiniteSet(D \ {d}) /\ \A x \in D \ {d} : F[x] \in Nat
    BY <1>1, FS_RemoveElement
  <2>2. SumAt(F, D \ {d}) \in Nat
    BY <2>1, SumType
  <2>3. SumAt(F, D) = F[d] + SumAt(F, D \ {d})
    BY <1>1, SumRemove
  <2> QED BY <1>1, <2>2, <2>3
<1> QED BY <1>2, <1>3 DEF UnitsIn, F

(* The rows of a line hold its details, each once: what is bought now in one, what is taken
   from stock by its contract and price (_purchase_source_rows). *)
LEMMA RowsHoldDetails ==
  ASSUME NEW key, NEW price, NEW D, AreDetails(D)
  PROVE  /\ UnitsIn(SourceRows(key, price, D, Entries)) = UnitsIn(D)
         /\ \A r \in SourceRows(key, price, D, Entries) : r.key = key
<1> DEFINE now == {d \in D : d.entry = None}
           taken == {d \in D : d.entry # None}
           From(d) == <<Entries[d.entry].contract, Entries[d.entry].price>>
           old == {From(d) : d \in taken}
           Of(o) == {d \in taken : From(d) = o}
           Bought == [key |-> key, contract |-> None, price |-> price, quantity |-> UnitsIn(now)]
           Old(o) == [key |-> key, contract |-> o[1], price |-> o[2], quantity |-> UnitsIn(Of(o))]
           rows == (IF UnitsIn(now) = 0 THEN {} ELSE {Bought}) \cup {Old(o) : o \in old}
           F == [d \in D |-> d.quantity]
           H == [r \in rows |-> r.quantity]
           class == [d \in D |-> IF d.entry = None THEN Bought ELSE Old(From(d))]
           P == [r \in rows |-> {d \in D : class[d] = r}]
<1>1. SourceRows(key, price, D, Entries) = rows
  BY DEF SourceRows, DetailSum
<1>2. IsFiniteSet(D) /\ \A d \in D : F[d] \in Nat
  BY DEF AreDetails
<1>3. now \subseteq D /\ taken \subseteq D /\ IsFiniteSet(taken)
  BY <1>2, FS_Subset
<1>4. \A d \in taken : From(d)[1] # None
  <2> SUFFICES ASSUME NEW d \in taken PROVE From(d)[1] # None
    OBVIOUS
  <2>1. d.entry \in DOMAIN Entries
    BY DEF AreDetails
  <2> QED BY <2>1, EntriesAssumption
<1>5. IsFiniteSet(rows)
  <2>1. IsFiniteSet({[c \in taken |-> From(c)][d] : d \in taken})
    <3> HIDE DEF taken, From
    <3> QED BY <1>3, ImageFinite
  <2>2. {[c \in taken |-> From(c)][d] : d \in taken} = old
    <3> HIDE DEF taken, From
    <3> QED OBVIOUS
  <2>3. IsFiniteSet({[c \in old |-> Old(c)][o] : o \in old})
    <3>1. IsFiniteSet(old)
      BY <2>1, <2>2
    <3> HIDE DEF old, Old
    <3> QED BY <3>1, ImageFinite
  <2>4. {[c \in old |-> Old(c)][o] : o \in old} = {Old(o) : o \in old}
    <3> HIDE DEF old, Old
    <3> QED OBVIOUS
  <2>5. IsFiniteSet(IF UnitsIn(now) = 0 THEN {} ELSE {Bought})
    BY FS_EmptySet, FS_Singleton
  <2> HIDE DEF Bought, Old, old, now
  <2> QED BY <2>3, <2>4, <2>5, FS_Union
<1>6. \A d \in D : class[d] \in rows
  <2> SUFFICES ASSUME NEW d \in D PROVE class[d] \in rows
    OBVIOUS
  <2>1. CASE d.entry = None
    <3>1. AreDetails(now)
      BY <1>3, SomeDetails
    <3>2. now # {}
      BY <2>1
    <3> HIDE DEF now
    <3>3. UnitsIn(now) # 0
      BY <3>1, <3>2, UnitsPositive
    <3>4. class[d] = Bought
      BY <2>1
    <3> QED BY <3>3, <3>4
  <2>2. CASE d.entry # None
    <3>1. From(d) \in old
      BY <2>2
    <3>2. class[d] = Old(From(d))
      BY <2>2
    <3> HIDE DEF old, Old, From
    <3> QED BY <3>1, <3>2
  <2> QED BY <2>1, <2>2
<1>7. \A r \in rows : H[r] = SumAt(F, P[r])
  <2> SUFFICES ASSUME NEW r \in rows PROVE H[r] = SumAt(F, P[r])
    OBVIOUS
  <2>1. CASE r = Bought
    <3>1. P[r] = now
      <4>1. \A d \in taken : Old(From(d)).contract # None
        BY <1>4
      <4>2. Bought.contract = None
        OBVIOUS
      <4> HIDE DEF Old, Bought, From
      <4> QED BY <2>1, <4>1, <4>2
    <3>2. H[r] = UnitsIn(now)
      BY <2>1
    <3>3. UnitsIn(now) = SumAt(F, now)
      BY <1>2, <1>3, UnitsOfSome
    <3> HIDE DEF H, P, F, now
    <3> QED BY <3>1, <3>2, <3>3
  <2>2. ASSUME NEW c \in taken, r = Old(From(c))
        PROVE H[r] = SumAt(F, P[r])
    <3> DEFINE o == From(c)
    <3>1. \A d \in D : class[d] = r <=> d \in Of(o)
      <4> SUFFICES ASSUME NEW d \in D PROVE class[d] = r <=> d \in Of(o)
        OBVIOUS
      <4>1. CASE d.entry = None
        <5>1. class[d].contract = None /\ r.contract = o[1] /\ o[1] # None
          BY <2>2, <4>1, <1>4
        <5>2. d \notin taken
          BY <4>1
        <5> QED BY <5>1, <5>2
      <4>2. CASE d.entry # None
        <5>1. class[d] = Old(From(d)) /\ d \in taken
          BY <4>2
        <5>2. Old(From(d)) = r => From(d) = o
          <6>1. Old(From(d)).contract = From(d)[1] /\ Old(From(d)).price = From(d)[2]
            OBVIOUS
          <6>2. r.contract = o[1] /\ r.price = o[2]
            BY <2>2
          <6>3. From(d) = <<From(d)[1], From(d)[2]>> /\ o = <<o[1], o[2]>>
            OBVIOUS
          <6> HIDE DEF Old, From, o
          <6> QED BY <6>1, <6>2, <6>3
        <5>3. From(d) = o => Old(From(d)) = r
          BY <2>2
        <5>4. d \in Of(o) <=> From(d) = o
          BY <5>1
        <5> HIDE DEF Of, From, Old, class, o
        <5> QED BY <5>1, <5>2, <5>3, <5>4
      <4> QED BY <4>1, <4>2
    <3>2. P[r] = Of(o) /\ Of(o) \subseteq D
      <4>1. Of(o) \subseteq D
        OBVIOUS
      <4>2. P[r] = {d \in D : class[d] = r}
        OBVIOUS
      <4> HIDE DEF Of, class, P, o
      <4> QED BY <3>1, <4>1, <4>2
    <3>3. H[r] = UnitsIn(Of(o))
      BY <2>2
    <3> HIDE DEF Of, P, H, o
    <3>4. UnitsIn(Of(o)) = SumAt(F, Of(o))
      BY <1>2, <3>2, UnitsOfSome
    <3> HIDE DEF F
    <3> QED BY <3>2, <3>3, <3>4
  <2>3. r = Bought \/ \E c \in taken : r = Old(From(c))
    OBVIOUS
  <2> QED BY <2>1, <2>2, <2>3
<1>8. \A r \in rows : P[r] \subseteq D /\ \A d \in D : d \in P[r] <=> class[d] = r
  OBVIOUS
<1>9. \A r \in rows : r.key = key
  <2>1. Bought.key = key /\ \A o : Old(o).key = key
    OBVIOUS
  <2> HIDE DEF Bought, Old, old, now
  <2> QED BY <2>1
<1>10. UnitsIn(rows) = SumAt(H, rows) /\ UnitsIn(D) = SumAt(F, D)
  BY DEF UnitsIn
<1> HIDE DEF rows, F, H, class, P
<1>11. AddsUp(F, D, class, rows, P, H)
  BY <1>2, <1>5, <1>6, <1>7, <1>8 DEF AddsUp
<1>12. SumAt(H, rows) = SumAt(F, D)
  BY <1>11, SumByClass
<1> QED BY <1>1, <1>9, <1>10, <1>12

----------------------------------------------------------------------------
(* Details that agree with the shares of a line agree with them in every set of SPs and SKUs
   (_validate_allocation_details). *)
LEMMA AgreementInSets ==
  ASSUME NEW D, AreDetails(D), NEW shares, IsFiniteSet(DOMAIN shares),
         \A i \in DOMAIN shares : shares[i].quantity \in Nat, AllocationsAgree(D, shares), NEW Q,
         NEW J, J = {d \in D : <<d.sp, d.sku>> \in Q},
         NEW I, I = {i \in DOMAIN shares : <<shares[i].sp, shares[i].sku>> \in Q}
  PROVE  UnitsIn(J) = SharedUnits(shares, I)
<1> DEFINE K == {k \in {<<d.sp, d.sku>> : d \in D} : k \in Q}
           F == [d \in J |-> d.quantity]
           G == [i \in I |-> shares[i].quantity]
           P == [k \in K |-> {d \in D : <<d.sp, d.sku>> = k}]
           R == [k \in K |-> {i \in DOMAIN shares : <<shares[i].sp, shares[i].sku>> = k}]
           H == [k \in K |-> SumAt(F, P[k])]
           ofDetail == [d \in J |-> <<d.sp, d.sku>>]
           ofShare == [i \in I |-> <<shares[i].sp, shares[i].sku>>]
<1>1. J \subseteq D /\ IsFiniteSet(J) /\ \A d \in J : F[d] \in Nat
  BY FS_Subset DEF AreDetails
<1>2. I \subseteq DOMAIN shares /\ IsFiniteSet(I) /\ \A i \in I : G[i] \in Nat
  BY FS_Subset
<1>3. IsFiniteSet(K)
  <2> DEFINE all == {<<d.sp, d.sku>> : d \in D}
  <2>1. IsFiniteSet({[c \in D |-> <<c.sp, c.sku>>][d] : d \in D})
    BY ImageFinite DEF AreDetails
  <2>2. {[c \in D |-> <<c.sp, c.sku>>][d] : d \in D} = all
    OBVIOUS
  <2>3. K \subseteq all
    OBVIOUS
  <2> HIDE DEF all, K
  <2> QED BY <2>1, <2>2, <2>3, FS_Subset
<1>4. /\ \A d \in J : ofDetail[d] \in K
      /\ \A i \in I : ofShare[i] \in K
  <2>1. {<<d.sp, d.sku>> : d \in D} = {<<shares[i].sp, shares[i].sku>> : i \in DOMAIN shares}
    BY DEF AllocationsAgree
  <2> QED BY <2>1
<1>5. /\ \A k \in K : P[k] \subseteq J /\ \A d \in J : d \in P[k] <=> ofDetail[d] = k
      /\ \A k \in K : R[k] \subseteq I /\ \A i \in I : i \in R[k] <=> ofShare[i] = k
  OBVIOUS
<1>6. \A k \in K : H[k] = SumAt(F, P[k]) /\ H[k] = SumAt(G, R[k])
  <2> SUFFICES ASSUME NEW k \in K PROVE H[k] = SumAt(F, P[k]) /\ H[k] = SumAt(G, R[k])
    OBVIOUS
  <2>1. UnitsIn(P[k]) = SharedUnits(shares, R[k])
    BY DEF AllocationsAgree, DetailSum
  <2>2. UnitsIn(P[k]) = SumAt(F, P[k])
    <3> HIDE DEF P, K
    <3> QED BY <1>1, <1>5, UnitsOfSome
  <2>3. SharedUnits(shares, R[k]) = SumAt(G, R[k])
    <3>1. R[k] \subseteq I
      BY <1>5
    <3>2. SharedUnits(shares, R[k]) = SumAt([i \in I |-> shares[i].quantity], R[k])
      <4> HIDE DEF R, K
      <4> QED BY <1>2, <3>1, SharesOfSome
    <3> QED BY <3>2
  <2>4. H[k] = SumAt(F, P[k])
    OBVIOUS
  <2> HIDE DEF P, R, H, F, G
  <2> QED BY <2>1, <2>2, <2>3, <2>4
<1>7. UnitsIn(J) = SumAt(F, J) /\ SharedUnits(shares, I) = SumAt(G, I)
  BY DEF UnitsIn, SharedUnits
<1> HIDE DEF K, F, G, P, R, H, ofDetail, ofShare
<1>8. AddsUp(F, J, ofDetail, K, P, H)
  BY <1>1, <1>3, <1>4, <1>5, <1>6 DEF AddsUp
<1>9. AddsUp(G, I, ofShare, K, R, H)
  BY <1>2, <1>3, <1>4, <1>5, <1>6 DEF AddsUp
<1>10. SumAt(H, K) = SumAt(F, J) /\ SumAt(H, K) = SumAt(G, I)
  BY <1>8, <1>9, SumByClass
<1> QED BY <1>7, <1>10

(* So they agree for each SP, and in all. *)
LEMMA AgreementBySp ==
  ASSUME NEW D, AreDetails(D), NEW shares, IsFiniteSet(DOMAIN shares),
         \A i \in DOMAIN shares : shares[i].quantity \in Nat, AllocationsAgree(D, shares)
  PROVE  /\ UnitsIn(D) = SharedUnits(shares, DOMAIN shares)
         /\ \A sp : UnitsIn({d \in D : d.sp = sp}) = SharedUnits(shares, {i \in DOMAIN shares : shares[i].sp = sp})
<1> DEFINE all == {<<d.sp, d.sku>> : d \in D}
           OfSp(sp) == {i \in DOMAIN shares : shares[i].sp = sp}
<1>1. UnitsIn(D) = SharedUnits(shares, DOMAIN shares)
  <2>1. D = {d \in D : <<d.sp, d.sku>> \in all}
    OBVIOUS
  <2>2. DOMAIN shares = {i \in DOMAIN shares : <<shares[i].sp, shares[i].sku>> \in all}
    BY DEF AllocationsAgree
  <2> HIDE DEF all
  <2> QED BY <2>1, <2>2, AgreementInSets
<1>2. ASSUME NEW sp
      PROVE  UnitsIn({d \in D : d.sp = sp}) = SharedUnits(shares, OfSp(sp))
  <2> DEFINE Q == {q \in all : q[1] = sp}
             J == {d \in D : d.sp = sp}
             I == OfSp(sp)
  <2>1. J = {d \in D : <<d.sp, d.sku>> \in Q}
    OBVIOUS
  <2>2. I = {i \in DOMAIN shares : <<shares[i].sp, shares[i].sku>> \in Q}
    <3>1. \A i \in DOMAIN shares : <<shares[i].sp, shares[i].sku>> \in all
      BY DEF AllocationsAgree
    <3> HIDE DEF all
    <3> QED BY <3>1
  <2> HIDE DEF Q, J, I
  <2>3. UnitsIn(J) = SharedUnits(shares, I)
    BY <2>1, <2>2, AgreementInSets
  <2> QED BY <2>3 DEF J, I
<1> QED BY <1>1, <1>2

(* The rows of a sheet that are of a line: those of the only key the line has in it. *)
SheetOf(keys, price, D) == UNION {SourceRows(y, price[y], D[y], Entries) : y \in keys}

RowsAre(sheet, keys, D, k) ==
  /\ \A x \in keys :
       FoldKey(x) = k /\ (\A y \in keys : FoldKey(y) = k => y = x) => RowSum(sheet, k) = UnitsIn(D[x])
  /\ (\A y \in keys : FoldKey(y) # k) => RowSum(sheet, k) = 0

(* The rows of a sheet that bear the spelling of a key hold the units of its details. *)
LEMMA RowsOfKey ==
  ASSUME NEW keys, NEW price, NEW D, \A y \in keys : AreDetails(D[y]), NEW k
  PROVE  RowsAre(SheetOf(keys, price, D), keys, D, k)
<1> DEFINE Rows(y) == SourceRows(y, price[y], D[y], Entries)
           sheet == UNION {Rows(y) : y \in keys}
           mine == {r \in sheet : FoldKey(r.key) = k}
<1>1. \A y \in keys : UnitsIn(Rows(y)) = UnitsIn(D[y]) /\ \A r \in Rows(y) : r.key = y
  BY RowsHoldDetails
<1> HIDE DEF Rows
<1>2. ASSUME NEW x \in keys, FoldKey(x) = k, \A y \in keys : FoldKey(y) = k => y = x
      PROVE  RowSum(sheet, k) = UnitsIn(D[x])
  <2>1. mine = Rows(x)
    BY <1>1, <1>2
  <2>2. RowSum(sheet, k) = UnitsIn(mine)
    BY DEF RowSum
  <2> HIDE DEF mine
  <2> QED BY <1>1, <2>1, <2>2
<1>3. ASSUME \A y \in keys : FoldKey(y) # k
      PROVE  RowSum(sheet, k) = 0
  <2>1. mine = {}
    BY <1>1, <1>3
  <2>2. UnitsIn({}) = 0
    BY SumNone DEF UnitsIn
  <2>3. RowSum(sheet, k) = UnitsIn(mine)
    BY DEF RowSum
  <2> HIDE DEF mine
  <2> QED BY <2>1, <2>2, <2>3
<1> HIDE DEF sheet
<1>4. RowsAre(sheet, keys, D, k)
  BY <1>2, <1>3 DEF RowsAre
<1> QED BY <1>4 DEF sheet, Rows, SheetOf

----------------------------------------------------------------------------
(* A set of naturals with 0 and every successor holds them all. *)
LEMMA NaturalInduction ==
  ASSUME NEW G, 0 \in G, \A n \in Nat : n \in G => n + 1 \in G
  PROVE  Nat \subseteq G
<1>1. SUFFICES ASSUME NEW m \in Nat, m \notin G PROVE FALSE
  OBVIOUS
<1>. DEFINE Bad == {0..n : n \in {k \in 0..m : k \notin G}}
            S == 0..m
<1>2. IsFiniteSet(S)
  BY FS_Interval
<1>3. IsWellFoundedOn(StrictSubsetOrdering(S), SUBSET S)
  <2>. HIDE DEF S
  <2>1. FiniteSubsetsOf(S) = SUBSET S
    BY <1>2, FS_FiniteSubsetsOfFinite
  <2>. QED  BY <2>1, FS_StrictSubsetOrderingWellFounded
<1>4. Bad \subseteq SUBSET S /\ Bad # {}
  BY <1>1
<1>. HIDE DEF Bad, S
<1>5. PICK T \in Bad : \A U \in Bad : ~(<<U, T>> \in StrictSubsetOrdering(S))
  BY <1>3, <1>4, WFMin
<1>6. PICK n \in 0..m : n \notin G /\ T = 0..n
  BY <1>5 DEF Bad
<1>. DEFINE k == n - 1
            U == 0..k
<1>7. n # 0 /\ n = k + 1 /\ k \in 0..m /\ k \in Nat
  BY <1>6
<1>8. k \notin G
  BY <1>6, <1>7
<1>. HIDE DEF k
<1>9. U \in Bad
  BY <1>7, <1>8 DEF Bad
<1>10. U \subseteq T /\ n \in T /\ n \notin U /\ U \subseteq S /\ T \subseteq S
  BY <1>6, <1>7 DEF S
<1>11. <<U, T>> \in StrictSubsetOrdering(S)
  BY <1>10 DEF StrictSubsetOrdering
<1>. QED  BY <1>5, <1>9, <1>11

----------------------------------------------------------------------------
(* The shares of a line: each is a number of units. *)
AreShares(shares) ==
  /\ Len(shares) \in Nat /\ DOMAIN shares = 1 .. Len(shares)
  /\ \A i \in DOMAIN shares : shares[i].quantity \in Nat /\ shares[i].quantity > 0

LEMMA RangeFinite == \A n \in Nat : IsFiniteSet(1 .. n)
<1> TAKE n \in Nat
<1>1. 1 \in Int /\ n \in Int
  OBVIOUS
<1> QED BY <1>1, FS_Interval

(* Laid end to end they reach from the first unit of the line to the last. *)
LEMMA SharesLaid ==
  ASSUME NEW shares, AreShares(shares), NEW i \in DOMAIN shares
  PROVE  /\ SharedUnits(shares, 1 .. i - 1) \in Nat
         /\ SharedUnits(shares, 1 .. i) = SharedUnits(shares, 1 .. i - 1) + shares[i].quantity
         /\ SharedUnits(shares, DOMAIN shares) \in Nat
         /\ SharedUnits(shares, 1 .. i) <= SharedUnits(shares, DOMAIN shares)
<1> DEFINE I == DOMAIN shares
           F == [j \in I |-> shares[j].quantity]
           before == 1 .. i - 1
           upto == 1 .. i
           after == I \ upto
<1>1. I = 1 .. Len(shares) /\ Len(shares) \in Nat /\ i \in Nat /\ i >= 1 /\ i <= Len(shares)
  BY DEF AreShares
<1>2. IsFiniteSet(I) /\ \A j \in I : F[j] \in Nat
  <2>1. IsFiniteSet(I)
    BY <1>1, RangeFinite
  <2>2. \A j \in I : F[j] \in Nat
    BY DEF AreShares
  <2> QED BY <2>1, <2>2
<1>3. /\ before \subseteq I /\ upto \subseteq I /\ after \subseteq I
      /\ upto \ {i} = before /\ i \in upto /\ upto \cup after = I /\ upto \cap after = {}
  BY <1>1
<1>4. IsFiniteSet(before) /\ IsFiniteSet(upto) /\ IsFiniteSet(after)
  <2> HIDE DEF I, before, upto, after
  <2> QED BY <1>2, <1>3, FS_Subset
<1> HIDE DEF I, before, upto, after
<1>5. /\ SharedUnits(shares, before) = SumAt(F, before)
      /\ SharedUnits(shares, upto) = SumAt(F, upto)
      /\ SharedUnits(shares, I) = SumAt(F, I)
  BY <1>2, <1>3, SharesOfSome
<1>6. F[i] = shares[i].quantity
  BY DEF I
<1> HIDE DEF F
<1>7. SumAt(F, before) \in Nat /\ SumAt(F, upto) \in Nat /\ SumAt(F, after) \in Nat
  BY <1>2, <1>3, <1>4, SumType
<1>8. SumAt(F, upto) = F[i] + SumAt(F, before)
  <2>1. \A j \in upto : F[j] \in Nat
    BY <1>2, <1>3
  <2> QED BY <1>3, <1>4, <2>1, SumRemove
<1>9. SumAt(F, I) = SumAt(F, upto) + SumAt(F, after)
  <2>1. \A j \in upto \cup after : F[j] \in Nat
    BY <1>2, <1>3
  <2>2. SumAt(F, upto \cup after) = SumAt(F, upto) + SumAt(F, after)
    BY <1>3, <1>4, <2>1, SumUnion
  <2> QED BY <1>3, <2>2
<1>10. F[i] \in Nat
  BY <1>2, <1>3
<1> QED BY <1>5, <1>6, <1>7, <1>8, <1>9, <1>10 DEF before, upto, I

(* So is what is left in the entries of a model. *)
AreLaid(mine, left) ==
  /\ Len(Entries) \in Nat /\ DOMAIN Entries = 1 .. Len(Entries)
  /\ LeftUpto(left, mine, 0) = 0
  /\ \A n \in Nat : LeftUpto(left, mine, n) \in Nat
  /\ \A n \in 1 .. Len(Entries) :
       LeftUpto(left, mine, n) = LeftUpto(left, mine, n - 1) + (IF n \in mine THEN left[n] ELSE 0)

LEMMA EntriesLaid ==
  ASSUME NEW mine, mine \subseteq DOMAIN Entries, NEW left \in [DOMAIN Entries -> Nat]
  PROVE  AreLaid(mine, left)
<1>1. Len(Entries) \in Nat /\ DOMAIN Entries = 1 .. Len(Entries)
  BY EntriesAssumption
<1>2. IsFiniteSet(mine) /\ \A e \in mine : left[e] \in Nat
  <2>1. IsFiniteSet(DOMAIN Entries)
    BY <1>1, RangeFinite
  <2>2. \A e \in mine : left[e] \in Nat
    OBVIOUS
  <2> QED BY <2>1, <2>2, FS_Subset
<1> DEFINE Upto(n) == {f \in mine : f <= n}
<1>3. \A n : Upto(n) \subseteq mine /\ IsFiniteSet(Upto(n))
  BY <1>2, FS_Subset
<1>4. Upto(0) = {}
  BY <1>1
<1>5. LeftUpto(left, mine, 0) = 0
  BY <1>4, SumNone DEF LeftUpto
<1>6. \A n \in Nat : LeftUpto(left, mine, n) \in Nat
  <2> SUFFICES ASSUME NEW n \in Nat PROVE LeftUpto(left, mine, n) \in Nat
    OBVIOUS
  <2>1. IsFiniteSet(Upto(n)) /\ \A e \in Upto(n) : left[e] \in Nat
    BY <1>2, <1>3
  <2>2. LeftUpto(left, mine, n) = SumAt(left, Upto(n))
    BY DEF LeftUpto
  <2> HIDE DEF Upto
  <2> QED BY <2>1, <2>2, SumType
<1>7. ASSUME NEW n \in 1 .. Len(Entries)
      PROVE  LeftUpto(left, mine, n) = LeftUpto(left, mine, n - 1) + (IF n \in mine THEN left[n] ELSE 0)
  <2>1. LeftUpto(left, mine, n) = SumAt(left, Upto(n)) /\ LeftUpto(left, mine, n - 1) = SumAt(left, Upto(n - 1))
    BY DEF LeftUpto
  <2>2. LeftUpto(left, mine, n - 1) \in Nat
    <3>1. n - 1 \in Nat
      BY <1>1
    <3> QED BY <1>6, <3>1, Zenon
  <2>3. mine \subseteq Nat
    BY <1>1
  <2>4. CASE n \in mine
    <3>1. n \in Upto(n) /\ Upto(n) \ {n} = Upto(n - 1)
      BY <1>1, <2>3, <2>4
    <3>2. IsFiniteSet(Upto(n)) /\ \A e \in Upto(n) : left[e] \in Nat
      BY <1>2, <1>3
    <3> HIDE DEF Upto
    <3>3. SumAt(left, Upto(n)) = left[n] + SumAt(left, Upto(n) \ {n})
      BY <3>1, <3>2, SumRemove
    <3>4. left[n] \in Nat
      BY <1>2, <2>4
    <3>5. SumAt(left, Upto(n)) = left[n] + SumAt(left, Upto(n - 1))
      BY <3>1, <3>3
    <3> QED BY <2>1, <2>2, <2>4, <3>4, <3>5
  <2>5. CASE n \notin mine
    <3>1. Upto(n) = Upto(n - 1)
      BY <1>1, <2>3, <2>5
    <3> HIDE DEF Upto
    <3> QED BY <2>1, <2>2, <2>5, <3>1
  <2> QED BY <2>4, <2>5
<1> QED BY <1>1, <1>5, <1>6, <1>7 DEF AreLaid

----------------------------------------------------------------------------
(* What two spans have in common, and how much of a span lies before a mark. *)
LEMMA MaxOfTwo == ASSUME NEW a \in Int, NEW b \in Int PROVE Max({a, b}) = IF a >= b THEN a ELSE b
<1> DEFINE m == IF a >= b THEN a ELSE b
<1>1. m \in {a, b} /\ \A y \in {a, b} : m >= y
  OBVIOUS
<1>2. \A x \in {a, b} : (\A y \in {a, b} : x >= y) => x = m
  OBVIOUS
<1> QED BY <1>1, <1>2 DEF Max

LEMMA MinOfTwo == ASSUME NEW a \in Int, NEW b \in Int PROVE Min({a, b}) = IF a <= b THEN a ELSE b
<1> DEFINE m == IF a <= b THEN a ELSE b
<1>1. m \in {a, b} /\ \A y \in {a, b} : m <= y
  OBVIOUS
<1>2. \A x \in {a, b} : (\A y \in {a, b} : x <= y) => x = m
  OBVIOUS
<1> QED BY <1>1, <1>2 DEF Min

(* The units two spans share lie between the later start and the earlier end. *)
LEMMA OverlapIs ==
  ASSUME NEW a \in Int, NEW b \in Int, NEW c \in Int, NEW d \in Int
  PROVE  LET low == IF a >= c THEN a ELSE c
             high == IF b <= d THEN b ELSE d
         IN Overlap(<<a, b>>, <<c, d>>) = IF low <= high THEN high - low + 1 ELSE 0
<1> DEFINE low == IF a >= c THEN a ELSE c
           high == IF b <= d THEN b ELSE d
<1>1. Max({a, c}) = low /\ Min({b, d}) = high
  BY MaxOfTwo, MinOfTwo
<1>2. low \in Int /\ high \in Int
  OBVIOUS
<1> HIDE DEF low, high
<1>3. Overlap(<<a, b>>, <<c, d>>) = Max({0, high - low + 1})
  BY <1>1 DEF Overlap
<1>4. Max({0, high - low + 1}) = IF 0 >= high - low + 1 THEN 0 ELSE high - low + 1
  BY <1>2, MaxOfTwo
<1> QED BY <1>2, <1>3, <1>4 DEF low, high

(* Units of the span after u up to v that come no later than t. *)
Before(u, v, t) == IF t <= u THEN 0 ELSE IF t >= v THEN v - u ELSE t - u

(* So they are those of the one that come no later than the end of the other, less those
   that come before its start. *)
LEMMA OverlapBefore ==
  ASSUME NEW u \in Nat, NEW v \in Nat, u <= v, NEW s \in Nat, NEW t \in Nat
  PROVE  /\ s <= t => Overlap(<<u + 1, v>>, <<s + 1, t>>) = Before(u, v, t) - Before(u, v, s)
         /\ v <= t => Overlap(<<u + 1, v>>, <<s + 1, t>>) = (v - u) - Before(u, v, s)
         /\ Overlap(<<u + 1, v>>, <<s + 1, t>>) \in Nat
         /\ s <= t => Overlap(<<u + 1, v>>, <<s + 1, t>>) <= t - s
         /\ \A p \in Nat : v <= p => Overlap(<<u + 1, v>>, <<s + 1, t>>) <= Overlap(<<1, p>>, <<s + 1, t>>)
         /\ Before(u, v, s) \in Nat /\ Before(u, v, 0) = 0
<1> DEFINE both == Overlap(<<u + 1, v>>, <<s + 1, t>>)
           low == IF u + 1 >= s + 1 THEN u + 1 ELSE s + 1
           high == IF v <= t THEN v ELSE t
<1>1. both = IF low <= high THEN high - low + 1 ELSE 0
  BY OverlapIs
<1> HIDE DEF both
<1>2. /\ s <= t => both = Before(u, v, t) - Before(u, v, s)
      /\ v <= t => both = (v - u) - Before(u, v, s)
      /\ both \in Nat
      /\ s <= t => both <= t - s
      /\ Before(u, v, s) \in Nat /\ Before(u, v, 0) = 0
  BY <1>1 DEF Before
<1>3. ASSUME NEW p \in Nat, v <= p
      PROVE  both <= Overlap(<<1, p>>, <<s + 1, t>>)
  <2> DEFINE first == IF 1 >= s + 1 THEN 1 ELSE s + 1
             last == IF p <= t THEN p ELSE t
  <2>1. Overlap(<<1, p>>, <<s + 1, t>>) = IF first <= last THEN last - first + 1 ELSE 0
    BY OverlapIs
  <2> QED BY <1>1, <1>3, <2>1
<1> QED BY <1>2, <1>3 DEF both

(* Spans laid end to end, those of some of the numbers up to N and the rest up to p, cover
   what lies between u and v once. *)
IsTiling(L, N, mine) ==
  /\ N \in Nat /\ mine \subseteq 1 .. N /\ L \in [0 .. N -> Nat] /\ L[0] = 0
  /\ \A n \in 1 .. N : L[n - 1] <= L[n] /\ (n \notin mine => L[n] = L[n - 1])

AreTiles(L, N, mine, u, v, p, T, used) ==
  /\ \A e \in mine : T[e] = Overlap(<<u + 1, v>>, <<L[e - 1] + 1, L[e]>>)
  /\ T[None] = Overlap(<<u + 1, v>>, <<L[N] + 1, p>>)
  /\ used = {e \in mine : Overlap(<<1, p>>, <<L[e - 1] + 1, L[e]>>) > 0}
  /\ u \in Nat /\ v \in Nat /\ u <= v /\ p \in Nat /\ v <= p /\ None \notin mine

IsCovered(T, mine, used, units) ==
  /\ SumAt(T, used \cup {None}) = units
  /\ IsFiniteSet(mine) /\ \A e \in mine \cup {None} : T[e] \in Nat

(* Spans laid end to end, and the rest after them, cover a span exactly once. *)
LEMMA Tiling ==
  ASSUME NEW L, NEW N, NEW mine, IsTiling(L, N, mine),
         NEW u, NEW v, NEW p, NEW T, NEW used, AreTiles(L, N, mine, u, v, p, T, used)
  PROVE  IsCovered(T, mine, used, v - u)
<1> USE DEF AreTiles
<1> DEFINE B == [n \in 0 .. N |-> Before(u, v, L[n])]
           Upto(n) == {f \in mine : f <= n}
<1>1. /\ N \in Nat /\ mine \subseteq 1 .. N /\ mine \subseteq Nat
      /\ \A n \in 0 .. N : L[n] \in Nat
      /\ \A n \in 1 .. N : n - 1 \in 0 .. N /\ n \in 0 .. N /\ L[n - 1] <= L[n] /\ (n \notin mine => L[n] = L[n - 1])
  BY DEF IsTiling
<1>2. IsFiniteSet(mine)
  <2>1. IsFiniteSet(1 .. N)
    BY <1>1, RangeFinite
  <2> QED BY <1>1, <2>1, FS_Subset
<1>3. \A n \in 0 .. N : B[n] \in Nat /\ B[n] = Before(u, v, L[n])
  BY <1>1, OverlapBefore
<1>4. B[0] = 0
  <2>1. L[0] = 0 /\ 0 \in 0 .. N
    BY <1>1 DEF IsTiling
  <2>2. Before(u, v, 0) = 0
    BY OverlapBefore
  <2> QED BY <2>1, <2>2
<1>7. \A n \in 1 .. N : n \notin mine => B[n] = B[n - 1]
  BY <1>1
<1> HIDE DEF B, Upto
<1>5. ASSUME NEW e \in mine
      PROVE  T[e] = B[e] - B[e - 1] /\ T[e] \in Nat
  <2>1. e \in 1 .. N /\ e - 1 \in 0 .. N /\ e \in 0 .. N /\ L[e - 1] \in Nat /\ L[e] \in Nat /\ L[e - 1] <= L[e]
    BY <1>1
  <2> DEFINE s == L[e - 1]
             t == L[e]
             part == Overlap(<<u + 1, v>>, <<s + 1, t>>)
  <2>2. s \in Nat /\ t \in Nat /\ s <= t /\ T[e] = part
    BY <2>1
  <2> HIDE DEF s, t
  <2>3. part = Before(u, v, t) - Before(u, v, s)
    BY <2>2, OverlapBefore
  <2>4. part \in Nat
    BY <2>2, OverlapBefore
  <2> QED BY <1>3, <2>1, <2>2, <2>3, <2>4 DEF s, t
<1>6. T[None] = (v - u) - B[N] /\ T[None] \in Nat
  <2>1. N \in 0 .. N /\ L[N] \in Nat
    BY <1>1
  <2> DEFINE s == L[N]
             part == Overlap(<<u + 1, v>>, <<s + 1, p>>)
  <2>2. s \in Nat /\ T[None] = part
    BY <2>1
  <2> HIDE DEF s
  <2>3. part = (v - u) - Before(u, v, s)
    BY <2>2, OverlapBefore
  <2>4. part \in Nat
    BY <2>2, OverlapBefore
  <2> QED BY <1>3, <2>1, <2>2, <2>3, <2>4 DEF s
<1>8. \A n : IsFiniteSet(Upto(n)) /\ Upto(n) \subseteq mine
  BY <1>2, FS_Subset DEF Upto
<1>9. \A n \in Nat : n <= N => SumAt(T, Upto(n)) = B[n]
  <2> DEFINE G == {n \in Nat : n <= N => SumAt(T, Upto(n)) = B[n]}
  <2>1. 0 \in G
    <3>1. \A f \in mine : ~(f <= 0)
      BY <1>1
    <3>2. Upto(0) = {}
      BY <3>1 DEF Upto
    <3> QED BY <1>4, <3>2, SumNone
  <2>2. ASSUME NEW n \in Nat, n \in G
        PROVE  n + 1 \in G
    <3> SUFFICES ASSUME n + 1 <= N PROVE SumAt(T, Upto(n + 1)) = B[n + 1]
      OBVIOUS
    <3>1. SumAt(T, Upto(n)) = B[n]
      BY <1>1, <2>2
    <3>2. n + 1 \in 1 .. N /\ (n + 1) - 1 = n /\ n \in 0 .. N /\ n + 1 \in 0 .. N
      BY <1>1
    <3>3. \A f \in Nat : f <= n + 1 <=> (f <= n \/ f = n + 1)
      OBVIOUS
    <3>4. CASE n + 1 \in mine
      <4>1. Upto(n + 1) \ {n + 1} = Upto(n) /\ n + 1 \in Upto(n + 1)
        <5>1. \A f \in mine : f \in Nat
          BY <1>1
        <5>2. ~(n + 1 <= n) /\ n + 1 <= n + 1
          OBVIOUS
        <5> QED BY <3>3, <3>4, <5>1, <5>2 DEF Upto
      <4>2. IsFiniteSet(Upto(n + 1)) /\ \A e \in Upto(n + 1) : T[e] \in Nat
        BY <1>5, <1>8
      <4>3. T[n + 1] = B[n + 1] - B[n]
        BY <1>5, <3>2, <3>4
      <4>4. SumAt(T, Upto(n + 1)) = T[n + 1] + SumAt(T, Upto(n))
        <5> QED BY <4>1, <4>2, SumRemove
      <4>5. B[n + 1] \in Nat /\ B[n] \in Nat
        BY <1>3, <3>2
      <4> QED BY <3>1, <4>3, <4>4, <4>5
    <3>5. CASE n + 1 \notin mine
      <4>1. Upto(n + 1) = Upto(n)
        <5>1. \A f \in mine : f \in Nat /\ f # n + 1
          BY <1>1, <3>5
        <5> QED BY <3>3, <5>1 DEF Upto
      <4>2. B[n + 1] = B[n]
        BY <1>7, <3>2, <3>5
      <4> QED BY <3>1, <4>1, <4>2
    <3> QED BY <3>4, <3>5
  <2> HIDE DEF G
  <2>3. Nat \subseteq G
    <3>1. \A n \in Nat : n \in G => n + 1 \in G
      BY <2>2
    <3> QED BY <2>1, <3>1, NaturalInduction
  <2> QED BY <2>3 DEF G
<1>10. SumAt(T, mine) = B[N]
  <2>1. \A f \in mine : f <= N
    BY <1>1
  <2>2. Upto(N) = mine
    BY <2>1 DEF Upto
  <2> QED BY <1>1, <1>9, <2>2
<1>11. \A e \in mine \ used : T[e] = 0
  <2> SUFFICES ASSUME NEW e \in mine, e \notin used PROVE T[e] = 0
    OBVIOUS
  <2> DEFINE all == Overlap(<<1, p>>, <<L[e - 1] + 1, L[e]>>)
             part == Overlap(<<u + 1, v>>, <<L[e - 1] + 1, L[e]>>)
  <2>1. L[e - 1] \in Nat /\ L[e] \in Nat /\ T[e] = part
    BY <1>1
  <2>2. part <= all
    BY <2>1, OverlapBefore
  <2>3. ~(all > 0)
    OBVIOUS
  <2>4. all \in Nat
    <3> DEFINE s == L[e - 1]
               t == L[e]
    <3>1. s \in Nat /\ t \in Nat
      BY <2>1
    <3> HIDE DEF s, t
    <3>2. 0 \in Nat /\ 0 <= p /\ 0 + 1 = 1
      OBVIOUS
    <3>3. Overlap(<<0 + 1, p>>, <<s + 1, t>>) \in Nat
      BY <3>1, <3>2, OverlapBefore
    <3> QED BY <3>2, <3>3 DEF s, t
  <2>5. T[e] \in Nat
    BY <1>5
  <2> HIDE DEF all, part
  <2> QED BY <2>1, <2>2, <2>3, <2>4, <2>5
<1>12. SumAt(T, mine) = SumAt(T, used)
  <2>1. /\ used \cup (mine \ used) = mine /\ used \cap (mine \ used) = {}
        /\ \A e \in used \cup (mine \ used) : T[e] \in Nat
    BY <1>5
  <2>2. IsFiniteSet(used) /\ IsFiniteSet(mine \ used)
    BY <1>2, FS_Subset
  <2>3. SumAt(T, used \cup (mine \ used)) = SumAt(T, used) + SumAt(T, mine \ used)
    BY <2>1, <2>2, SumUnion
  <2>4. SumAt(T, mine \ used) = 0
    BY <1>11, <2>2, SumZeros
  <2>5. SumAt(T, used) \in Nat
    BY <2>1, <2>2, SumType
  <2>6. SumAt(T, mine) = SumAt(T, used) + SumAt(T, mine \ used)
    BY <2>1, <2>3
  <2> QED BY <2>4, <2>5, <2>6
<1>13. IsFiniteSet(used) /\ IsFiniteSet({None})
  BY <1>2, FS_Subset, FS_Singleton
<1>14. SumAt(T, used \cup {None}) = SumAt(T, used) + T[None]
  <2>1. \A e \in used \cup {None} : T[e] \in Nat
    BY <1>5, <1>6
  <2>2. used \cap {None} = {}
    OBVIOUS
  <2>3. SumAt(T, used \cup {None}) = SumAt(T, used) + SumAt(T, {None})
    BY <1>13, <2>1, <2>2, SumUnion
  <2> QED BY <1>6, <2>3, SumOne
<1>15. \A e \in mine \cup {None} : T[e] \in Nat
  BY <1>5, <1>6
<1>16. B[N] \in Nat
  BY <1>1, <1>3
<1>17. SumAt(T, used \cup {None}) = v - u
  BY <1>6, <1>10, <1>12, <1>14, <1>16
<1> QED BY <1>2, <1>15, <1>17 DEF IsCovered

(* Every share is covered once: by the entries it overlaps, and by what is bought. *)
LEMMA ShareIsCovered ==
  ASSUME NEW shares, AreShares(shares), NEW i \in DOMAIN shares,
         NEW planned, planned = SharedUnits(shares, DOMAIN shares),
         NEW mine, mine \subseteq DOMAIN Entries, NEW left \in [DOMAIN Entries -> Nat],
         NEW used, used = {e \in mine : Overlap(<<1, planned>>, SourceSpan(planned, left, mine, e)) > 0},
         NEW T, T = [e \in mine \cup {None} |-> Overlap(ShareSpan(shares, i), SourceSpan(planned, left, mine, e))]
  PROVE  IsCovered(T, mine, used, shares[i].quantity)
<1> DEFINE u == SharedUnits(shares, 1 .. i - 1)
           v == SharedUnits(shares, 1 .. i)
           N == Len(Entries)
           L == [n \in 0 .. N |-> LeftUpto(left, mine, n)]
<1>1. /\ u \in Nat /\ v = u + shares[i].quantity /\ planned \in Nat /\ v <= planned
  BY SharesLaid
<1>2. shares[i].quantity \in Nat
  BY DEF AreShares
<1>0. AreLaid(mine, left)
  BY EntriesLaid
<1>3. N \in Nat /\ DOMAIN Entries = 1 .. N
  BY <1>0 DEF AreLaid
<1>4. /\ LeftUpto(left, mine, 0) = 0
      /\ \A n \in Nat : LeftUpto(left, mine, n) \in Nat
      /\ \A n \in 1 .. N :
           LeftUpto(left, mine, n) = LeftUpto(left, mine, n - 1) + (IF n \in mine THEN left[n] ELSE 0)
  BY <1>0 DEF AreLaid
<1>5. ShareSpan(shares, i) = <<u + 1, v>>
  BY DEF ShareSpan
<1> HIDE DEF u, v, N
<1>6. /\ \A n \in 0 .. N : L[n] = LeftUpto(left, mine, n) /\ L[n] \in Nat
      /\ \A n \in 1 .. N : L[n] = L[n - 1] + (IF n \in mine THEN left[n] ELSE 0)
      /\ L[0] = 0 /\ L \in [0 .. N -> Nat]
  <2>1. 0 .. N \subseteq Nat /\ 0 \in 0 .. N /\ \A n \in 1 .. N : n \in 0 .. N /\ n - 1 \in 0 .. N
    BY <1>3
  <2>2. \A n \in 0 .. N : L[n] = LeftUpto(left, mine, n) /\ L[n] \in Nat
    BY <1>4, <2>1
  <2>3. L[0] = 0 /\ L \in [0 .. N -> Nat]
    BY <1>4, <2>1, <2>2
  <2>4. \A n \in 1 .. N : L[n] = L[n - 1] + (IF n \in mine THEN left[n] ELSE 0)
    BY <1>4, <2>1, <2>2
  <2> QED BY <2>2, <2>3, <2>4
<1> HIDE DEF L
<1>7. None \notin mine /\ \A e \in mine : e \in 1 .. N /\ e # None /\ left[e] \in Nat
  BY <1>3, EntriesAssumption
<1>8. IsTiling(L, N, mine)
  <2> SUFFICES ASSUME NEW n \in 1 .. N
               PROVE  L[n - 1] <= L[n] /\ (n \notin mine => L[n] = L[n - 1])
    BY <1>3, <1>6, <1>7 DEF IsTiling
  <2>1. L[n - 1] \in Nat
    BY <1>3, <1>6
  <2>2. CASE n \in mine
    BY <1>6, <1>7, <2>1, <2>2
  <2>3. CASE n \notin mine
    BY <1>6, <2>1, <2>3
  <2> QED BY <2>2, <2>3
<1>9. ASSUME NEW e \in mine
      PROVE  SourceSpan(planned, left, mine, e) = <<L[e - 1] + 1, L[e]>>
  <2>1. e \in 1 .. N /\ e \in 0 .. N /\ e - 1 \in 0 .. N /\ e # None /\ left[e] \in Nat
    BY <1>3, <1>7
  <2>2. L[e] = L[e - 1] + left[e] /\ L[e - 1] \in Nat /\ L[e] \in Nat /\ L[e] = LeftUpto(left, mine, e)
    BY <1>6, <2>1
  <2>3. SourceSpan(planned, left, mine, e) = <<L[e] - left[e] + 1, L[e]>>
    BY <2>1, <2>2 DEF SourceSpan
  <2>4. L[e] - left[e] + 1 = L[e - 1] + 1
    BY <2>1, <2>2
  <2> QED BY <2>3, <2>4
<1>10. SourceSpan(planned, left, mine, None) = <<L[N] + 1, planned>>
  <2>1. L[N] = LeftUpto(left, mine, Len(Entries))
    BY <1>3, <1>6 DEF N
  <2> QED BY <2>1 DEF SourceSpan
<1>11. v \in Nat /\ u <= v /\ v - u = shares[i].quantity
  BY <1>1, <1>2
<1>12. /\ \A e \in mine : T[e] = Overlap(<<u + 1, v>>, <<L[e - 1] + 1, L[e]>>)
       /\ T[None] = Overlap(<<u + 1, v>>, <<L[N] + 1, planned>>)
  BY <1>5, <1>9, <1>10
<1>13. used = {e \in mine : Overlap(<<1, planned>>, <<L[e - 1] + 1, L[e]>>) > 0}
  BY <1>9
<1>14. AreTiles(L, N, mine, u, v, planned, T, used)
  BY <1>1, <1>7, <1>11, <1>12, <1>13 DEF AreTiles
<1>15. IsCovered(T, mine, used, v - u)
  BY <1>8, <1>14, Tiling
<1> QED BY <1>11, <1>15

----------------------------------------------------------------------------
(* What is asked of a line, and what a line of the ERP has of it. *)
IntentFits(asked) ==
  AreShares(asked.shares) /\ asked.planned = SharedUnits(asked.shares, DOMAIN asked.shares)

LineFits(line, asked) == AreDetails(line.details) /\ AllocationsAgree(line.details, asked.shares)

(* The details of a set of shares, each with a positive number of units from each of some sources. *)
Piece(share, Q, i, e) ==
  [share |-> i, sp |-> share[i].sp, sku |-> share[i].sku, entry |-> e, quantity |-> Q[i][e]]

AreCut(D, I, U, Q, share) ==
  /\ IsFiniteSet(I) /\ IsFiniteSet(U) /\ U \subseteq {None} \cup DOMAIN Entries
  /\ \A i \in I, e \in U : Q[i][e] \in Nat
  /\ D = {d \in {Piece(share, Q, i, e) : i \in I, e \in U} : d.quantity > 0}

(* What is cut of them are details, each of a share and from a source. *)
LEMMA CutsAreDetails ==
  ASSUME NEW D, NEW I, NEW U, NEW Q, NEW share, AreCut(D, I, U, Q, share)
  PROVE  /\ AreDetails(D)
         /\ \A d \in D : d.share \in I /\ d.entry \in U /\ d.sp = share[d.share].sp /\ d.sku = share[d.share].sku
<1> DEFINE C == I \X U
           f == [x \in C |-> Piece(share, Q, x[1], x[2])]
           all == {f[x] : x \in C}
<1>1. D \subseteq all
  <2>1. ASSUME NEW i \in I, NEW e \in U
        PROVE  Piece(share, Q, i, e) \in all
    <3>1. <<i, e>> \in C /\ f[<<i, e>>] = Piece(share, Q, i, e)
      OBVIOUS
    <3> QED BY <3>1
  <2> HIDE DEF all
  <2> QED BY <2>1 DEF AreCut
<1>2. IsFiniteSet(C)
  BY FS_Product DEF AreCut
<1>3. IsFiniteSet(D)
  <2> HIDE DEF C, f
  <2>1. IsFiniteSet(all)
    BY <1>2, ImageFinite
  <2> QED BY <1>1, <2>1, FS_Subset
<1>4. \A d \in D : \E i \in I, e \in U : d = Piece(share, Q, i, e) /\ Q[i][e] \in Nat /\ d.quantity > 0
  BY DEF AreCut
<1>5. \A d \in D : /\ d.quantity \in Nat /\ d.quantity > 0 /\ d.entry \in U
                   /\ d.share \in I /\ d.sp = share[d.share].sp /\ d.sku = share[d.share].sku
  BY <1>4 DEF Piece
<1> QED BY <1>3, <1>5 DEF AreDetails, AreCut

(* The pieces of a share add up to what its sources give of it. *)
LEMMA PiecesAddUp ==
  ASSUME NEW D, NEW I, NEW U, NEW Q, NEW share, AreCut(D, I, U, Q, share),
         NEW i \in I, NEW T, \A e \in U : T[e] = Q[i][e],
         NEW P, P = {d \in D : d.share = i}
  PROVE  UnitsIn(P) = SumAt(T, U)
<1> DEFINE F == [d \in D |-> d.quantity]
           class == [d \in P |-> d.entry]
           Of == [e \in U |-> {d \in P : d.entry = e}]
<1>1. AreDetails(D) /\ \A d \in D : d.share \in I /\ d.entry \in U
  BY CutsAreDetails
<1>2. IsFiniteSet(D) /\ IsFiniteSet(P) /\ IsFiniteSet(U)
  BY <1>1, FS_Subset DEF AreDetails, AreCut
<1>3. UnitsIn(P) = SumAt(F, P)
  BY <1>2, UnitsOfSome
<1>4. \A d \in P : F[d] \in Nat /\ class[d] \in U
  BY <1>1 DEF AreDetails
<1>5. \A e \in U : Of[e] \subseteq P /\ \A d \in P : d \in Of[e] <=> class[d] = e
  OBVIOUS
<1>6. ASSUME NEW e \in U
      PROVE  T[e] = SumAt(F, Of[e])
  <2> DEFINE d == Piece(share, Q, i, e)
  <2>1. Q[i][e] \in Nat /\ d.quantity = Q[i][e] /\ d.share = i /\ d.entry = e
    BY DEF AreCut, Piece
  <2>2. \A x \in Of[e] : x = d
    BY DEF AreCut, Piece
  <2>3. CASE Q[i][e] > 0
    <3>1. d \in D
      BY <2>1, <2>3 DEF AreCut
    <3>2. Of[e] = {d}
      BY <2>1, <2>2, <3>1
    <3>3. F[d] = T[e] /\ F[d] \in Nat
      BY <2>1, <3>1
    <3> HIDE DEF F, d, Of
    <3> QED BY <3>2, <3>3, SumOne
  <2>4. CASE ~(Q[i][e] > 0)
    <3>1. d \notin D
      BY <2>1, <2>4 DEF AreCut
    <3>2. Of[e] = {}
      BY <2>2, <3>1
    <3>3. T[e] = 0
      BY <2>1, <2>4
    <3> HIDE DEF F, Of
    <3> QED BY <3>2, <3>3, SumNone
  <2> QED BY <2>3, <2>4
<1> HIDE DEF F, class, Of
<1>7. AddsUp(F, P, class, U, Of, T)
  BY <1>2, <1>4, <1>5, <1>6 DEF AddsUp
<1> QED BY <1>3, <1>7, SumByClass

(* Cut pieces agree with the shares they are cut from, when each share is cut whole. *)
LEMMA CutsAgree ==
  ASSUME NEW D, NEW shares, AreShares(shares), NEW U, NEW Q, AreCut(D, DOMAIN shares, U, Q, shares),
         \A i \in DOMAIN shares : SumAt([e \in U |-> Q[i][e]], U) = shares[i].quantity
  PROVE  AllocationsAgree(D, shares)
<1> DEFINE I == DOMAIN shares
           Pair(i) == <<shares[i].sp, shares[i].sku>>
           Of(i) == {d \in D : d.share = i}
<1>1. /\ AreDetails(D)
      /\ \A d \in D : d.share \in I /\ <<d.sp, d.sku>> = Pair(d.share)
  BY CutsAreDetails
<1>2. ASSUME NEW i \in I
      PROVE  UnitsIn(Of(i)) = shares[i].quantity
  <2> DEFINE T == [e \in U |-> Q[i][e]]
             P == Of(i)
  <2>1. \A e \in U : T[e] = Q[i][e]
    OBVIOUS
  <2>2. SumAt(T, U) = shares[i].quantity
    OBVIOUS
  <2>3. P = {d \in D : d.share = i}
    OBVIOUS
  <2> HIDE DEF T, P
  <2>4. UnitsIn(P) = SumAt(T, U)
    BY <2>1, <2>3, PiecesAddUp
  <2> QED BY <2>2, <2>4 DEF P
<1>3. \A d \in D : d.quantity > 0
  BY <1>1 DEF AreDetails
<1>4. {<<d.sp, d.sku>> : d \in D} = {Pair(i) : i \in I}
  <2>1. ASSUME NEW i \in I
        PROVE  \E d \in D : <<d.sp, d.sku>> = Pair(i)
    <3>1. shares[i].quantity > 0
      BY DEF AreShares
    <3>2. Of(i) # {}
      <4> SUFFICES ASSUME Of(i) = {} PROVE FALSE
        OBVIOUS
      <4>1. UnitsIn({}) = 0
        BY SumNone DEF UnitsIn
      <4> QED BY <1>2, <3>1, <4>1
    <3> QED BY <1>1, <3>2
  <2> QED BY <1>1, <2>1
<1>5. ASSUME NEW pair
      PROVE  UnitsIn({d \in D : <<d.sp, d.sku>> = pair}) = SharedUnits(shares, {i \in I : Pair(i) = pair})
  <2> DEFINE J == {d \in D : <<d.sp, d.sku>> = pair}
             K == {i \in I : Pair(i) = pair}
             F == [d \in D |-> d.quantity]
             H == [i \in I |-> shares[i].quantity]
             class == [d \in J |-> d.share]
             P == [i \in K |-> Of(i)]
  <2>1. IsFiniteSet(D) /\ IsFiniteSet(J) /\ IsFiniteSet(I) /\ IsFiniteSet(K)
    <3>1. IsFiniteSet(D)
      BY <1>1 DEF AreDetails
    <3>2. IsFiniteSet(I)
      BY RangeFinite DEF AreShares
    <3> QED BY <3>1, <3>2, FS_Subset
  <2>2. UnitsIn(J) = SumAt(F, J)
    BY <2>1, UnitsOfSome
  <2>3. SharedUnits(shares, K) = SumAt(H, K)
    BY <2>1, SharesOfSome
  <2>4. \A d \in J : F[d] \in Nat /\ class[d] \in K
    BY <1>1 DEF AreDetails
  <2>5. \A i \in K : P[i] \subseteq J /\ \A d \in J : d \in P[i] <=> class[d] = i
    BY <1>1
  <2>6. ASSUME NEW i \in K
        PROVE  H[i] = SumAt(F, P[i])
    <3>1. UnitsIn(Of(i)) = SumAt(F, Of(i))
      BY <2>1, UnitsOfSome
    <3>2. P[i] = Of(i) /\ H[i] = shares[i].quantity /\ i \in I
      OBVIOUS
    <3> HIDE DEF P, H, F, Of
    <3> QED BY <1>2, <3>1, <3>2
  <2>7. AddsUp(F, J, class, K, P, H)
    <3> HIDE DEF F, J, class, K, P, H
    <3> QED BY <2>1, <2>4, <2>5, <2>6 DEF AddsUp
  <2> HIDE DEF F, J, class, K, P, H
  <2>8. SumAt(H, K) = SumAt(F, J)
    BY <2>7, SumByClass
  <2> QED BY <2>2, <2>3, <2>8 DEF J, K
<1> QED BY <1>3, <1>4, <1>5 DEF AllocationsAgree, DetailSum

(* What the ERP plans for a line holds each share of it once, and takes of an entry of its
   model no more than is left there. *)
LEMMA ErpLineHolds ==
  ASSUME NEW key, NEW asked, IntentFits(asked), NEW left \in [DOMAIN Entries -> Nat], NEW mode
  PROVE  /\ LineFits(ErpLine(key, asked, left, mode), asked)
         /\ \A e \in DOMAIN ErpLine(key, asked, left, mode).applied :
              /\ e \in DOMAIN Entries /\ Entries[e].key = key
              /\ ErpLine(key, asked, left, mode).applied[e] \in Nat
              /\ ErpLine(key, asked, left, mode).applied[e] <= left[e]
<1> DEFINE line == ErpLine(key, asked, left, mode)
           shares == asked.shares
           planned == asked.planned
           I == DOMAIN shares
           mine == MineOf(key, mode)
           Span(e) == SourceSpan(planned, left, mine, e)
           used == {e \in mine : Overlap(<<1, planned>>, Span(e)) > 0}
           U == used \cup {None}
           Q == [i \in I |-> [e \in mine \cup {None} |-> Overlap(ShareSpan(shares, i), Span(e))]]
           D == {d \in {Piece(shares, Q, i, e) : i \in I, e \in U} : d.quantity > 0}
<1>1. AreShares(shares) /\ planned = SharedUnits(shares, I) /\ mine \subseteq DOMAIN Entries
  BY DEF IntentFits, MineOf
<1>2. /\ line.details = D
      /\ line.applied = [e \in used |-> Overlap(<<1, planned>>, Span(e))]
  <2> DEFINE Detail(i, e) == [share |-> i, sp |-> asked.shares[i].sp, sku |-> asked.shares[i].sku, entry |-> e,
                              quantity |-> Overlap(ShareSpan(asked.shares, i), Span(e))]
             details == {Detail(i, e) : i \in DOMAIN asked.shares, e \in used \cup {None}}
  <2>1. /\ line.details = {d \in details : d.quantity > 0}
        /\ line.applied = [e \in used |-> Overlap(<<1, planned>>, Span(e))]
    BY DEF ErpLine
  <2>2. \A i \in I, e \in U : Detail(i, e) = Piece(shares, Q, i, e)
    BY DEF Piece
  <2>3. details = {Piece(shares, Q, i, e) : i \in I, e \in U}
    <3> HIDE DEF Detail, Q
    <3> QED BY <2>2
  <2> HIDE DEF details, line, Span, Q, U
  <2> QED BY <2>1, <2>3
<1> HIDE DEF line, shares, planned, mine, Span, used
<1>3. ASSUME NEW i \in I
      PROVE  IsCovered(Q[i], mine, used, shares[i].quantity)
  <2>1. Q[i] = [e \in mine \cup {None} |-> Overlap(ShareSpan(shares, i), SourceSpan(planned, left, mine, e))]
    BY DEF Span
  <2>2. used = {e \in mine : Overlap(<<1, planned>>, SourceSpan(planned, left, mine, e)) > 0}
    BY DEF used, Span
  <2> DEFINE T == Q[i]
  <2>3. T = [e \in mine \cup {None} |-> Overlap(ShareSpan(shares, i), SourceSpan(planned, left, mine, e))]
    BY <2>1
  <2> HIDE DEF Q, T
  <2>4. IsCovered(T, mine, used, shares[i].quantity)
    BY <1>1, <2>2, <2>3, ShareIsCovered, Zenon
  <2> QED BY <2>4 DEF T
<1>4. IsFiniteSet(I) /\ IsFiniteSet(U) /\ U \subseteq {None} \cup DOMAIN Entries /\ used \subseteq mine
  <2>1. IsFiniteSet(I)
    BY <1>1, RangeFinite DEF AreShares
  <2>2. used \subseteq mine
    BY DEF used
  <2>3. IsFiniteSet(mine)
    <3>1. IsFiniteSet(DOMAIN Entries)
      BY EntriesAssumption, RangeFinite
    <3> QED BY <1>1, <3>1, FS_Subset
  <2>4. IsFiniteSet(U)
    BY <2>2, <2>3, FS_Subset, FS_AddElement
  <2> QED BY <1>1, <2>1, <2>2, <2>4
<1>5. \A i \in I, e \in U : Q[i][e] \in Nat
  BY <1>3, <1>4 DEF IsCovered
<1>6. \A i \in I : SumAt([e \in U |-> Q[i][e]], U) = shares[i].quantity
  <2> SUFFICES ASSUME NEW i \in I PROVE SumAt([e \in U |-> Q[i][e]], U) = shares[i].quantity
    OBVIOUS
  <2> DEFINE T == [e \in U |-> Q[i][e]]
  <2>1. SumAt(Q[i], U) = shares[i].quantity
    BY <1>3 DEF IsCovered
  <2>2. \A e \in U : T[e] = Q[i][e]
    OBVIOUS
  <2> HIDE DEF T, Q, U
  <2>3. SumAt(T, U) = SumAt(Q[i], U)
    BY <1>4, <2>2, SumSame
  <2> QED BY <2>1, <2>3 DEF T
<1> HIDE DEF Q, U
<1>7. AreCut(D, I, U, Q, shares)
  BY <1>4, <1>5 DEF AreCut
<1> HIDE DEF D
<1>8. AreDetails(D) /\ AllocationsAgree(D, shares)
  BY <1>1, <1>6, <1>7, CutsAreDetails, CutsAgree
<1>9. ASSUME NEW e \in used
      PROVE  /\ e \in DOMAIN Entries /\ Entries[e].key = key
             /\ line.applied[e] \in Nat /\ line.applied[e] <= left[e]
  <2> DEFINE s == LeftUpto(left, mine, e) - left[e]
             t == LeftUpto(left, mine, e)
  <2>1. e \in mine /\ e \in DOMAIN Entries /\ Entries[e].key = key /\ left[e] \in Nat /\ e # None
    BY <1>1, <1>4, EntriesAssumption DEF MineOf, mine
  <2>2. AreLaid(mine, left)
    BY <1>1, EntriesLaid
  <2>3. s \in Nat /\ t \in Nat /\ s <= t /\ t - s = left[e]
    <3>1. e \in 1 .. Len(Entries)
      BY <2>1, <2>2, Zenon DEF AreLaid
    <3> HIDE DEF mine
    <3>2. LeftUpto(left, mine, e) = LeftUpto(left, mine, e - 1) + (IF e \in mine THEN left[e] ELSE 0)
      BY <2>2, <3>1, Zenon DEF AreLaid
    <3>3. LeftUpto(left, mine, e - 1) \in Nat
      <4>1. e - 1 \in Nat
        BY <2>2, <3>1 DEF AreLaid
      <4>2. \A n \in Nat : LeftUpto(left, mine, n) \in Nat
        BY <2>2, Zenon DEF AreLaid
      <4> QED BY <4>1, <4>2, Zenon
    <3> QED BY <2>1, <3>2, <3>3
  <2>4. Span(e) = <<s + 1, t>>
    BY <2>1 DEF Span, SourceSpan
  <2>5. planned \in Nat
    <3>1. \A i \in I : shares[i].quantity \in Nat
      BY <1>1 DEF AreShares
    <3>2. \A i \in I : [j \in I |-> shares[j].quantity][i] \in Nat
      BY <3>1
    <3>3. SharedUnits(shares, I) \in Nat
      BY <1>4, <3>2, SumType DEF SharedUnits
    <3> QED BY <1>1, <3>3
  <2> HIDE DEF s, t
  <2>6. 0 \in Nat /\ 0 <= planned /\ 0 + 1 = 1
    BY <2>5
  <2>7. Overlap(<<0 + 1, planned>>, <<s + 1, t>>) \in Nat /\ Overlap(<<0 + 1, planned>>, <<s + 1, t>>) <= t - s
    BY <2>3, <2>5, <2>6, OverlapBefore
  <2>8. line.applied[e] = Overlap(<<1, planned>>, <<s + 1, t>>)
    BY <1>2, <2>4
  <2> QED BY <2>1, <2>3, <2>6, <2>7, <2>8
<1>10. DOMAIN line.applied = used
  BY <1>2
<1> QED BY <1>2, <1>8, <1>9, <1>10 DEF LineFits, line, shares

----------------------------------------------------------------------------
(* The sequences of a sequence joined into one, in the order in which they are joined. *)
Joining(s, n, F) == F = [i \in 1 .. n |-> IF i = 1 THEN s[i] ELSE F[i - 1] \o s[i]]

LEMMA JoiningExists == \A s : \A n \in Nat : \E F : Joining(s, n, F)
<1>. SUFFICES ASSUME NEW s PROVE \A n \in Nat : \E F : Joining(s, n, F)
  OBVIOUS
<1>. DEFINE G == {n \in Nat : \E F : Joining(s, n, F)}
<1>1. 0 \in G
  <2>. DEFINE E == [i \in 1 .. 0 |-> s]
  <2>1. E = [i \in 1 .. 0 |-> IF i = 1 THEN s[i] ELSE E[i - 1] \o s[i]]
    OBVIOUS
  <2>. HIDE DEF E
  <2>2. Joining(s, 0, E)
    BY <2>1 DEF Joining
  <2>. QED  BY <2>2
<1>2. ASSUME NEW n \in Nat, n \in G PROVE n + 1 \in G
  <2>1. PICK F : Joining(s, n, F)
    BY <1>2
  <2>. DEFINE last == IF n + 1 = 1 THEN s[n + 1] ELSE F[n] \o s[n + 1]
              E == [i \in 1 .. (n + 1) |-> IF i = n + 1 THEN last ELSE F[i]]
  <2>2. /\ DOMAIN F = 1 .. n
        /\ \A i \in 1 .. n : F[i] = IF i = 1 THEN s[i] ELSE F[i - 1] \o s[i]
    BY <2>1 DEF Joining
  <2>3. /\ \A i \in 1 .. n : E[i] = F[i]
        /\ E[n + 1] = last
    <3>1. n + 1 \in 1 .. (n + 1) /\ \A i \in 1 .. n : i \in 1 .. (n + 1) /\ i # n + 1
      BY <1>2
    <3>. HIDE DEF last
    <3>. QED  BY <3>1
  <2>4. ASSUME NEW i \in 1 .. (n + 1)
        PROVE  E[i] = IF i = 1 THEN s[i] ELSE E[i - 1] \o s[i]
    <3>1. CASE i = n + 1
      <4>1. i # 1 => i - 1 = n /\ n \in 1 .. n
        BY <1>2, <3>1
      <4>. HIDE DEF E
      <4>. QED  BY <2>3, <3>1, <4>1
    <3>2. CASE i # n + 1
      <4>1. i \in 1 .. n
        BY <1>2, <3>2
      <4>2. i # 1 => i - 1 \in 1 .. n
        BY <1>2, <4>1
      <4>. HIDE DEF E
      <4>. QED  BY <2>2, <2>3, <4>1, <4>2
    <3>. QED  BY <3>1, <3>2
  <2>5. DOMAIN E = 1 .. (n + 1) /\ E = [i \in 1 .. (n + 1) |-> E[i]]
    OBVIOUS
  <2>. HIDE DEF E
  <2>6. Joining(s, n + 1, E)
    BY <2>4, <2>5 DEF Joining
  <2>. QED  BY <1>2, <2>6
<1>. HIDE DEF G
<1>3. Nat \subseteq G
  BY <1>1, <1>2, NaturalInduction
<1>. QED  BY <1>3 DEF G

(* Sequences over a set join into one over that set (FlattenSeq, which keeps the order). *)
LEMMA FlattenType ==
  ASSUME NEW S, NEW s, Len(s) \in Nat, \A i \in 1 .. Len(s) : s[i] \in Seq(S), s = <<>> \/ Len(s) # 0
  PROVE  FlattenSeq(s) \in Seq(S)
<1>. DEFINE F == CHOOSE f : Joining(s, Len(s), f)
            G == {n \in Nat : n \in 1 .. Len(s) => F[n] \in Seq(S)}
<1>1. Joining(s, Len(s), F)
  BY JoiningExists
<1>2. FlattenSeq(s) = IF Len(s) = 0 THEN s ELSE F[Len(s)]
  BY DEF FlattenSeq, Joining
<1>. HIDE DEF F
<1>3. \A i \in 1 .. Len(s) : F[i] = IF i = 1 THEN s[i] ELSE F[i - 1] \o s[i]
  BY <1>1 DEF Joining
<1>4. 0 \in G
  OBVIOUS
<1>5. ASSUME NEW n \in Nat, n \in G PROVE n + 1 \in G
  <2>. SUFFICES ASSUME n + 1 \in 1 .. Len(s) PROVE F[n + 1] \in Seq(S)
    OBVIOUS
  <2>1. CASE n = 0
    BY <1>3, <2>1
  <2>2. CASE n # 0
    <3>1. n \in 1 .. Len(s) /\ n + 1 # 1 /\ (n + 1) - 1 = n
      BY <2>2
    <3>2. F[n] \in Seq(S) /\ s[n + 1] \in Seq(S)
      BY <1>5, <3>1
    <3>3. F[n] \o s[n + 1] \in Seq(S)
      BY <3>2, ConcatProperties
    <3>. QED  BY <1>3, <3>1, <3>3
  <2>. QED  BY <2>1, <2>2
<1>. HIDE DEF G
<1>6. Nat \subseteq G
  BY <1>4, <1>5, NaturalInduction
<1>7. CASE Len(s) = 0
  <2>1. FlattenSeq(s) = <<>>
    BY <1>2, <1>7
  <2>. QED  BY <2>1, EmptySeq
<1>8. CASE Len(s) # 0
  <2>1. Len(s) \in G /\ Len(s) \in 1 .. Len(s)
    BY <1>6, <1>8
  <2>. QED  BY <1>2, <1>8, <2>1 DEF G
<1>. QED  BY <1>7, <1>8

(* A finite set laid out in a sequence. *)
LEMMA LaidOut == ASSUME NEW S, IsFiniteSet(S) PROVE SetToSeq(S) \in Seq(S)
<1>. DEFINE n == Cardinality(S)
<1>1. n \in Nat /\ ExistsBijection(1 .. n, S)
  BY FS_CardinalityType
<1>2. PICK f \in [1 .. n -> S] : \A a, b \in 1 .. n : f[a] = f[b] => a = b
  <2>1. PICK f : f \in Bijection(1 .. n, S)
    BY <1>1 DEF ExistsBijection
  <2>. QED  BY <2>1 DEF Bijection, Injection, IsInjective
<1>3. IsInjective(f)
  BY <1>2 DEF IsInjective
<1>4. SetToSeq(S) \in [1 .. n -> S]
  BY <1>2, <1>3 DEF SetToSeq
<1>. QED  BY <1>1, <1>4, SeqDef

----------------------------------------------------------------------------
(* A delivery CSV that is there: its quantities are numbers. *)
CsvFits(csv) ==
  /\ IsFiniteSet(DOMAIN csv)
  /\ \A i \in DOMAIN csv : \A s \in DOMAIN csv[i].parts : csv[i].parts[s] \in Nat

(* A SKU that is in the totals has units in them. *)
LEMMA TotalsPositive ==
  ASSUME NEW csv, CsvFits(csv), NEW s \in DOMAIN SkuTotals(csv)
  PROVE  SkuTotals(csv)[s] \in Nat /\ SkuTotals(csv)[s] > 0
<1> DEFINE F == [i \in DOMAIN csv |-> PartOf(csv[i], s)]
           total == SumAt(F, DOMAIN csv)
<1>1. SkuTotals(csv)[s] = total /\ total > 0
  BY DEF SkuTotals
<1>2. \A i \in DOMAIN csv : F[i] \in Nat
  BY DEF CsvFits, PartOf
<1>3. total \in Nat
  <2> HIDE DEF F
  <2> QED BY <1>2, SumType DEF CsvFits
<1> QED BY <1>1, <1>3

(* What is known of the lines of an intent: a line for each supplier and model of its products,
   and every share of a line is a number of units of a product the order has. *)
IntentHas(sps, csvs, lines) ==
  /\ DOMAIN lines = {LineKey(p) : p \in PlannedProducts(sps, csvs, Master)}
  /\ IsFiniteSet(DOMAIN lines)
  /\ \A k \in DOMAIN lines :
       /\ IntentFits(lines[k])
       /\ \A i \in DOMAIN lines[k].shares :
            /\ lines[k].shares[i].sp \in Range(sps)
            /\ \E p \in PlannedProducts(<<lines[k].shares[i].sp>>, csvs, Master) : LineKey(p) = k

LEMMA ProductsFinite ==
  ASSUME NEW sps, NEW csvs
  PROVE  IsFiniteSet({LineKey(p) : p \in PlannedProducts(sps, csvs, Master)}) /\ IsFiniteSet(TrackedSkus(Master))
<1> DEFINE n == Len(Master.products)
           R == Range(Master.products)
           skus == UNION {PlannedSkus(csvs[sp], Master) : sp \in Range(sps)}
           sku == [p \in R |-> p.sku]
           key == [s \in TrackedSkus(Master) |-> LineKey(ProductOf(Master, s))]
<1>1. n \in Nat /\ DOMAIN Master.products = 1 .. n
  BY MasterAssumption, LenProperties
<1>2. IsFiniteSet(DOMAIN Master.products)
  BY <1>1, RangeFinite
<1>3. IsFiniteSet(R)
  <2> DEFINE f == Master.products
  <2>1. R = {f[i] : i \in DOMAIN f}
    BY DEF Range
  <2> HIDE DEF R, f
  <2>2. IsFiniteSet({f[i] : i \in DOMAIN f})
    BY <1>2, ImageFinite DEF f
  <2> QED BY <2>1, <2>2
<1>4. TrackedSkus(Master) = {sku[p] : p \in R}
  BY DEF TrackedSkus
<1>5. IsFiniteSet(TrackedSkus(Master))
  <2> HIDE DEF R, sku
  <2> QED BY <1>3, <1>4, ImageFinite
<1>6. skus \subseteq TrackedSkus(Master)
  BY DEF PlannedSkus
<1>7. {LineKey(p) : p \in PlannedProducts(sps, csvs, Master)} \subseteq {key[s] : s \in TrackedSkus(Master)}
  BY <1>6 DEF PlannedProducts
<1>8. IsFiniteSet({key[s] : s \in TrackedSkus(Master)})
  <2> HIDE DEF key
  <2> QED BY <1>5, ImageFinite
<1> QED BY <1>5, <1>7, <1>8, FS_Subset

(* The lines of an intent have a share for each SKU of each order, and are as large as their shares. *)
LEMMA IntentHolds ==
  ASSUME NEW sps, sps \in Seq(Range(sps)), NEW csvs, \A sp \in Range(sps) : CsvFits(csvs[sp])
  PROVE  IntentHas(sps, csvs, IntentLines(sps, csvs, Master))
<1> DEFINE products == PlannedProducts(sps, csvs, Master)
           lines == IntentLines(sps, csvs, Master)
<1>1. DOMAIN lines = {LineKey(p) : p \in products}
  BY DEF IntentLines
<1>2. IsFiniteSet(DOMAIN lines)
  BY <1>1, ProductsFinite
<1>3. ASSUME NEW k \in DOMAIN lines
      PROVE  /\ IntentFits(lines[k])
             /\ \A i \in DOMAIN lines[k].shares :
                  /\ lines[k].shares[i].sp \in Range(sps)
                  /\ \E p \in PlannedProducts(<<lines[k].shares[i].sp>>, csvs, Master) : LineKey(p) = k
  <2> DEFINE Of == {p \in products : LineKey(p) = k}
             Skus(sp) == {p.sku : p \in Of} \cap PlannedSkus(csvs[sp], Master)
             InSp(sp) == SetToSeq(Skus(sp))
             Share(sp) == [i \in DOMAIN InSp(sp) |->
                             [sp |-> sp, sku |-> InSp(sp)[i], quantity |-> SkuTotals(csvs[sp])[InSp(sp)[i]]]]
             all == [i \in DOMAIN sps |-> Share(sps[i])]
             shares == FlattenSeq(all)
             IsShare(r) == /\ r.quantity \in Nat /\ r.quantity > 0 /\ r.sp \in Range(sps)
                           /\ \E p \in PlannedProducts(<<r.sp>>, csvs, Master) : LineKey(p) = k
             S == {r \in [sp : Range(sps), sku : TrackedSkus(Master), quantity : Nat] : IsShare(r)}
  <2>1. lines[k].shares = shares /\ lines[k].planned = SharedUnits(shares, DOMAIN shares)
    BY <1>1 DEF IntentLines
  <2>2. Len(sps) \in Nat /\ DOMAIN sps = 1 .. Len(sps) /\ \A i \in DOMAIN sps : sps[i] \in Range(sps)
    BY LenProperties DEF Range
  <2>3. ASSUME NEW sp \in Range(sps)
        PROVE  Share(sp) \in Seq(S)
    <3>1. Skus(sp) \subseteq TrackedSkus(Master) /\ IsFiniteSet(Skus(sp))
      <4>1. Skus(sp) \subseteq TrackedSkus(Master)
        BY DEF PlannedSkus
      <4>2. IsFiniteSet(TrackedSkus(Master))
        BY ProductsFinite
      <4> QED BY <4>1, <4>2, FS_Subset
    <3>2. InSp(sp) \in Seq(Skus(sp))
      <4> HIDE DEF Skus
      <4> QED BY <3>1, LaidOut
    <3>3. ASSUME NEW s \in Skus(sp)
          PROVE  [sp |-> sp, sku |-> s, quantity |-> SkuTotals(csvs[sp])[s]] \in S
      <4> DEFINE q == SkuTotals(csvs[sp])[s]
                 r == [sp |-> sp, sku |-> s, quantity |-> q]
      <4>1. s \in DOMAIN SkuTotals(csvs[sp]) /\ s \in PlannedSkus(csvs[sp], Master) /\ \E p \in Of : p.sku = s
        BY DEF PlannedSkus
      <4>2. q \in Nat /\ q > 0
        BY <4>1, TotalsPositive
      <4>3. Range(<<sp>>) = {sp}
        BY DEF Range
      <4>4. ProductOf(Master, s) \in PlannedProducts(<<sp>>, csvs, Master)
        BY <4>1, <4>3 DEF PlannedProducts
      <4>5. LineKey(ProductOf(Master, s)) = k
        <5>1. PICK p \in products : LineKey(p) = k /\ p.sku = s
          BY <4>1
        <5>2. PICK t \in TrackedSkus(Master) : p = ProductOf(Master, t)
          BY <5>1 DEF PlannedProducts, PlannedSkus
        <5>3. p.sku = t
          BY <5>2 DEF TrackedSkus, ProductOf
        <5> QED BY <5>1, <5>2, <5>3
      <4> SUFFICES r \in S
        OBVIOUS
      <4> HIDE DEF q
      <4>6. r.sp = sp /\ r.quantity = q /\ r \in [sp : Range(sps), sku : TrackedSkus(Master), quantity : Nat]
        BY <3>1, <4>2
      <4> HIDE DEF r
      <4>7. IsShare(r)
        BY <4>2, <4>4, <4>5, <4>6
      <4> HIDE DEF IsShare
      <4> QED BY <4>6, <4>7
    <3> DEFINE n == Len(InSp(sp))
    <3>4. n \in Nat /\ DOMAIN InSp(sp) = 1 .. n /\ \A i \in 1 .. n : InSp(sp)[i] \in Skus(sp)
      <4> HIDE DEF Skus
      <4> QED BY <3>2, LenProperties, ElementOfSeq
    <3>5. Share(sp) \in [1 .. n -> S]
      <4> HIDE DEF S, InSp, Skus, n
      <4> QED BY <3>3, <3>4
    <3> HIDE DEF S, InSp, Share, n
    <3> QED BY <3>4, <3>5, SeqDef
  <2> HIDE DEF Share, S
  <2>4. Len(all) \in Nat /\ (all = <<>> \/ Len(all) # 0) /\ \A i \in 1 .. Len(all) : all[i] \in Seq(S)
    <3>1. all \in [1 .. Len(sps) -> Seq(S)]
      BY <2>2, <2>3
    <3>2. all \in Seq(Seq(S)) /\ Len(all) = Len(sps)
      BY <2>2, <3>1, LenProperties, SeqDef
    <3> HIDE DEF all
    <3>3. all = <<>> \/ Len(all) # 0
      BY <3>2, EmptySeq
    <3> QED BY <2>2, <3>1, <3>2, <3>3
  <2>5. shares \in Seq(S)
    <3> HIDE DEF all
    <3> QED BY <2>4, FlattenType
  <2> HIDE DEF shares
  <2>6. Len(shares) \in Nat /\ DOMAIN shares = 1 .. Len(shares) /\ \A i \in DOMAIN shares : shares[i] \in S
    BY <2>5, LenProperties, ElementOfSeq
  <2>7. \A i \in DOMAIN shares : IsShare(shares[i])
    BY <2>6 DEF S
  <2>8. AreShares(shares)
    BY <2>6, <2>7 DEF AreShares
  <2> QED BY <2>1, <2>7, <2>8 DEF IntentFits
<1> QED BY <1>1, <1>2, <1>3 DEF IntentHas

(* Products are planned of what the CSVs of the orders say, and of nothing else. *)
LEMMA SameProducts ==
  ASSUME NEW sps, NEW csvs, NEW others, \A sp \in Range(sps) : csvs[sp] = others[sp]
  PROVE  /\ PlannedProducts(sps, csvs, Master) = PlannedProducts(sps, others, Master)
         /\ \A sp \in Range(sps) : PlannedProducts(<<sp>>, csvs, Master) = PlannedProducts(<<sp>>, others, Master)
<1>1. ASSUME NEW S, S \subseteq Range(sps)
      PROVE  {PlannedSkus(csvs[sp], Master) : sp \in S} = {PlannedSkus(others[sp], Master) : sp \in S}
  BY <1>1
<1>2. \A sp \in Range(sps) : Range(<<sp>>) = {sp}
  BY DEF Range
<1>3. PlannedProducts(sps, csvs, Master) = PlannedProducts(sps, others, Master)
  BY <1>1 DEF PlannedProducts
<1>4. ASSUME NEW sp \in Range(sps)
      PROVE  PlannedProducts(<<sp>>, csvs, Master) = PlannedProducts(<<sp>>, others, Master)
  BY <1>1, <1>2 DEF PlannedProducts
<1> QED BY <1>3, <1>4

(* An intent depends on the files of its own orders alone. *)
LEMMA SameIntent ==
  ASSUME NEW sps, NEW csvs, NEW others, \A sp \in Range(sps) : csvs[sp] = others[sp],
         NEW lines, IntentHas(sps, csvs, lines)
  PROVE  IntentHas(sps, others, lines)
<1>1. /\ PlannedProducts(sps, csvs, Master) = PlannedProducts(sps, others, Master)
      /\ \A sp \in Range(sps) : PlannedProducts(<<sp>>, csvs, Master) = PlannedProducts(<<sp>>, others, Master)
  BY SameProducts
<1>2. ASSUME NEW k \in DOMAIN lines
      PROVE  /\ IntentFits(lines[k])
             /\ \A i \in DOMAIN lines[k].shares :
                  /\ lines[k].shares[i].sp \in Range(sps)
                  /\ \E p \in PlannedProducts(<<lines[k].shares[i].sp>>, others, Master) : LineKey(p) = k
  <2> SUFFICES ASSUME NEW i \in DOMAIN lines[k].shares
               PROVE  /\ lines[k].shares[i].sp \in Range(sps)
                      /\ \E p \in PlannedProducts(<<lines[k].shares[i].sp>>, others, Master) : LineKey(p) = k
    BY DEF IntentHas
  <2> DEFINE sp == lines[k].shares[i].sp
  <2>1. sp \in Range(sps) /\ \E p \in PlannedProducts(<<sp>>, csvs, Master) : LineKey(p) = k
    BY DEF IntentHas
  <2> QED BY <1>1, <2>1
<1> QED BY <1>1, <1>2 DEF IntentHas

(* The products of one order are products of them all. *)
LEMMA ProductsOfOne ==
  ASSUME NEW sps, NEW csvs, NEW sp \in Range(sps)
  PROVE  PlannedProducts(<<sp>>, csvs, Master) \subseteq PlannedProducts(sps, csvs, Master)
<1>1. Range(<<sp>>) = {sp}
  BY DEF Range
<1> QED BY <1>1 DEF PlannedProducts

----------------------------------------------------------------------------
(* A line as the ERP writes it, and what it takes of the entries. *)
LineIs(line) ==
  /\ line = [planned |-> line.planned, carryover |-> line.carryover, purchase |-> line.purchase,
             details |-> line.details, applied |-> line.applied]
  /\ \A d \in line.details :
       d = [share |-> d.share, sp |-> d.sp, sku |-> d.sku, entry |-> d.entry, quantity |-> d.quantity]
  /\ \A e \in DOMAIN line.applied : line.applied[e] \in Nat

LinesFit(lines, asked) ==
  /\ DOMAIN lines = DOMAIN asked
  /\ \A k \in DOMAIN asked : LineIs(lines[k]) /\ LineFits(lines[k], asked[k])

(* What is known of a request: its lines are those of its own files. *)
RequestFits(r) ==
  /\ r.sps \in Seq(DOMAIN Downloads)
  /\ \A sp \in Range(r.sps) : sp \in DOMAIN r.files /\ r.files[sp].content \in DOMAIN Contents
  /\ IntentHas(r.sps, Csvs(r.files), r.lines)

BatchFits(b) ==
  RequestFits(b.request) /\ LinesFit(b.answer.lines, b.request.lines) /\ b.answer.sps = b.request.sps

(* What is known of the command in progress: before its batch is answered it may plan, and the
   answer it writes down accounts for every share. *)
CommandFits ==
  command # Idle =>
    /\ RequestFits(command.request)
    /\ command.request.replace \in {None} \cup DOMAIN batches
    /\ command.phase = "write" => LinesFit(command.answer.lines, command.request.lines)

FilesFit ==
  DOMAIN files = DOMAIN Downloads /\ \A sp \in DOMAIN Downloads : files[sp].content \in DOMAIN Contents

WorldFits ==
  /\ FilesFit
  /\ stock \in [DOMAIN Entries -> Nat]
  /\ shown.conflicts \subseteq DOMAIN batches
  /\ \A n \in DOMAIN batches : BatchFits(batches[n])

PlanInv == WorldFits /\ CommandFits /\ SuccessHoldsThePlan

----------------------------------------------------------------------------
(* What lines take of an entry is a number; and lines that each take only of the entries of
   their own model take of an entry no more than one of them does. *)
LEMMA TakenIsNat ==
  ASSUME NEW lines, IsFiniteSet(DOMAIN lines), \A k \in DOMAIN lines : LineIs(lines[k]), NEW e
  PROVE  TakenOf(lines, e) \in Nat
<1> DEFINE F == [k \in DOMAIN lines |-> IF e \in DOMAIN lines[k].applied THEN lines[k].applied[e] ELSE 0]
<1>1. \A k \in DOMAIN lines : F[k] \in Nat
  BY DEF LineIs
<1>2. TakenOf(lines, e) = SumAt(F, DOMAIN lines)
  BY DEF TakenOf
<1> HIDE DEF F
<1> QED BY <1>1, <1>2, SumType

TakesItsOwn(line, k, left) ==
  \A e \in DOMAIN line.applied :
    /\ e \in DOMAIN Entries /\ Entries[e].key = k
    /\ line.applied[e] \in Nat /\ line.applied[e] <= left[e]

LEMMA TakenOnce ==
  ASSUME NEW lines, IsFiniteSet(DOMAIN lines), NEW left \in [DOMAIN Entries -> Nat],
         \A k \in DOMAIN lines : TakesItsOwn(lines[k], k, left), NEW e \in DOMAIN Entries
  PROVE  TakenOf(lines, e) \in Nat /\ TakenOf(lines, e) <= left[e]
<1> DEFINE K == DOMAIN lines
           F == [k \in K |-> IF e \in DOMAIN lines[k].applied THEN lines[k].applied[e] ELSE 0]
           key == Entries[e].key
<1>1. \A k \in K : F[k] \in Nat /\ F[k] <= left[e] /\ (k # key => F[k] = 0)
  <2>1. left[e] \in Nat /\ 0 <= left[e]
    OBVIOUS
  <2> QED BY <2>1 DEF TakesItsOwn
<1>2. TakenOf(lines, e) = SumAt(F, K)
  BY DEF TakenOf
<1>3. left[e] \in Nat
  OBVIOUS
<1> HIDE DEF F, key
<1>4. CASE key \in K
  <2>1. \A k \in K \ {key} : F[k] = 0
    BY <1>1
  <2>2. IsFiniteSet(K \ {key})
    BY FS_Subset
  <2> HIDE DEF K
  <2>3. SumAt(F, K) = F[key] + SumAt(F, K \ {key})
    BY <1>1, <1>4, SumRemove DEF K
  <2>4. SumAt(F, K \ {key}) = 0
    BY <2>1, <2>2, SumZeros
  <2>5. F[key] \in Nat /\ F[key] <= left[e]
    BY <1>1, <1>4
  <2>6. SumAt(F, K) = F[key]
    BY <2>3, <2>4, <2>5
  <2> QED BY <1>2, <2>5, <2>6
<1>5. CASE key \notin K
  <2>1. \A k \in K : F[k] = 0
    BY <1>1, <1>5
  <2>2. SumAt(F, K) = 0
    BY <2>1, SumZeros
  <2> QED BY <1>2, <1>3, <2>2
<1> QED BY <1>4, <1>5

LEMMA ErpLineIs ==
  ASSUME NEW key, NEW asked, IntentFits(asked), NEW left \in [DOMAIN Entries -> Nat], NEW mode
  PROVE  /\ LineIs(ErpLine(key, asked, left, mode))
         /\ TakesItsOwn(ErpLine(key, asked, left, mode), key, left)
<1> DEFINE line == ErpLine(key, asked, left, mode)
<1>1. line = [planned |-> line.planned, carryover |-> line.carryover, purchase |-> line.purchase,
              details |-> line.details, applied |-> line.applied]
  BY DEF ErpLine
<1>2. \A d \in line.details :
        d = [share |-> d.share, sp |-> d.sp, sku |-> d.sku, entry |-> d.entry, quantity |-> d.quantity]
  BY DEF ErpLine
<1>3. TakesItsOwn(line, key, left)
  BY ErpLineHolds DEF TakesItsOwn
<1> HIDE DEF line
<1> QED BY <1>1, <1>2, <1>3 DEF LineIs, TakesItsOwn, line

(* What the ERP plans fits what it is asked, and can be taken. *)
LEMMA PlanFits ==
  ASSUME stock \in [DOMAIN Entries -> Nat], \A n \in DOMAIN batches : BatchFits(batches[n]),
         NEW request, RequestFits(request), request.replace \in {None} \cup DOMAIN batches
  PROVE  /\ LinesFit(Plan(request), request.lines)
         /\ StockFor(request) \in [DOMAIN Entries -> Nat]
         /\ \A e \in DOMAIN Entries :
              TakenOf(Plan(request), e) \in Nat /\ TakenOf(Plan(request), e) <= StockFor(request)[e]
<1> DEFINE left == StockFor(request)
           lines == Plan(request)
           mode == IF knowsModes THEN request.mode ELSE "fifo"
<1>1. left \in [DOMAIN Entries -> Nat]
  <2>1. ASSUME NEW e \in DOMAIN Entries, request.replace # None
        PROVE  TakenOf(batches[request.replace].answer.lines, e) \in Nat
    <3> DEFINE b == batches[request.replace]
    <3>1. BatchFits(b)
      BY <2>1
    <3> HIDE DEF b
    <3>2. IsFiniteSet(DOMAIN b.answer.lines) /\ \A k \in DOMAIN b.answer.lines : LineIs(b.answer.lines[k])
      BY <3>1 DEF BatchFits, LinesFit, RequestFits, IntentHas
    <3>3. TakenOf(b.answer.lines, e) \in Nat
      BY <3>2, TakenIsNat
    <3> QED BY <3>3 DEF b
  <2> QED BY <2>1 DEF StockFor
<1>2. /\ DOMAIN lines = DOMAIN request.lines
      /\ \A k \in DOMAIN lines : lines[k] = ErpLine(k, request.lines[k], left, mode)
  BY DEF Plan
<1>3. \A k \in DOMAIN request.lines : IntentFits(request.lines[k])
  BY DEF RequestFits, IntentHas
<1>4. IsFiniteSet(DOMAIN lines)
  BY <1>2 DEF RequestFits, IntentHas
<1> HIDE DEF left, lines, mode
<1>5. \A k \in DOMAIN lines : LineIs(lines[k]) /\ TakesItsOwn(lines[k], k, left) /\ LineFits(lines[k], request.lines[k])
  <2> TAKE k \in DOMAIN lines
  <2> DEFINE asked == request.lines[k]
  <2>1. IntentFits(asked) /\ lines[k] = ErpLine(k, asked, left, mode)
    BY <1>2, <1>3
  <2> HIDE DEF asked
  <2>2. LineFits(ErpLine(k, asked, left, mode), asked)
    BY <1>1, <2>1, ErpLineHolds
  <2>3. LineIs(ErpLine(k, asked, left, mode)) /\ TakesItsOwn(ErpLine(k, asked, left, mode), k, left)
    BY <1>1, <2>1, ErpLineIs
  <2> QED BY <2>1, <2>2, <2>3 DEF asked
<1>6. LinesFit(lines, request.lines)
  BY <1>2, <1>5 DEF LinesFit
<1>7. \A e \in DOMAIN Entries : TakenOf(lines, e) \in Nat /\ TakenOf(lines, e) <= left[e]
  BY <1>1, <1>4, <1>5, TakenOnce
<1> QED BY <1>1, <1>6, <1>7 DEF left, lines

(* An answer of the ERP that is accepted accounts for every share, whatever the ERP did to it. *)
LEMMA AnswersFit ==
  ASSUME NEW request, NEW lines, LinesFit(lines, request.lines), NEW n, NEW preview,
         NEW answer \in Answers(request, lines, n), ValidAnswer(answer, request, preview)
  PROVE  LinesFit(answer.lines, request.lines)
<1> DEFINE ls == answer.lines
           OneSp(sp) == [k \in DOMAIN lines |-> [lines[k] EXCEPT !.details = {[d EXCEPT !.sp = sp] : d \in @}]]
           Less(k) == [l \in DOMAIN lines \ {k} |-> lines[l]]
<1>1. /\ DOMAIN ls = DOMAIN request.lines
      /\ \A k \in DOMAIN request.lines : AllocationsAgree(ls[k].details, request.lines[k].shares)
  BY DEF ValidAnswer, ValidLine
<1>2. \A k \in DOMAIN lines : LineIs(lines[k]) /\ AreDetails(lines[k].details)
  BY DEF LinesFit, LineFits
<1>3. ls = lines \/ ls = OneSp(request.sps[1]) \/ \E k : ls = Less(k)
  <2>1. PICK l \in {lines} \cup {OneSp(request.sps[1]), Less(CHOOSE k \in DOMAIN lines : TRUE)} :
          answer = Answer(request, l, n)
    BY DEF Answers
  <2>2. ls = l
    BY <2>1 DEF Answer
  <2> HIDE DEF ls, OneSp, Less
  <2> QED BY <2>1, <2>2
<1>4. ASSUME NEW k \in DOMAIN ls
      PROVE  LineIs(ls[k]) /\ AreDetails(ls[k].details)
  <2>1. CASE ls = lines \/ \E l : ls = Less(l)
    BY <1>2, <2>1
  <2>2. CASE ls = OneSp(request.sps[1])
    <3> DEFINE sp == request.sps[1]
               line == lines[k]
               D == line.details
               f == [d \in D |-> [d EXCEPT !.sp = sp]]
    <3>1. k \in DOMAIN lines
      BY <2>2
    <3>2. LineIs(line) /\ AreDetails(D)
      BY <1>2, <3>1
    <3> DEFINE E == {f[d] : d \in D}
    <3>3. ls[k] = [line EXCEPT !.details = {[d EXCEPT !.sp = sp] : d \in D}]
      BY <2>2, <3>1
    <3>4. {[d EXCEPT !.sp = sp] : d \in D} = E
      OBVIOUS
    <3>5. \A d \in D : f[d] = [share |-> d.share, sp |-> sp, sku |-> d.sku, entry |-> d.entry, quantity |-> d.quantity]
      <4> TAKE d \in D
      <4>1. d = [share |-> d.share, sp |-> d.sp, sku |-> d.sku, entry |-> d.entry, quantity |-> d.quantity]
        BY <3>2 DEF LineIs
      <4>2. f[d] = [d EXCEPT !.sp = sp]
        OBVIOUS
      <4> HIDE DEF f
      <4> QED BY <4>1, <4>2
    <3> HIDE DEF f
    <3>6. IsFiniteSet(E)
      BY <3>2, ImageFinite DEF AreDetails
    <3>7. \A x \in E : /\ x = [share |-> x.share, sp |-> x.sp, sku |-> x.sku, entry |-> x.entry, quantity |-> x.quantity]
                       /\ x.quantity \in Nat /\ x.quantity > 0 /\ x.entry \in {None} \cup DOMAIN Entries
      <4> SUFFICES ASSUME NEW d \in D
                   PROVE  LET x == f[d]
                          IN /\ x = [share |-> x.share, sp |-> x.sp, sku |-> x.sku, entry |-> x.entry, quantity |-> x.quantity]
                             /\ x.quantity \in Nat /\ x.quantity > 0 /\ x.entry \in {None} \cup DOMAIN Entries
        OBVIOUS
      <4>1. d.quantity \in Nat /\ d.quantity > 0 /\ d.entry \in {None} \cup DOMAIN Entries
        BY <3>2 DEF AreDetails
      <4> DEFINE x == f[d]
      <4>2. x = [share |-> d.share, sp |-> sp, sku |-> d.sku, entry |-> d.entry, quantity |-> d.quantity]
        BY <3>5
      <4> HIDE DEF x
      <4>3. x.share = d.share /\ x.sp = sp /\ x.sku = d.sku /\ x.entry = d.entry /\ x.quantity = d.quantity
        BY <4>2
      <4>4. x = [share |-> x.share, sp |-> x.sp, sku |-> x.sku, entry |-> x.entry, quantity |-> x.quantity]
        BY <4>2, <4>3
      <4>5. x.quantity \in Nat /\ x.quantity > 0 /\ x.entry \in {None} \cup DOMAIN Entries
        BY <4>1, <4>3
      <4> QED BY <4>4, <4>5 DEF x
    <3>8. AreDetails(E)
      BY <3>6, <3>7 DEF AreDetails
    <3>9. ls[k] = [line EXCEPT !.details = E]
      BY <3>3, <3>4
    <3> HIDE DEF E, D, ls, line
    <3>10. line = [planned |-> line.planned, carryover |-> line.carryover, purchase |-> line.purchase,
                   details |-> line.details, applied |-> line.applied]
      BY <3>2 DEF LineIs
    <3>11. ls[k] = [planned |-> line.planned, carryover |-> line.carryover, purchase |-> line.purchase,
                   details |-> E, applied |-> line.applied]
      BY <3>9, <3>10
    <3>12. ls[k].details = E /\ ls[k].applied = line.applied
      BY <3>11
    <3>13. LineIs(ls[k])
      BY <3>2, <3>7, <3>11, <3>12 DEF LineIs
    <3> QED BY <3>8, <3>12, <3>13
  <2> QED BY <1>3, <2>1, <2>2
<1> QED BY <1>1, <1>4 DEF LinesFit, LineFits

----------------------------------------------------------------------------
(* The workbooks of a request hold each line of it once, and each order its share. *)
BooksFit(books, request) ==
  \A k \in DOMAIN request.lines : SpeltAlike(request, k) => LineIsHeld(books, request, k)

(* The details of a line, and those of an order in it, are the units planned for it. *)
AddUp(D, asked) ==
  /\ AreDetails(D) /\ UnitsIn(D) = asked.planned
  /\ \A sp : /\ AreDetails({d \in D : d.sp = sp})
             /\ UnitsIn({d \in D : d.sp = sp})
                  = SharedUnits(asked.shares, {i \in DOMAIN asked.shares : asked.shares[i].sp = sp})

(* Lines that fit what is asked add up to it, in all and order by order. *)
LEMMA LinesAddUp ==
  ASSUME NEW request, RequestFits(request), NEW lines, LinesFit(lines, request.lines), NEW k \in DOMAIN request.lines
  PROVE  AddUp(lines[k].details, request.lines[k])
<1> DEFINE asked == request.lines[k]
           shares == asked.shares
           D == lines[k].details
           OfSp(sp) == {i \in DOMAIN shares : shares[i].sp = sp}
<1>1. AreDetails(D) /\ AllocationsAgree(D, shares)
  BY DEF LinesFit, LineFits
<1>2. AreShares(shares) /\ asked.planned = SharedUnits(shares, DOMAIN shares)
  BY DEF RequestFits, IntentHas, IntentFits
<1> HIDE DEF asked, shares, D
<1>3. IsFiniteSet(DOMAIN shares) /\ \A i \in DOMAIN shares : shares[i].quantity \in Nat
  BY <1>2, RangeFinite DEF AreShares
<1>4. /\ UnitsIn(D) = SharedUnits(shares, DOMAIN shares)
      /\ \A sp : UnitsIn({d \in D : d.sp = sp}) = SharedUnits(shares, OfSp(sp))
  BY <1>1, <1>3, AgreementBySp
<1>5. \A sp : AreDetails({d \in D : d.sp = sp})
  BY <1>1, SomeDetails
<1>6. AddUp(D, asked)
  BY <1>1, <1>2, <1>4, <1>5 DEF AddUp, shares
<1> QED BY <1>6 DEF asked, D

(* Rows of a line in a sheet of some of the details of the lines. *)
IsSheetOf(sheet, keys, prices, D, k, units) ==
  /\ sheet = UNION {SourceRows(y, prices[FoldKey(y)], D[FoldKey(y)], Entries) : y \in keys}
  /\ \A y \in keys : AreDetails(D[FoldKey(y)])
  /\ \A x, y \in keys : FoldKey(x) = k /\ FoldKey(y) = k => x = y
  /\ UnitsIn(D[k]) = units
  /\ (\A x \in keys : FoldKey(x) # k) => units = 0

(* A sheet that folds one key onto a line holds the units of its details. *)
LEMMA SheetHolds ==
  ASSUME NEW sheet, NEW keys, NEW prices, NEW D, NEW k, NEW units, IsSheetOf(sheet, keys, prices, D, k, units)
  PROVE  RowSum(sheet, k) = units
<1> USE DEF IsSheetOf
<1> DEFINE price == [y \in keys |-> prices[FoldKey(y)]]
           E == [y \in keys |-> D[FoldKey(y)]]
<1>1. sheet = SheetOf(keys, price, E)
  <2>1. {SourceRows(y, price[y], E[y], Entries) : y \in keys}
        = {SourceRows(y, prices[FoldKey(y)], D[FoldKey(y)], Entries) : y \in keys}
    OBVIOUS
  <2> HIDE DEF price, E
  <2> QED BY <2>1 DEF SheetOf
<1>2. \A y \in keys : AreDetails(E[y]) /\ E[y] = D[FoldKey(y)]
  OBVIOUS
<1> HIDE DEF price, E
<1> DEFINE rows == SheetOf(keys, price, E)
<1>3. RowsAre(rows, keys, E, k)
  <2>1. \A y \in keys : AreDetails(E[y])
    BY <1>2
  <2> QED BY <2>1, RowsOfKey
<1> HIDE DEF rows
<1>5. sheet = rows
  BY <1>1 DEF rows
<1>6. CASE \E x \in keys : FoldKey(x) = k
  <2>1. PICK x \in keys : FoldKey(x) = k
    BY <1>6
  <2>2. RowSum(rows, k) = UnitsIn(E[x])
    BY <1>3, <2>1 DEF RowsAre
  <2>3. E[x] = D[k]
    BY <1>2, <2>1
  <2> QED BY <1>5, <1>6, <2>2, <2>3
<1>7. CASE \A x \in keys : FoldKey(x) # k
  BY <1>3, <1>5, <1>7 DEF RowsAre
<1> QED BY <1>6, <1>7

(* The details of one order in the lines. *)
PartOfLines(lines, sp) == [k \in DOMAIN lines |-> {d \in lines[k].details : d.sp = sp}]
AllOfLines(lines) == [k \in DOMAIN lines |-> lines[k].details]

LEMMA SheetsAre ==
  ASSUME NEW lines, NEW prices, NEW keys, \A y \in keys : FoldKey(y) \in DOMAIN lines
  PROVE  PurchaseSheet(keys, lines, prices, Entries)
           = UNION {SourceRows(y, prices[FoldKey(y)], AllOfLines(lines)[FoldKey(y)], Entries) : y \in keys}
<1>1. \A y \in keys : AllOfLines(lines)[FoldKey(y)] = lines[FoldKey(y)].details
  BY DEF AllOfLines
<1>2. {SourceRows(y, prices[FoldKey(y)], AllOfLines(lines)[FoldKey(y)], Entries) : y \in keys}
      = {SourceRows(y, prices[FoldKey(y)], lines[FoldKey(y)].details, Entries) : y \in keys}
  BY <1>1
<1> QED BY <1>2 DEF PurchaseSheet

LEMMA SheetOfOneIs ==
  ASSUME NEW lines, NEW prices, NEW keys, \A y \in keys : FoldKey(y) \in DOMAIN lines, NEW sp
  PROVE  RestockSheet(sp, keys, lines, prices, Entries)
           = UNION {SourceRows(y, prices[FoldKey(y)], PartOfLines(lines, sp)[FoldKey(y)], Entries) : y \in keys}
<1>1. \A y \in keys : PartOfLines(lines, sp)[FoldKey(y)] = {d \in lines[FoldKey(y)].details : d.sp = sp}
  BY DEF PartOfLines
<1>2. {SourceRows(y, prices[FoldKey(y)], PartOfLines(lines, sp)[FoldKey(y)], Entries) : y \in keys}
      = {SourceRows(y, prices[FoldKey(y)], {d \in lines[FoldKey(y)].details : d.sp = sp}, Entries) : y \in keys}
  BY <1>1
<1> QED BY <1>2 DEF RestockSheet

(* Workbooks made of the files of the request. *)
LEMMA WrittenBooks ==
  ASSUME NEW request, RequestFits(request), NEW lines, LinesFit(lines, request.lines),
         NEW csvs, \A sp \in Range(request.sps) : csvs[sp] = Csvs(request.files)[sp]
  PROVE  BooksFit(Workbooks(request.sps, csvs, Master, lines, Prices, Entries), request)
<1> DEFINE sps == request.sps
           books == Workbooks(sps, csvs, Master, lines, Prices, Entries)
           all == RestockKeys(sps, csvs, Master)
           Of(sp) == RestockKeys(<<sp>>, csvs, Master)
<1>1. IntentHas(sps, csvs, request.lines)
  BY SameIntent DEF RequestFits
<1>2. DOMAIN lines = DOMAIN request.lines
  BY DEF LinesFit
<1>3. \A x \in all : FoldKey(x) \in DOMAIN lines
  BY <1>1, <1>2 DEF RestockKeys, FoldKey, LineKey, IntentHas
<1>4. \A sp \in Range(sps) : Of(sp) \subseteq all
  BY ProductsOfOne DEF RestockKeys
<1>5. ASSUME NEW k, SpeltAlike(request, k)
      PROVE  \A x, y \in all : FoldKey(x) = k /\ FoldKey(y) = k => x = y
  <2> SUFFICES ASSUME NEW p \in PlannedProducts(sps, csvs, Master), NEW q \in PlannedProducts(sps, csvs, Master),
                      FoldKey(<<p.supplier, p.model>>) = k, FoldKey(<<q.supplier, q.model>>) = k
               PROVE  <<p.supplier, p.model>> = <<q.supplier, q.model>>
    BY DEF RestockKeys
  <2>1. PlannedProducts(sps, csvs, Master) = PlannedProducts(sps, Csvs(request.files), Master)
    BY SameProducts
  <2>2. LineKey(p) = k /\ LineKey(q) = k
    BY DEF FoldKey, LineKey
  <2>3. p.model = q.model
    BY <1>5, <2>1, <2>2 DEF SpeltAlike
  <2>4. p.supplier = q.supplier
    BY <2>2 DEF LineKey
  <2> QED BY <2>3, <2>4
<1>6. ASSUME NEW k \in DOMAIN request.lines, SpeltAlike(request, k)
      PROVE  RowSum(books.summary, k) = request.lines[k].planned
  <2> DEFINE D == AllOfLines(lines)
             units == request.lines[k].planned
             sheet == UNION {SourceRows(y, Prices[FoldKey(y)], D[FoldKey(y)], Entries) : y \in all}
  <2>1. \A y \in all : AreDetails(D[FoldKey(y)])
    BY <1>2, <1>3, LinesAddUp DEF AllOfLines, AddUp
  <2>2. \E x \in all : FoldKey(x) = k
    <3>1. PICK p \in PlannedProducts(sps, csvs, Master) : LineKey(p) = k
      BY <1>1 DEF IntentHas
    <3>2. <<p.supplier, p.model>> \in all /\ FoldKey(<<p.supplier, p.model>>) = k
      BY <3>1 DEF RestockKeys, FoldKey, LineKey
    <3> QED BY <3>2
  <2>3. UnitsIn(D[k]) = units
    BY <1>2, LinesAddUp DEF AllOfLines, AddUp
  <2>4. books.summary = sheet
    BY <1>3, SheetsAre DEF Workbooks
  <2>5. \A x, y \in all : FoldKey(x) = k /\ FoldKey(y) = k => x = y
    BY <1>5, <1>6
  <2>6. IsSheetOf(sheet, all, Prices, D, k, units)
    <3> HIDE DEF D, units, all
    <3> QED BY <2>1, <2>2, <2>3, <2>5 DEF IsSheetOf
  <2> HIDE DEF D, units, sheet, all, books
  <2>7. RowSum(sheet, k) = units
    BY <2>6, SheetHolds
  <2> QED BY <2>4, <2>7 DEF units
<1>7. ASSUME NEW k \in DOMAIN request.lines, SpeltAlike(request, k), NEW sp \in Range(sps)
      PROVE  RowSum(books.restock[sp], k)
             = SharedUnits(request.lines[k].shares,
                           {i \in DOMAIN request.lines[k].shares : request.lines[k].shares[i].sp = sp})
  <2> DEFINE D == PartOfLines(lines, sp)
             shares == request.lines[k].shares
             I == {i \in DOMAIN shares : shares[i].sp = sp}
             units == SharedUnits(shares, I)
             keys == Of(sp)
             sheet == UNION {SourceRows(y, Prices[FoldKey(y)], D[FoldKey(y)], Entries) : y \in keys}
  <2>1. \A y \in keys : AreDetails(D[FoldKey(y)])
    <3> TAKE y \in keys
    <3>1. FoldKey(y) \in DOMAIN request.lines
      BY <1>2, <1>3, <1>4
    <3>2. AddUp(lines[FoldKey(y)].details, request.lines[FoldKey(y)])
      BY <3>1, LinesAddUp
    <3>3. D[FoldKey(y)] = {d \in lines[FoldKey(y)].details : d.sp = sp}
      BY <1>2, <3>1 DEF PartOfLines
    <3> QED BY <3>2, <3>3 DEF AddUp
  <2>2. UnitsIn(D[k]) = units
    <3>1. AddUp(lines[k].details, request.lines[k])
      BY LinesAddUp
    <3>2. D[k] = {d \in lines[k].details : d.sp = sp}
      BY <1>2 DEF PartOfLines
    <3> QED BY <3>1, <3>2 DEF AddUp
  <2>3. ASSUME \A x \in keys : FoldKey(x) # k
        PROVE  units = 0
    <3>1. I = {}
      <4> SUFFICES ASSUME NEW i \in I PROVE FALSE
        OBVIOUS
      <4>1. PICK p \in PlannedProducts(<<sp>>, csvs, Master) : LineKey(p) = k
        BY <1>1 DEF IntentHas
      <4>2. <<p.supplier, p.model>> \in keys /\ FoldKey(<<p.supplier, p.model>>) = k
        BY <4>1 DEF RestockKeys, FoldKey, LineKey
      <4> QED BY <2>3, <4>2
    <3> QED BY <3>1, SumNone DEF SharedUnits
  <2>4. books.restock[sp] = sheet
    <3>1. books.restock[sp] = RestockSheet(sp, keys, lines, Prices, Entries)
      BY DEF Workbooks
    <3>2. \A y \in keys : FoldKey(y) \in DOMAIN lines
      BY <1>3, <1>4
    <3> HIDE DEF keys, books
    <3> QED BY <3>1, <3>2, SheetOfOneIs
  <2>5. \A x, y \in keys : FoldKey(x) = k /\ FoldKey(y) = k => x = y
    BY <1>4, <1>5, <1>7
  <2>6. IsSheetOf(sheet, keys, Prices, D, k, units)
    <3> HIDE DEF D, units, keys
    <3> QED BY <2>1, <2>2, <2>3, <2>5 DEF IsSheetOf
  <2> HIDE DEF D, units, sheet, keys, books
  <2>7. RowSum(sheet, k) = units
    BY <2>6, SheetHolds
  <2> QED BY <2>4, <2>7 DEF units
<1> HIDE DEF books
<1>8. BooksFit(books, request)
  BY <1>6, <1>7 DEF BooksFit, LineIsHeld
<1> QED BY <1>8 DEF books

(* Workbooks made again of what the batch recorded. *)
LEMMA SnapshotKeysAre ==
  ASSUME NEW D, \A k \in DOMAIN D : k = <<k[1], k[2]>>
  PROVE  /\ \A x \in SnapshotKeys(D) : FoldKey(x) \in DOMAIN D
         /\ \A x, y \in SnapshotKeys(D) : FoldKey(x) = FoldKey(y) => x = y
         /\ \A k \in DOMAIN D : (\A x \in SnapshotKeys(D) : FoldKey(x) # k) => D[k] = {}
<1> DEFINE Key(k) == <<k[1], <<k[2], Blank>>>>
           K == {k \in DOMAIN D : D[k] # {}}
<1>1. SnapshotKeys(D) = {Key(k) : k \in K}
  BY DEF SnapshotKeys
<1>2. \A k \in DOMAIN D : FoldKey(Key(k)) = k
  BY DEF FoldKey
<1> HIDE DEF Key
<1> QED BY <1>1, <1>2

(* The workbooks made of what a batch recorded hold the plan of its request. *)
LEMMA RegeneratedBooks ==
  ASSUME NEW request, RequestFits(request), NEW lines, LinesFit(lines, request.lines)
  PROVE  BooksFit(SnapshotWorkbooks(request.sps, lines, Prices, Entries), request)
<1> DEFINE sps == request.sps
           books == SnapshotWorkbooks(sps, lines, Prices, Entries)
           all == SnapshotKeys(AllOfLines(lines))
           Of(sp) == SnapshotKeys(PartOfLines(lines, sp))
<1>1. /\ books.summary = PurchaseSheet(all, lines, Prices, Entries)
      /\ \A sp \in Range(sps) : books.restock[sp] = RestockSheet(sp, Of(sp), lines, Prices, Entries)
  BY DEF SnapshotWorkbooks, AllOfLines, PartOfLines
<1>2. DOMAIN lines = DOMAIN request.lines
  BY DEF LinesFit
<1>3. \A k \in DOMAIN lines : k = <<k[1], k[2]>>
  BY <1>2 DEF RequestFits, IntentHas, LineKey
<1>4. \A k \in DOMAIN lines : AddUp(lines[k].details, request.lines[k])
  BY <1>2, LinesAddUp
<1>5. UnitsIn({}) = 0
  BY SumNone DEF UnitsIn
<1> HIDE DEF books
<1>6. ASSUME NEW k \in DOMAIN request.lines
      PROVE  RowSum(books.summary, k) = request.lines[k].planned
  <2> DEFINE D == AllOfLines(lines)
             keys == all
             units == request.lines[k].planned
             sheet == UNION {SourceRows(y, Prices[FoldKey(y)], D[FoldKey(y)], Entries) : y \in keys}
  <2>1. DOMAIN D = DOMAIN lines /\ \A l \in DOMAIN lines : D[l] = lines[l].details
    BY DEF AllOfLines
  <2>2. /\ \A x \in keys : FoldKey(x) \in DOMAIN lines
        /\ \A x, y \in keys : FoldKey(x) = FoldKey(y) => x = y
        /\ (\A x \in keys : FoldKey(x) # k) => D[k] = {}
    <3>1. \A l \in DOMAIN D : l = <<l[1], l[2]>>
      BY <1>3, <2>1
    <3> HIDE DEF D
    <3> QED BY <1>2, <2>1, <3>1, SnapshotKeysAre DEF D
  <2>3. \A y \in keys : AreDetails(D[FoldKey(y)])
    BY <1>4, <2>1, <2>2 DEF AddUp
  <2>4. UnitsIn(D[k]) = units
    BY <1>2, <1>4, <2>1 DEF AddUp
  <2>5. (\A x \in keys : FoldKey(x) # k) => units = 0
    BY <1>5, <2>2, <2>4
  <2>6. books.summary = sheet
    <3> HIDE DEF keys
    <3> QED BY <1>1, <2>2, SheetsAre DEF keys
  <2>7. IsSheetOf(sheet, keys, Prices, D, k, units)
    <3> HIDE DEF D, units, keys
    <3> QED BY <2>2, <2>3, <2>4, <2>5 DEF IsSheetOf
  <2> HIDE DEF D, units, sheet, keys
  <2>8. RowSum(sheet, k) = units
    BY <2>7, SheetHolds
  <2> QED BY <2>6, <2>8 DEF units
<1>7. ASSUME NEW k \in DOMAIN request.lines, NEW sp \in Range(sps)
      PROVE  RowSum(books.restock[sp], k)
             = SharedUnits(request.lines[k].shares,
                           {i \in DOMAIN request.lines[k].shares : request.lines[k].shares[i].sp = sp})
  <2> DEFINE D == PartOfLines(lines, sp)
             keys == Of(sp)
             shares == request.lines[k].shares
             units == SharedUnits(shares, {i \in DOMAIN shares : shares[i].sp = sp})
             sheet == UNION {SourceRows(y, Prices[FoldKey(y)], D[FoldKey(y)], Entries) : y \in keys}
  <2>1. DOMAIN D = DOMAIN lines /\ \A l \in DOMAIN lines : D[l] = {d \in lines[l].details : d.sp = sp}
    BY DEF PartOfLines
  <2>2. /\ \A x \in keys : FoldKey(x) \in DOMAIN lines
        /\ \A x, y \in keys : FoldKey(x) = FoldKey(y) => x = y
        /\ (\A x \in keys : FoldKey(x) # k) => D[k] = {}
    <3>1. \A l \in DOMAIN D : l = <<l[1], l[2]>>
      BY <1>3, <2>1
    <3> HIDE DEF D
    <3> QED BY <1>2, <2>1, <3>1, SnapshotKeysAre DEF D
  <2>3. \A y \in keys : AreDetails(D[FoldKey(y)])
    <3> TAKE y \in keys
    <3>1. FoldKey(y) \in DOMAIN lines
      BY <2>2
    <3>2. AddUp(lines[FoldKey(y)].details, request.lines[FoldKey(y)])
      BY <1>4, <3>1
    <3>3. D[FoldKey(y)] = {d \in lines[FoldKey(y)].details : d.sp = sp}
      BY <2>1, <3>1
    <3> QED BY <3>2, <3>3 DEF AddUp
  <2>4. UnitsIn(D[k]) = units
    <3>1. AddUp(lines[k].details, request.lines[k])
      BY <1>2, <1>4
    <3>2. D[k] = {d \in lines[k].details : d.sp = sp}
      BY <1>2, <2>1
    <3> QED BY <3>1, <3>2 DEF AddUp
  <2>5. (\A x \in keys : FoldKey(x) # k) => units = 0
    BY <1>5, <2>2, <2>4
  <2>6. books.restock[sp] = sheet
    <3>1. books.restock[sp] = RestockSheet(sp, keys, lines, Prices, Entries)
      BY <1>1
    <3> HIDE DEF keys
    <3> QED BY <2>2, <3>1, SheetOfOneIs
  <2>7. IsSheetOf(sheet, keys, Prices, D, k, units)
    <3> HIDE DEF D, units, keys
    <3> QED BY <2>2, <2>3, <2>4, <2>5 DEF IsSheetOf
  <2> HIDE DEF D, units, sheet, keys
  <2>8. RowSum(sheet, k) = units
    BY <2>7, SheetHolds
  <2> QED BY <2>6, <2>8 DEF units
<1>8. BooksFit(books, request)
  BY <1>6, <1>7 DEF BooksFit, LineIsHeld
<1> QED BY <1>8 DEF books

(* A report of such workbooks holds the plan; a report of none says nothing of it. *)
LEMMA ReportFits ==
  ASSUME NEW status, NEW request, NEW answer, NEW books, NEW fresh, fresh => BooksFit(books, request),
         result' = Written(status, request, answer, books, fresh)
  PROVE  SuccessHoldsThePlan'
<1>1. result'.request = request /\ result'.books = books /\ result'.fresh = fresh
  BY DEF Written
<1>2. result'.fresh => BooksFit(result'.books, result'.request)
  BY <1>1
<1> QED BY <1>2, Zenon DEF SuccessHoldsThePlan, BooksFit

LEMMA NoReportFits ==
  ASSUME result'.status \notin {"completed", "preview"}
  PROVE  SuccessHoldsThePlan'
BY DEF SuccessHoldsThePlan

(***************************************************************************)
(* Each operation keeps the plans.                                         *)
(***************************************************************************)
LEMMA ResultStays ==
  ASSUME SuccessHoldsThePlan, UNCHANGED result
  PROVE  SuccessHoldsThePlan'
BY DEF SuccessHoldsThePlan

LEMMA InitFits == Init => PlanInv
<1> SUFFICES ASSUME Init PROVE PlanInv
  OBVIOUS
<1>1. FilesFit
  <2>1. DOMAIN files = DOMAIN Downloads /\ \A sp \in DOMAIN files : files[sp].content \in Downloads[sp]
    BY DEF Init
  <2> QED BY <2>1, OrdersAssumption DEF FilesFit
<1>2. stock \in [DOMAIN Entries -> Nat]
  <2>1. \A e \in DOMAIN Entries : Entries[e].original \in Nat
    BY EntriesAssumption
  <2> QED BY <2>1 DEF Init
<1>3. batches = <<>> /\ shown.conflicts = {} /\ command = Idle /\ result.status = "none"
  BY DEF Init, NoResult
<1>4. SuccessHoldsThePlan
  BY <1>3 DEF SuccessHoldsThePlan
<1>5. WorldFits /\ CommandFits
  BY <1>1, <1>2, <1>3 DEF WorldFits, CommandFits
<1> QED BY <1>4, <1>5 DEF PlanInv

(* What others do: an order exported again is one of its exports, and stock is taken that is there. *)
LEMMA RedownloadFits ==
  ASSUME PlanInv, NEW sp \in DOMAIN Downloads, Redownload(sp)
  PROVE  PlanInv'
<1>1. PICK c \in Downloads[sp] : files' = [files EXCEPT ![sp] = [content |-> c, version |-> @.version + 1]]
  BY DEF Redownload
<1>2. c \in DOMAIN Contents
  BY OrdersAssumption
<1>3. FilesFit'
  BY <1>1, <1>2 DEF PlanInv, WorldFits, FilesFit
<1>4. UNCHANGED <<stock, batches, shown, command, result>>
  BY DEF Redownload, erp
<1>5. CommandFits' /\ SuccessHoldsThePlan'
  BY <1>4, ResultStays DEF PlanInv, CommandFits
<1>6. WorldFits'
  BY <1>3, <1>4 DEF PlanInv, WorldFits
<1> QED BY <1>5, <1>6 DEF PlanInv

LEMMA StockMovesFits ==
  ASSUME PlanInv, NEW e \in DOMAIN Entries, StockMoves(e)
  PROVE  PlanInv'
<1>1. stock' \in [DOMAIN Entries -> Nat]
  <2>1. stock[e] > 0 /\ stock' = [stock EXCEPT ![e] = @ - 1] /\ stock \in [DOMAIN Entries -> Nat]
    BY DEF StockMoves, PlanInv, WorldFits
  <2>2. stock[e] - 1 \in Nat
    BY <2>1
  <2> QED BY <2>1, <2>2
<1>2. UNCHANGED <<files, batches, shown, command, result>>
  BY DEF StockMoves
<1>3. CommandFits' /\ SuccessHoldsThePlan'
  BY <1>2, ResultStays DEF PlanInv, CommandFits
<1>4. WorldFits'
  BY <1>1, <1>2 DEF PlanInv, WorldFits, FilesFit
<1> QED BY <1>3, <1>4 DEF PlanInv

(* Nothing of the world moves, and conflicts that are shown are with batches there are. *)
LEMMA WorldStays ==
  ASSUME WorldFits, UNCHANGED <<files, stock, batches>>, shown'.conflicts \subseteq DOMAIN batches
  PROVE  WorldFits'
BY DEF WorldFits, FilesFit

(* A command that ends with no workbooks. *)
LEMMA FinishFits ==
  ASSUME NEW r, Finish(r), r.status \notin {"completed", "preview"}
  PROVE  CommandFits' /\ SuccessHoldsThePlan'
<1>1. command' = Idle /\ result'.status \notin {"completed", "preview"}
  BY DEF Finish
<1> QED BY <1>1, NoReportFits DEF CommandFits

LEMMA ConflictFits ==
  ASSUME WorldFits, Conflict409, UNCHANGED <<files, stock, batches>>
  PROVE  PlanInv'
<1>1. shown'.conflicts \subseteq DOMAIN batches
  BY DEF Conflict409, Show, Conflicts, WorldFits
<1>2. WorldFits'
  BY <1>1, WorldStays
<1>3. CommandFits' /\ SuccessHoldsThePlan'
  <2> DEFINE r == [status |-> "replace_required", request |-> command.request,
                   with |-> {batches[n].request : n \in Conflicts(command.request)}]
  <2>1. Finish(r) /\ r.status \notin {"completed", "preview"}
    BY DEF Conflict409
  <2> HIDE DEF r
  <2> QED BY <2>1, FinishFits
<1> QED BY <1>2, <1>3 DEF PlanInv

(* A command starts on the files as they are. *)
LEMMA RequestIs ==
  ASSUME FilesFit, NEW sps \in Sps, NEW mode, NEW replace
  PROVE  RequestFits(Request(sps, mode, replace))
<1> DEFINE r == Request(sps, mode, replace)
<1>1. r.sps = sps /\ r.files = [sp \in Range(sps) |-> files[sp]] /\ r.lines = IntentLines(sps, Csvs(files), Master)
  BY DEF Request
<1> HIDE DEF r
<1>2. sps \in Seq(DOMAIN Downloads)
  BY OrdersAssumption
<1>3. sps \in Seq(Range(sps)) /\ Range(sps) \subseteq DOMAIN Downloads
  <2>1. Len(sps) \in Nat /\ DOMAIN sps = 1 .. Len(sps) /\ sps \in [1 .. Len(sps) -> DOMAIN Downloads]
    BY <1>2, LenProperties
  <2>2. Range(sps) \subseteq DOMAIN Downloads
    BY <2>1 DEF Range
  <2>3. sps \in [1 .. Len(sps) -> Range(sps)]
    BY <2>1 DEF Range
  <2> QED BY <2>1, <2>2, <2>3, SeqDef
<1>4. \A sp \in Range(sps) : /\ sp \in DOMAIN files /\ files[sp].content \in DOMAIN Contents
                             /\ r.files[sp] = files[sp] /\ Csvs(files)[sp] = Csvs(r.files)[sp]
                             /\ Csvs(files)[sp] = Contents[files[sp].content]
  BY <1>1, <1>3 DEF FilesFit, Csvs
<1>5. \A sp \in Range(sps) : CsvFits(Csvs(files)[sp])
  BY <1>4, OrdersAssumption DEF CsvFits
<1>6. IntentHas(sps, Csvs(files), r.lines)
  BY <1>1, <1>3, <1>5, IntentHolds
<1>7. IntentHas(sps, Csvs(r.files), r.lines)
  BY <1>4, <1>6, SameIntent
<1>8. \A sp \in Range(sps) : sp \in DOMAIN r.files /\ r.files[sp].content \in DOMAIN Contents
  BY <1>1, <1>4
<1>9. RequestFits(r)
  BY <1>1, <1>2, <1>7, <1>8 DEF RequestFits
<1> QED BY <1>9 DEF r

(* A command begins with the intent its own files give. *)
LEMMA StartFits ==
  ASSUME WorldFits, NEW sps \in Sps, NEW mode, NEW preview, NEW token, NEW quote,
         NEW replace \in {None} \cup shown.conflicts, Start(sps, mode, preview, token, quote, replace)
  PROVE  PlanInv'
<1> DEFINE request == Request(sps, mode, replace)
           begun == [phase |-> IF AskFirst(mode, preview) THEN "preview" ELSE "import", request |-> request,
                     quote |-> quote, preview |-> preview, answer |-> None]
<1>0. UNCHANGED <<files, stock, batches>>
  BY DEF Start, erp
<1>1. \/ \E status \in {"refused", "no_template_sheet"} : Finish([status |-> status]) /\ ShowNothing
      \/ \E status \in {"confirm_unmatched", "unmatched_stale"} :
           Finish([status |-> status]) /\ Show({Token(request)} \ {None}, {}, {})
      \/ command' = begun /\ result' = NoResult /\ ShowNothing
  BY DEF Start
<1>2. shown'.conflicts = shown.conflicts
  BY <1>1 DEF Show, ShowNothing
<1>3. WorldFits'
  BY <1>0, <1>2, WorldStays DEF WorldFits
<1>4. CASE \E status \in {"refused", "no_template_sheet", "confirm_unmatched", "unmatched_stale"} :
             Finish([status |-> status])
  BY <1>3, <1>4, FinishFits DEF PlanInv
<1>5. CASE command' = begun /\ result' = NoResult
  <2>1. SuccessHoldsThePlan'
    BY <1>5, NoReportFits DEF NoResult
  <2>2. RequestFits(request) /\ request.replace = replace
    BY RequestIs DEF WorldFits, Request
  <2>3. command'.request = request /\ command'.phase \in {"preview", "import"}
    BY <1>5
  <2> HIDE DEF request
  <2>4. CommandFits'
    BY <1>0, <2>2, <2>3 DEF CommandFits, WorldFits
  <2> QED BY <1>3, <2>1, <2>4 DEF PlanInv
<1> QED BY <1>1, <1>4, <1>5

(* An accepted answer accounts for what was asked. *)
LEMMA AnsweredFits ==
  ASSUME CommandHolds, CommandFits, command # Idle, NEW answer, LinesFit(answer.lines, command.request.lines),
         command' = Answered(answer), DOMAIN batches \subseteq DOMAIN batches'
  PROVE  CommandFits'
<1>1. command'.phase = "write" /\ command'.answer = answer /\ command'.request = command.request
  BY DEF Answered, CommandHolds
<1> QED BY <1>1 DEF CommandFits

(* What the ERP answers accounts for each share, whether the answer arrives or not. *)
LEMMA AskErpFits ==
  ASSUME CommandHolds, WorldFits, CommandFits, SuccessHoldsThePlan, AskErp
  PROVE  PlanInv'
<1> DEFINE request == command.request
<1>0. UNCHANGED <<files, stock, batches>> /\ command # Idle /\ command.phase = "preview"
  BY DEF AskErp, erp, Idle
<1>1. CASE Conflict409
  BY <1>0, <1>1, ConflictFits
<1>2. CASE \E status \in {"answer_refused", "erp_error"} : Finish([status |-> status]) /\ ShowNothing
  <2>1. WorldFits'
    BY <1>0, <1>2, WorldStays DEF ShowNothing, WorldFits
  <2> QED BY <1>2, <2>1, FinishFits DEF PlanInv
<1>3. ASSUME NEW answer \in Answers(request, Plan(request), None), ValidAnswer(answer, request, TRUE),
             command' = IF command.preview THEN Answered(answer) ELSE [command EXCEPT !.phase = "import"],
             UNCHANGED result, ShowNothing
      PROVE  PlanInv'
  <2>1. WorldFits'
    BY <1>0, <1>3, WorldStays DEF ShowNothing, WorldFits
  <2>2. SuccessHoldsThePlan'
    BY <1>3, ResultStays
  <2>3. RequestFits(request) /\ request.replace \in {None} \cup DOMAIN batches
    BY <1>0 DEF CommandFits
  <2> HIDE DEF request
  <2>4. LinesFit(Plan(request), request.lines)
    BY <2>3, PlanFits DEF WorldFits
  <2>5. LinesFit(answer.lines, request.lines)
    BY <1>3, <2>4, AnswersFit
  <2>6. CASE command.preview
    BY <1>0, <1>3, <2>1, <2>2, <2>5, <2>6, AnsweredFits DEF PlanInv, request
  <2>7. CASE ~command.preview
    <3>1. command'.phase = "import" /\ command'.request = request
      BY <1>0, <1>3, <2>7 DEF CommandHolds, request
    <3>2. CommandFits'
      BY <1>0, <2>3, <3>1 DEF CommandFits
    <3> QED BY <2>1, <2>2, <3>2 DEF PlanInv
  <2> QED BY <2>6, <2>7
<1> QED BY <1>1, <1>2, <1>3 DEF AskErp

(* What a batch is answered with is written down only when it accounts for the request. *)
LEMMA CommittedFits ==
  ASSUME CommandHolds, CommandFits, SuccessHoldsThePlan, command # Idle, DOMAIN batches \subseteq DOMAIN batches',
         NEW lines, LinesFit(lines, command.request.lines), NEW n, Committed(command.request, lines, n)
  PROVE  CommandFits' /\ SuccessHoldsThePlan'
<1>1. CASE \E status \in {"erp_error", "artifacts_failed"} : Finish([status |-> status])
  BY <1>1, FinishFits
<1>2. ASSUME NEW answer \in Answers(command.request, lines, n), ValidAnswer(answer, command.request, FALSE),
             command' = Answered(answer), UNCHANGED result
      PROVE  CommandFits' /\ SuccessHoldsThePlan'
  <2>1. LinesFit(answer.lines, command.request.lines)
    BY <1>2, AnswersFit
  <2>2. CommandFits'
    BY <1>2, <2>1, AnsweredFits
  <2> QED BY <1>2, <2>2, ResultStays
<1> QED BY <1>1, <1>2 DEF Committed

(* An import asked again is answered with what was recorded. *)
LEMMA ImportAgainFits ==
  ASSUME BatchesHold, CommandHolds, WorldFits, CommandFits, SuccessHoldsThePlan, ImportAgain
  PROVE  PlanInv'
<1>1. PICK n \in DOMAIN batches : /\ batches[n].id = RequestId(command.request, command.quote)
                                  /\ Committed(command.request, batches[n].answer.lines, n)
  BY DEF ImportAgain, Same
<1>2. UNCHANGED <<files, stock, batches, shown>> /\ command # Idle
  BY DEF ImportAgain, erp, Idle
<1>3. batches[n].request = command.request
  BY <1>1 DEF BatchesHold, BatchHolds, RequestId
<1>4. LinesFit(batches[n].answer.lines, command.request.lines)
  BY <1>3 DEF WorldFits, BatchFits
<1>5. CommandFits' /\ SuccessHoldsThePlan'
  BY <1>1, <1>2, <1>4, CommittedFits
<1>6. WorldFits'
  BY <1>2, WorldStays DEF WorldFits
<1> QED BY <1>5, <1>6 DEF PlanInv

(* An import that is refused changes no plan. *)
LEMMA ImportRefusedFits ==
  ASSUME WorldFits, ImportRefused
  PROVE  PlanInv'
<1>0. UNCHANGED <<files, stock, batches>>
  BY DEF ImportRefused, erp
<1>1. CASE Conflict409
  BY <1>0, <1>1, ConflictFits
<1>2. ASSUME NEW status \in {"confirm_stock", "quote_stale", "answer_refused"}, Finish([status |-> status]),
             shown'.conflicts = shown.conflicts
      PROVE  PlanInv'
  <2>1. WorldFits'
    BY <1>0, <1>2, WorldStays DEF WorldFits
  <2> QED BY <1>2, <2>1, FinishFits DEF PlanInv
<1>3. CASE \E status \in {"confirm_stock", "quote_stale"} :
             Finish([status |-> status]) /\ Show({}, {Quote(command.request)}, {})
  BY <1>2, <1>3 DEF Show
<1>4. CASE Finish([status |-> "answer_refused"]) /\ ShowNothing
  BY <1>2, <1>4 DEF ShowNothing
<1> QED BY <1>1, <1>3, <1>4 DEF ImportRefused

(* What is committed is what the ERP plans, and it leaves the stock it has. *)
LEMMA ImportFits ==
  ASSUME BatchesHold, CommandHolds, WorldFits, CommandFits, SuccessHoldsThePlan, Import
  PROVE  PlanInv'
<1> DEFINE request == command.request
           lines == Plan(request)
           n == Len(batches) + 1
           new == [id |-> RequestId(request, command.quote), request |-> request, current |-> TRUE,
                   answer |-> Answer(request, lines, n)]
           kept == [b \in DOMAIN batches |-> [batches[b] EXCEPT !.current = @ /\ b # request.replace]]
<1>0. UNCHANGED <<files, shown>> /\ command # Idle
  BY DEF Import, Idle
<1>1. /\ batches' = Append(kept, new)
      /\ stock' = [e \in DOMAIN stock |-> StockFor(request)[e] - TakenOf(lines, e)]
      /\ Committed(request, lines, n)
  BY DEF Import, Commit
<1>2. DOMAIN batches = 1..Len(batches) /\ Len(batches) \in Nat
  BY DEF BatchesHold
<1>3. RequestFits(request) /\ request.replace \in {None} \cup DOMAIN batches
  BY <1>0 DEF CommandFits
<1> HIDE DEF request
<1>4. /\ LinesFit(lines, request.lines)
      /\ StockFor(request) \in [DOMAIN Entries -> Nat]
      /\ \A e \in DOMAIN Entries : TakenOf(lines, e) \in Nat /\ TakenOf(lines, e) <= StockFor(request)[e]
  BY <1>3, PlanFits DEF WorldFits
<1> HIDE DEF lines
<1>5. stock' \in [DOMAIN Entries -> Nat]
  <2>1. DOMAIN stock = DOMAIN Entries
    BY DEF WorldFits
  <2>2. \A e \in DOMAIN Entries : StockFor(request)[e] \in Nat
    BY <1>4
  <2>3. \A e \in DOMAIN Entries : StockFor(request)[e] - TakenOf(lines, e) \in Nat
    BY <1>4, <2>2
  <2> QED BY <1>1, <2>1, <2>3
<1>6. BatchFits(new)
  <2>1. new.request = request /\ new.answer.lines = lines /\ new.answer.sps = request.sps
    BY DEF Answer
  <2> HIDE DEF new
  <2> QED BY <1>3, <1>4, <2>1 DEF BatchFits
<1>7. \A b \in DOMAIN batches : BatchFits(kept[b])
  <2> TAKE b \in DOMAIN batches
  <2>1. BatchFits(batches[b]) /\ BatchHolds(batches[b], shown.tokens, shown.quotes)
    BY DEF WorldFits, BatchesHold
  <2>2. kept[b].request = batches[b].request /\ kept[b].answer = batches[b].answer
    BY <2>1 DEF BatchHolds
  <2> HIDE DEF kept
  <2> QED BY <2>1, <2>2 DEF BatchFits
<1>8. kept = [b \in 1..Len(batches) |-> kept[b]]
  BY <1>2
<1> HIDE DEF kept, new
<1>9. /\ batches' = [b \in 1..(Len(batches) + 1) |-> batches'[b]]
      /\ \A b \in 1..Len(batches) : batches'[b] = kept[b]
      /\ batches'[Len(batches) + 1] = new
  BY <1>1, <1>2, <1>8, AppendHolds
<1>10. DOMAIN batches' = 1..(Len(batches) + 1) /\ DOMAIN batches \subseteq DOMAIN batches'
  BY <1>2, <1>9
<1>11. \A b \in DOMAIN batches' : BatchFits(batches'[b])
  BY <1>2, <1>6, <1>7, <1>9, <1>10
<1>12. WorldFits'
  <2>1. FilesFit' /\ shown'.conflicts \subseteq DOMAIN batches'
    BY <1>0, <1>10 DEF WorldFits, FilesFit
  <2> QED BY <1>5, <1>11, <2>1 DEF WorldFits
<1>13. CommandFits' /\ SuccessHoldsThePlan'
  BY <1>0, <1>1, <1>4, <1>10, CommittedFits DEF request
<1> QED BY <1>12, <1>13 DEF PlanInv

(* Workbooks are written of the answer, and when they are reported as fresh, of the files of the
   intent. *)
LEMMA WriteFits ==
  ASSUME WorldFits, CommandFits, Write
  PROVE  PlanInv'
<1> DEFINE request == command.request
           lines == command.answer.lines
           books == Workbooks(request.sps, Csvs(files), Master, lines, Prices, Entries)
           fresh == \A sp \in Range(request.sps) : files[sp].content = request.files[sp].content
<1>0. UNCHANGED <<files, stock, batches, shown>> /\ command # Idle /\ command.phase = "write" /\ command' = Idle
  <2>1. UNCHANGED <<files, stock, batches, shown>> /\ command.phase = "write"
    BY DEF Write, erp
  <2>2. command' = Idle
    BY DEF Write, Finish
  <2> QED BY <2>1, <2>2 DEF Idle
<1>1. WorldFits' /\ CommandFits'
  BY <1>0, WorldStays DEF WorldFits, CommandFits
<1>2. RequestFits(request) /\ LinesFit(lines, request.lines)
  BY <1>0 DEF CommandFits
<1>3. SuccessHoldsThePlan'
  <2>1. CASE \E status \in {"failed", "artifacts_failed"} : result' = [status |-> status]
    BY <2>1, NoReportFits
  <2>2. CASE result' = Written(IF command.preview THEN "preview" ELSE "completed", request, command.answer, books, fresh)
    <3>1. ASSUME fresh
          PROVE  BooksFit(books, request)
      <4>1. \A sp \in Range(request.sps) : Csvs(files)[sp] = Csvs(request.files)[sp]
        <5> TAKE sp \in Range(request.sps)
        <5>1. sp \in DOMAIN request.files /\ sp \in DOMAIN Downloads
          <6>1. request.sps \in Seq(DOMAIN Downloads)
            BY <1>2 DEF RequestFits
          <6>2. Range(request.sps) \subseteq DOMAIN Downloads
            BY <6>1, LenProperties DEF Range
          <6> QED BY <1>2, <6>2 DEF RequestFits
        <5>2. sp \in DOMAIN files
          BY <5>1 DEF WorldFits, FilesFit
        <5> QED BY <3>1, <5>1, <5>2 DEF Csvs
      <4> HIDE DEF request, lines
      <4> QED BY <1>2, <4>1, WrittenBooks
    <3> HIDE DEF request, books, fresh
    <3> QED BY <2>2, <3>1, ReportFits
  <2> QED BY <2>1, <2>2 DEF Write, Finish
<1> QED BY <1>1, <1>3 DEF PlanInv

(* Workbooks are made again of a batch that holds its plan. *)
LEMMA RegenerateFits ==
  ASSUME WorldFits, NEW b \in DOMAIN batches, Regenerate(b)
  PROVE  PlanInv'
<1> DEFINE answer == batches[b].answer
           request == batches[b].request
           books == SnapshotWorkbooks(answer.sps, answer.lines, Prices, Entries)
<1>0. UNCHANGED <<files, stock, batches, shown>> /\ command' = Idle
  BY DEF Regenerate, erp
<1>1. WorldFits' /\ CommandFits'
  BY <1>0, WorldStays DEF WorldFits, CommandFits
<1>2. RequestFits(request) /\ LinesFit(answer.lines, request.lines) /\ answer.sps = request.sps
  BY DEF WorldFits, BatchFits
<1>3. SuccessHoldsThePlan'
  <2>1. CASE \E status \in {"not_current", "no_template_sheet", "failed"} : result' = [status |-> status]
    BY <2>1, NoReportFits
  <2>2. CASE result' = Written("completed", request, answer, books, TRUE)
    <3>1. BooksFit(books, request)
      BY <1>2, RegeneratedBooks
    <3> HIDE DEF request, answer, books
    <3> QED BY <2>2, <3>1, ReportFits
  <2> QED BY <2>1, <2>2 DEF Regenerate
<1> QED BY <1>1, <1>3 DEF PlanInv

(* Every step keeps the plans, when BatchInv holds too. *)
LEMMA StepFits == BatchInv /\ PlanInv /\ [Next]_vars => PlanInv'
<1> SUFFICES ASSUME BatchInv, PlanInv, [Next]_vars PROVE PlanInv'
  OBVIOUS
<1>0. BatchesHold /\ CommandHolds /\ WorldFits /\ CommandFits /\ SuccessHoldsThePlan
  BY DEF BatchInv, PlanInv
<1>1. CASE UNCHANGED vars
  <2>1. UNCHANGED <<files, stock, batches, shown, command, result>>
    BY <1>1 DEF vars, erp
  <2>2. WorldFits'
    BY <1>0, <2>1, WorldStays DEF WorldFits
  <2>3. CommandFits' /\ SuccessHoldsThePlan'
    BY <1>0, <2>1, ResultStays DEF CommandFits
  <2> QED BY <2>2, <2>3 DEF PlanInv
<1>2. ASSUME NEW sp \in DOMAIN Downloads, Redownload(sp) PROVE PlanInv'
  BY <1>2, RedownloadFits
<1>3. ASSUME NEW e \in DOMAIN Entries, StockMoves(e) PROVE PlanInv'
  BY <1>3, StockMovesFits
<1>4. ASSUME NEW sps \in Sps, NEW mode, NEW preview, NEW token, NEW quote,
             NEW replace \in {None} \cup shown.conflicts, Start(sps, mode, preview, token, quote, replace)
      PROVE  PlanInv'
  BY <1>0, <1>4, StartFits
<1>5. ASSUME NEW b \in DOMAIN batches, Regenerate(b) PROVE PlanInv'
  BY <1>0, <1>5, RegenerateFits
<1>6. AskErp => PlanInv'
  BY <1>0, AskErpFits
<1>7. ImportAgain => PlanInv'
  BY <1>0, ImportAgainFits
<1>8. ImportRefused => PlanInv'
  BY <1>0, ImportRefusedFits
<1>9. Import => PlanInv'
  BY <1>0, ImportFits
<1>10. Write => PlanInv'
  BY <1>0, WriteFits
<1> QED BY <1>1, <1>2, <1>3, <1>4, <1>5, <1>6, <1>7, <1>8, <1>9, <1>10 DEF Next

(* The inductive invariant of the plans: every request asks what its files say, every batch and
   every answer that is written down accounts for each share, and the ERP never takes from an
   entry what is not left there (build_purchase_intent, _validate_allocation_details). *)
THEOREM PlansAreKept == Spec => []PlanInv
<1>1. Init => PlanInv
  BY InitFits
<1>2. BatchInv /\ PlanInv /\ [Next]_vars => PlanInv'
  BY StepFits
<1> QED BY <1>1, <1>2, BatchesCorrect, PTL DEF Spec

(* Also when the ERP answers with a wrong plan, the workbooks of a command that succeeds, made of
   the files of the intent or of what the batch recorded, hold every planned unit once and each
   order's own share, line by line, whatever the master workbook; a line whose planned products it
   spells in two ways is left out (_validate_allocation_details, _rebuild_purchase_sheet,
   _rebuild_restock_sheet). *)
THEOREM WorkbooksHoldThePlan == Spec => []SuccessHoldsThePlan
<1>1. Spec => []PlanInv
  BY PlansAreKept
<1>2. PlanInv => SuccessHoldsThePlan
  BY DEF PlanInv
<1> QED BY <1>1, <1>2, PTL

=============================================================================
