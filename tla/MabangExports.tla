---------------------------- MODULE MabangExports ----------------------------
(***************************************************************************)
(* Commands that export from the ERP, side by side in processes of their   *)
(* own, over the login they share.  Each process runs one command: it asks *)
(* for the login before every request (get_auth_context), reads the        *)
(* answer, and starts over once when its login is not taken.               *)
(*                                                                         *)
(* The ERP is modelled from how the exports use it: it may refuse any      *)
(* login, and remembers of each login what was last searched for in the    *)
(* warehouse.                                                              *)
(***************************************************************************)
EXTENDS BrowserAuth, ExportProtocols, ExportResults, SequencesExt

CONSTANTS
  Kinds,           \* p -> the commands p may run
  WmsAttempts,     \* FBA_LOGISTICS_WMS_EXPORT_RETRY + 1
  MaxPolls,        \* how often a task is looked at before its deadline
  Parts,           \* the numbers of parts the ERP may split a stock SKU export into
  DeliveryLines,   \* the lines of the delivery file an MSKU export is made for
  DetailFile,      \* the detail file of the ERP
  StockFile,       \* batch -> the file of its stock SKUs
  StoreQuery,      \* the store that is asked for
  StoreList,       \* the stores the page lists
  BoxRows          \* the rows of the consignment

ASSUME KindsAssumption == \A p \in Procs : Kinds[p] \subseteq DOMAIN Plans

(* What the ERP has exported are lists of rows, and the item of a row of boxes is its own. *)
ASSUME FilesAssumption ==
  /\ DetailFile \in Seq(Range(DetailFile))
  /\ \A b \in DOMAIN Batches : StockFile[b] \in Seq(Range(StockFile[b]))
  /\ StoreList \in Seq(Range(StoreList))
  /\ BoxRows \in Seq([box : Nat, item : {BoxRows[i].item : i \in DOMAIN BoxRows}])
  /\ \A i, j \in DOMAIN BoxRows : BoxRows[i].item = BoxRows[j].item => i = j

VARIABLES
  kind,            \* p -> the command it runs, or None
  doing,           \* p -> "idle", "asking", "renewing", "fetching", "done" or "failed"
  at,              \* p -> the step of its plan
  parts,           \* p -> the parts of a batch that are still to be prepared
  attempt, limit,  \* p -> the attempt it makes, and how many it may make
  renewed,         \* p -> whether it has renewed the login
  polls,           \* p -> how often it has looked at its task
  made,            \* p -> what its steps gave in this attempt
  searched         \* login -> the process that searched the warehouse with it last

commandVars == <<kind, doing, at, parts, attempt, limit, renewed, polls, made, searched>>
vars == <<now, authVars, commandVars>>

Init ==
  /\ now = 0
  /\ AuthInit
  /\ kind = [p \in Procs |-> None]
  /\ doing = [p \in Procs |-> "idle"]
  /\ at = [p \in Procs |-> 1] /\ parts = [p \in Procs |-> 0]
  /\ attempt = [p \in Procs |-> 1] /\ limit = [p \in Procs |-> 1]
  /\ renewed = [p \in Procs |-> FALSE]
  /\ polls = [p \in Procs |-> 0]
  /\ made = [p \in Procs |-> <<>>]
  /\ searched = [n \in 1..MaxLogins |-> None]

StepOf(p) == Plans[kind[p]][at[p]]

(***************************************************************************)
(* Where a command goes on.                                                *)
(***************************************************************************)
Leaves(p) == phase' = [phase EXCEPT ![p] = "away"] /\ UNCHANGED <<file, lock, jar, material, ensured, logins>>

Fail(p) ==
  /\ doing' = [doing EXCEPT ![p] = "failed"]
  /\ Leaves(p)
  /\ UNCHANGED <<at, parts, attempt, limit, renewed, polls, made>>

(* The next attempt makes everything anew. *)
Restart(p) ==
  /\ attempt' = [attempt EXCEPT ![p] = @ + 1]
  /\ at' = [at EXCEPT ![p] = 1] /\ parts' = [parts EXCEPT ![p] = 0]
  /\ polls' = [polls EXCEPT ![p] = 0]
  /\ made' = [made EXCEPT ![p] = <<>>]
  /\ doing' = [doing EXCEPT ![p] = "asking"]
  /\ AskForMaterial(p)
  /\ UNCHANGED <<limit, renewed>>

(* refresh_mabang_auth: the login is renewed, and the attempt to follow is granted. *)
Renew(p) ==
  /\ renewed' = [renewed EXCEPT ![p] = TRUE]
  /\ doing' = [doing EXCEPT ![p] = "renewing"]
  /\ AskForRefresh(p)
  /\ UNCHANGED <<at, parts, attempt, polls, made>>

(* An export whose login is not taken: one refresh in a command, whatever the attempts. *)
AuthTrouble(p) ==
  IF renewed[p] THEN Fail(p)
  ELSE /\ limit' = [limit EXCEPT ![p] = IF attempt[p] < @ THEN @ ELSE @ + 1]
       /\ Renew(p)

(* Another failure: the WMS download tries again while it may, the others give up. *)
OtherTrouble(p) ==
  IF kind[p] = "wms" /\ attempt[p] < limit[p] THEN Restart(p) ELSE Fail(p)

(* get_auth_context fails: run_export_pipeline takes it for a login that is not taken, the *)
(* WMS download for any other failure, and the other exports do not catch it.              *)
NoMaterial(p) ==
  IF kind[p] \in {"msku", "store_msku"} THEN AuthTrouble(p) ELSE OtherTrouble(p)

(* A step gave its part; jump leads over the steps that are not needed. *)
Advance(p, entry, jump) ==
  LET next == at[p] + 1 + jump
  IN /\ made' = [made EXCEPT ![p] = Append(@, entry)]
     /\ at' = [at EXCEPT ![p] = next]
     /\ polls' = [polls EXCEPT ![p] = 0]
     /\ IF next > Len(Plans[kind[p]])
        THEN doing' = [doing EXCEPT ![p] = "done"] /\ Leaves(p)
        ELSE IF Plans[kind[p]][next].keyed
        THEN doing' = [doing EXCEPT ![p] = "asking"] /\ AskForMaterial(p)
        ELSE doing' = [doing EXCEPT ![p] = "fetching"] /\ Leaves(p)
     /\ UNCHANGED <<attempt, limit, renewed>>

(* The step is made again: another look at a task, or the next part of a batch. *)
Repeat(p) ==
  /\ doing' = [doing EXCEPT ![p] = "asking"]
  /\ AskForMaterial(p)
  /\ UNCHANGED <<at, attempt, limit, renewed, made>>

(* Mutant: every look at the task has the whole time before it. *)
PendingForever(p) == Repeat(p) /\ UNCHANGED <<parts, polls>>

(* The task is looked at before the deadline is: a task done in time is never given up. *)
Pending(p) ==
  IF polls[p] + 1 < MaxPolls
  THEN /\ polls' = [polls EXCEPT ![p] = @ + 1]
       /\ Repeat(p)
       /\ UNCHANGED parts
  ELSE OtherTrouble(p)

(***************************************************************************)
(* The ERP's answers.                                                      *)
(***************************************************************************)
Answer(status, form, code, content) ==
  [status |-> status, form |-> form, code |-> code, content |-> content]

(* The login a request is sent with: the FBA interfaces take the token, the others cookies. *)
FbaAsks == {"delivery", "delivery_task", "task_row", "task_info", "shop", "total", "status_task"}

LoginSent(p) ==
  CASE StepOf(p).ask \in FbaAsks -> material[p].token
    [] StepOf(p).ask = "excel"   ->
         (CHOOSE c \in WmsCookieHeader(material[p].cookies) : c[1] = "wms")[2]
    [] StepOf(p).ask \notin FbaAsks \cup {"excel"} ->
         BuildCookieHeader(material[p].cookies,
                           IF StepOf(p).ask \in {"msku_ids", "store_ids", "search", "stock", "stores"}
                           THEN PrivateAmzHost ELSE PrivateHost)[SessionName]

GoodContents(p) ==
  LET ask == StepOf(p).ask
  IN CASE ask = "step1"    -> {<<n>> : n \in Parts}
       [] ask = "step2"    -> {<<"1">>, <<"0">>}
       [] ask = "step4"    -> {<<"0">>, <<"1">>, <<"1", "url">>}
       [] ask = "delivery" -> {<<>>, <<"row">>, <<"row", "row">>}
       [] ask = "task_row" -> {<<"not_found">>, <<"running">>, <<"failed">>, <<"done">>, <<"done", "hash">>}
       [] ask = "total"    -> {<<0>>, <<3>>}
       [] ask = "stores"   -> {StoreList}
       [] ask = "excel"    -> {<<>>, BoxRows}
       [] ask = "file"     -> {<<>>, IF kind[p] = "stock" THEN StockFile[StepOf(p).of] ELSE DetailFile}
       [] ask = "stock"    -> {<<searched[LoginSent(p)]>>}
       [] ask \notin {"step1", "step2", "step4", "delivery", "task_row", "total", "stores", "excel", "file", "stock"}
                           -> {<<"given">>}

GoodForm(ask) == IF ask \in {"excel", "file", "stock"} THEN "excel" ELSE IF ask = "stores" THEN "page" ELSE "object"

Refusals(p) ==
  {Answer(401, "other", "", <<>>)}
  \cup (IF StepOf(p).ask \in FbaAsks THEN {Answer(200, "object", "401", <<>>)} ELSE {})
  \cup (IF StepOf(p).ask = "excel" THEN {Answer(200, "login page", "", <<>>)} ELSE {})

Answers(p) ==
  (IF StepOf(p).keyed THEN Refusals(p) ELSE {})
  \cup {Answer(500, "other", "", <<>>)}
  \cup {Answer(200, GoodForm(StepOf(p).ask), "200", content) : content \in GoodContents(p)}

(***************************************************************************)
(* The actions of a command.                                               *)
(***************************************************************************)
StartCommand(p, k) ==
  /\ doing[p] = "idle"
  /\ kind' = [kind EXCEPT ![p] = k]
  /\ limit' = [limit EXCEPT ![p] = IF k = "wms" THEN WmsAttempts ELSE 1]
  /\ doing' = [doing EXCEPT ![p] = "asking"]
  /\ AskForMaterial(p)
  /\ UNCHANGED <<now, at, parts, attempt, renewed, polls, made, searched>>

(* What a step keeps of its answer. *)
Entry(p, answer) ==
  [ask |-> StepOf(p).ask, of |-> StepOf(p).of, attempt |-> attempt[p],
   content |-> IF StepOf(p).ask \in {"file", "stock", "stores", "excel"} THEN answer.content ELSE <<>>]

(* Step 2 is made for each part of a batch, and a state with no shipments is passed over. *)
Given(p, answer) ==
  LET ask == StepOf(p).ask
  IN CASE ask = "step1" -> /\ Advance(p, Entry(p, answer), 0)
                           /\ parts' = [parts EXCEPT ![p] = Head(answer.content)]
       [] ask = "step2" /\ parts[p] > 1 -> /\ parts' = [parts EXCEPT ![p] = @ - 1]
                                           /\ Repeat(p)
                                           /\ UNCHANGED polls
       [] ask = "total" /\ Head(answer.content) = 0 -> Advance(p, Entry(p, answer), 4) /\ UNCHANGED parts
       [] ~(ask = "step1" \/ (ask = "step2" /\ parts[p] > 1) \/ (ask = "total" /\ Head(answer.content) = 0))
            -> Advance(p, Entry(p, answer), 0) /\ UNCHANGED parts

Outcome(p, answer) ==
  LET reading == Reading(StepOf(p).ask, answer)
  IN \/ reading = "ok"      /\ Given(p, answer)
     \/ reading = "pending" /\ Pending(p)
     \/ reading = "auth"    /\ AuthTrouble(p)
     \/ reading = "error"   /\ OtherTrouble(p)

(* The headers could not be built of the material: a login that is not taken. *)
HeadersMissing(p) == kind[p] \in {"msku", "store_msku", "stores"} /\ PrivateAmzHeaders(material[p].cookies) = None

Ask(p) ==
  /\ doing[p] = "asking" /\ phase[p] = "given"
  /\ IF HeadersMissing(p) THEN AuthTrouble(p) /\ UNCHANGED searched
     ELSE \E answer \in Answers(p) :
            /\ Outcome(p, answer)
            /\ searched' = IF StepOf(p).ask = "search" /\ answer.status = 200
                           THEN [searched EXCEPT ![LoginSent(p)] = p] ELSE searched
  /\ UNCHANGED <<now, kind>>

AskDenied(p) ==
  /\ doing[p] = "asking" /\ phase[p] = "denied"
  /\ NoMaterial(p)
  /\ UNCHANGED <<now, kind, searched>>

Renewed(p) ==
  /\ doing[p] = "renewing" /\ phase[p] = "given"
  /\ Restart(p)
  /\ UNCHANGED <<now, kind, searched>>

(* The login could not be renewed: the command ends with that. *)
RenewalDenied(p) ==
  /\ doing[p] = "renewing" /\ phase[p] = "denied"
  /\ Fail(p)
  /\ UNCHANGED <<now, kind, searched>>

FetchFile(p) ==
  /\ doing[p] = "fetching"
  /\ \E answer \in Answers(p) : Outcome(p, answer)
  /\ UNCHANGED <<now, kind, searched>>

Tick ==
  /\ now < Horizon
  /\ now' = now + 1
  /\ UNCHANGED <<authVars, commandVars>>

(* The steps a process makes by itself once it is started. *)
ProcStep(p) ==
  \/ AuthStep(p) /\ UNCHANGED commandVars
  \/ Ask(p) \/ AskDenied(p) \/ Renewed(p) \/ RenewalDenied(p) \/ FetchFile(p)

Finished == \A p \in Procs : doing[p] \in {"done", "failed"}

Next ==
  \/ Tick
  \/ \E p \in Procs : ProcStep(p) \/ \E k \in Kinds[p] : StartCommand(p, k)
  \/ Finished /\ UNCHANGED vars

Spec == Init /\ [][Next]_vars /\ \A p \in Procs : WF_vars(ProcStep(p))

(***************************************************************************)
(* Properties.                                                             *)
(***************************************************************************)

(* What a command delivers of the files it has fetched. *)
Contents(p, ask) ==
  LET entries == Among(made[p], {e \in Range(made[p]) : e.ask = ask})
  IN [i \in DOMAIN entries |-> entries[i].content]

MskuSheets(p) == SplitByDeliveryShop(Head(Contents(p, "file")), DeliveryMskuPairs(DeliveryLines))
StockNames(p) == NamesByKey(Contents(p, "file"))
ResolvedStore(p) == MatchFbaStore(StoreQuery, ParseFbaStoreOptions(Head(Contents(p, "stores"))))
BoxFiles(p, whole) == DeliverableFiles(Head(Contents(p, "excel")), whole)

(* The saved login is whole: every cookie and the token are of one login, and nothing of the *)
(* browser's other sites is in it, wherever a process that was saving it has stopped.        *)
StateIsOneLogin ==
  file # None =>
    /\ \A i \in DOMAIN file.cookies : file.cookies[i].value = file.token
    /\ \A i \in DOMAIN file.cookies : ~DomainMatches(DingtalkDomain, file.cookies[i].domain)

(* A saved login that can still be used is given up only for a command that is renewing it: *)
(* the commands that waited for a login while another logged in take the one they find.     *)
GoodLoginIsKept ==
  [][(file # None /\ CompleteAuthMaterial(file, now) /\ file' = None)
       => \E p \in Procs : doing[p] = "renewing" /\ phase[p] = "refresh" /\ lock' = p]_vars

StepsOf(p) == [i \in DOMAIN made[p] |-> <<made[p][i].ask, made[p][i].of>>]

PlannedSteps(p) == [i \in DOMAIN Plans[kind[p]] |-> <<Plans[kind[p]][i].ask, Plans[kind[p]][i].of>>]

(* Every row is in one of the files, once; the rows of a file are in their order; and those of
   one box, and no others, are in one box of a file. *)
HoldsTheBoxes(boxFiles, rows) ==
  LET Placed(i, k, j) == k \in DOMAIN boxFiles /\ j \in DOMAIN boxFiles[k] /\ boxFiles[k][j].item = rows[i].item
  IN /\ \A k \in DOMAIN boxFiles : \A j \in DOMAIN boxFiles[k] : \E i \in DOMAIN rows : Placed(i, k, j)
     /\ \A i \in DOMAIN rows : \E k \in DOMAIN boxFiles : \E j \in DOMAIN boxFiles[k] : Placed(i, k, j)
     /\ \A k, l \in DOMAIN boxFiles : \A j \in DOMAIN boxFiles[k], m \in DOMAIN boxFiles[l] :
          \A i, h \in DOMAIN rows : Placed(i, k, j) /\ Placed(h, l, m) =>
            /\ i = h => k = l /\ j = m
            /\ k = l /\ j < m => i < h
            /\ rows[i].box = rows[h].box <=> k = l /\ boxFiles[k][j].box = boxFiles[l][m].box

BoxesFit(boxFiles) ==
  \A k \in DOMAIN boxFiles : \A j \in DOMAIN boxFiles[k] : boxFiles[k][j].box \in 1..BoxLimit

(* The steps of a plan are made in one attempt, each once and in their order. *)
MadeInOneAttempt(p) ==
  /\ \A i \in DOMAIN made[p] : made[p][i].attempt = attempt[p]
  /\ \A i, j \in DOMAIN made[p] : i < j => StepsOf(p)[i] # StepsOf(p)[j]
  /\ IF kind[p] = "unlinked"
     THEN \A s \in 1..Statuses : \E i \in DOMAIN made[p] : StepsOf(p)[i] = <<"total", s>>
     ELSE StepsOf(p) = PlannedSteps(p)

(* A finished command has made its whole plan in one attempt: no identifier, task or address *)
(* of an attempt that was broken off is in what it delivers, and the delivered files hold    *)
(* every row that was exported.                                                              *)
ResultIsOneAttempt ==
  \A p \in Procs : doing[p] = "done" =>
    /\ MadeInOneAttempt(p)
    /\ kind[p] = "stock" =>
         DOMAIN StockNames(p) = UNION {{row.sku : row \in Range(StockFile[b])} : b \in DOMAIN Batches}
    /\ kind[p] = "msku" => Len(MskuSheets(p).matched) + Len(MskuSheets(p).mismatch) = Len(DetailFile)
    /\ kind[p] = "stores" =>
         \A found \in ResolvedStore(p) : \A i \in DOMAIN StoreList :
           StoreList[i].name = StoreQuery => found.name = StoreQuery
    /\ kind[p] = "wms" =>
         /\ BoxFiles(p, TRUE) = << BoxRows >>
         /\ HoldsTheBoxes(BoxFiles(p, FALSE), BoxRows)
         /\ Cardinality(Boxes(BoxRows)) > BoxLimit => BoxesFit(BoxFiles(p, FALSE))

(* A command that was started comes to an end, with a result or an error: no wait for the lock, *)
(* no task that is looked at and no renewal of the login goes on for ever.                     *)
EveryCommandEnds ==
  \A p \in Procs : (doing[p] # "idle") ~> (doing[p] \in {"done", "failed"})

(* The warehouse stock a report is made of is what its own command searched for. *)
StockIsOfTheOwnSearch ==
  \A p \in Procs : (doing[p] = "done" /\ kind[p] = "warehouse") => Contents(p, "stock") = << <<p>> >>
=============================================================================
