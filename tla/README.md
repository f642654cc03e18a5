# Formal model of LXE Agent

TLA+ specifications of LXE Agent: of the part of its gateway that decides which
message runs when, and of the Python services that do the business of an Amazon
seller (replenishment, purchase, customs, shipments) over an ERP and browsers.
TLC checks them on small instances, TLAPS proves the central ones for every size.
The code is the reference: every definition names the lines it stands for in
`PROJECT.json` ("map").

## The system

LXE Agent is a desktop program for AI-driven automation. An Electron main process
holds the *gateway*: it takes messages from the desktop window and from Feishu,
queues them per session, and hands them as *turns* to a resident child process,
`agent-cli`, which talks to a language model and runs tools. Its tools for the
business are the commands of `lxeskill`, a Python program. A command is a process
of its own: it logs in to the ERP "Mabang" with a saved login, exports files,
calculates, fills in workbooks, commits to the ERP, or drives a store's browser
through Amazon's pages. Commands share files and browsers, nobody keeps the order
of commands but the agent and the user, and every answer from outside may be late,
wrong or missing.

### Inventory

| Component | State | Operations | Hard behaviour |
|---|---|---|---|
| Scheduler (`gateway/src/orchestration/scheduler.ts`) | `pending`, `ready`, `readySet`, `activeBySession`, `activeByRun`, fences, `runtimeReady` | `enqueue`, `drain`, `handleRuntimeEvent`, `requestStop`, `clearPendingMatching`, `setRuntimeReady`, `beginSessionDeletion` | slots shared by sessions, stale completions, a stop racing the end of its run, fences released twice |
| Process supervision (`process-runtime.ts`) | `child`, `state`, `stopping`, `manuallyStopped`, `restartAttempt`, timer, `pending` requests | `start`, `stop`, `restart`, `launch`, exits, recovery | every `await` of a call is a point where the child may exit or another call may begin |
| Turn protocol (`router.ts`, `composition.ts`, `agent-cli/server.ts`, `run-handle.ts`) | the queue and run of a session on one side, `activeRuns` and steering on the other, the pipes | `runTurn`, `steerTurn`, `cancelTurn`, answers | steering, stop and completion cross on the wire; crash, time-out, thrown turns |
| Replenishment (`mabang/amazon/fba/store_msku_*.py`, ...) | the files of the dataset directory: listings, sales, stock, shipments under way, Amazon's snapshots | download, analyse, snapshot, report | files of different downloads joined in one report; bundles, ties and zeros in the calculation |
| Schemes (`replenishment_template.py`) | one JSON file of custom schemes | create, import, replace, rename, export | read-modify-write without a lock; what an edited workbook may hold |
| Purchase (`agent_cli/mabang/erp_purchase_batch.py`, `generate_purchase_batch_workbooks.py`, `regenerate_purchase_files.py`, `fill_purchase_contracts.py`) | CSVs of delivery orders; batches and stock of the ERP; tokens and quotes shown to the user | preview, confirm, commit, workbooks, contracts, regenerate | files and stock that change between question and confirmation; lost and wrong answers of the ERP |
| Declarations (`fill_customs_declaration.py`, `fill_invoice_template.py`, `erp_packing_upload.py`, `download_wms_consignment_excel.py`) | delivery CSV and packing list of each order, documents, packing of the ERP | customs, invoice, packing upload | two documents made at different times must agree; insertion of rows shifts formulas |
| Mabang exports (`mabang/*`) | the steps, polls and retries of a command; what the ERP remembers of a login | eight exports | a login refused half-way; another process renews it; answers of another attempt |
| Browser authentication (`browser_auth/*`) | the saved login, its lock | `read`, `ensure`, `refresh` | two processes that want a new login, crashes between the stages, the cookies sent to a host |
| Store browsers (`browser/store/*`) | the client, its browsers, saved session records, store locks | open, exit, status, page commands | one client under per-store locks, stale records |
| Amazon shipment (`agent_cli/browser/amazon_common/*`) | the page; the work left to a stage; two sheets | four stages | pages that undo choices, lose clicks, fall back; stages that begin from what the page happens to show |
| Others | see `PROJECT.json` | | sessions, turn engine, providers, Feishu, Desktop, ... |

### How they interact

The gateway is one JavaScript thread: code between two `await`s runs without
interruption. So an action of a gateway module is a whole handler, or the part of it
between two awaits; what a handler knows after an await is exactly what it keeps in
local variables. An `await` of a promise that is already settled (the synchronous
SQLite store, for example) lets no other task run and is no boundary between actions.
The scheduler starts runs through the process supervision, which rejects every
request of a dead child; the turn protocol is what the two sides say to each other.

A Python command runs alone in its process. Where it meets other commands, an action
is what it does between two points at which another one can act: a request to a
server, a read or write of a shared file, a lock. Where commands only meet in files
that they write whole, an action is a whole command. The commands of replenishment
read each other's files; purchase and declarations start from the delivery CSV that
an export downloads; every export asks `browser_auth` for the login before each
request; the Amazon stages are page commands of the store browsers and are found in
`StoreBrowsers` as steps that may lose the browser.

## Modules

### SessionScheduler, TurnDispatch, SessionSchedulerProofs

`SessionScheduler` is `SessionScheduler` of `scheduler.ts`. The variables carry
the names of the fields (`pending`, `ready`, `readySet`, `activeBySession`,
`activeByRun`, `runtimeReady`); `sessionFences` and `keyFences` are the two fence
sets and `lease` holds the closures `beginSessionDeletion()` returned and whether
they have been called. `drain` is a fold over `ready` and is part of every action
whose handler calls it (`enqueue`, `handleRuntimeEvent`, `setRuntimeReady`, ...),
never an action by itself. `executing` are the runs that the runtime port has
started and not settled; completions (`Completion`) may be late, duplicated or
for another session, because the code guards against them. `requestStop` and
`cancelSettles` are the two halves of a stop around the `await`.

`TurnDispatch` is the promise in a few lines of actions: sessions have a bounded
number of slots, and a session's jobs run one at a time and once. `ImplementsTurnDispatch`
says that the scheduler implements it.

Left out: `draining` and `closing`, flags that are only ever seen inside one
synchronous block; log lines; `steerActive`, which changes no state of the
scheduler and is in `TurnProtocol`.

### AgentProcess, AgentProcessProofs

`ProcessAgentRuntime` of `process-runtime.ts`, with the operating-system
processes (`proc`) as its environment, and as much of the scheduler as depends on
the status callback. `call` is the program counter of the calls of `start`,
`stop`, `restart` and of recovery; each value is an `await` of the code. A process
can exit, hang, answer, or write a line that is no JSON at any time. `overlapped` is a
history variable: a call began before another returned. Processes are numbered in the
order they are spawned; every one is spawned by a call of its own or by a recovery after
a fault, which is where the run's `MaxChildren = 8` comes from: it never holds a launch back.

### TurnProtocol, TurnProtocolProofs

One session across the two processes: the gateway's queue and active run, the
server's `activeRuns` with the steering each handle holds, and the two pipes
(`toAgent`, `toGateway`), which are ordered and lose nothing as long as the
process lives. Messages are model values. A
message is routed as a job or as steering, may be accepted, refused or time out,
is consumed by a turn, returned at its end, or dropped by a stop.

### StoreReports, ReplenishmentRows, Replenishment

`StoreReports` holds the analyses as operators: sales and their trend, stock of a
listing from the warehouse export and the bundles it is part of, unlinked shipments,
Amazon's restock and FBA snapshots. `ReplenishmentRows` decides a row: periods by
trend and by how the shipment travels, target, what is missing, deductions, and the
suggestion. `Replenishment` has one action per command; its variables are the files,
by the time of the listing download they belong to, because the code finds them by
the timestamp in their names. `report` is the report just written.

### ReplenishmentTemplate, TemplateStore, TemplateStoreProofs

`ReplenishmentTemplate` is what makes a scheme valid, how its sheet is written, read
and checked again, and how the calculation looks things up in it. The bounds of ranges are kept in millionths (finer
ones are not represented) and written with six digits as `_display_number_text` does (`Shown`); `TiesUp` is which of the bounds half-way
between two texts a binary fraction puts above, since that is not a matter of decimal digits. `TemplateStore` is
the JSON file and the commands that read it, parse a workbook and write it back as a
whole; a command is two actions, because nothing locks the file. `raced` is a history
variable: two commands overlapped.

### DeliveryCsv, PurchasePlan, PurchaseBatch, PurchaseBatchProofs

`DeliveryCsv` reads the lines of a delivery order. `PurchasePlan` computes the lines of an intent from
CSVs and the master workbook, what remains unmatched, the checks of every answer of
the ERP, the workbooks and the rows of contracts. `PurchaseBatch` is the command,
from its arguments to the files written: `Start`, `AskErp` (preview), `ImportAgain`,
`ImportRefused`, `Import`, `Write`, and `Regenerate`. The ERP is modelled from what the
command checks of it: first-in-first-out deduction, conflicts, quotes, idempotence by
request id. With `FaultyServer` it also answers wrongly (every share to one order, or a line forgotten), and any answer may be lost after
the commit. An answer is checked the same way whether its batch is new or has been committed before (`Committed`).
The ERP lays the shares of a line end to end over what is left in the entries of its model (`ShareSpan`, `SourceSpan`): a detail is
the part of one share that one entry covers, or what none does.
A file is a version and a content, because both its name and its digest go into the request.

The assumptions on its constants: the quantities of a delivery CSV are natural numbers, which is what the reader takes
of a cell (digits), and its rows are finitely many (`OrdersAssumption`); the products of the master workbook are a sequence
(`MasterAssumption`); the entries of the ERP's stock are a sequence, each with a quantity and the contract it comes from, without which an
answer is refused (`EntriesAssumption`).

### ShipmentQuantities, CustomsRows, InvoiceRows, CustomsSheets, ChineseAmount, PackingUpload, Declarations

What was packed, counted in stock SKUs (`ShipmentQuantities`); the rows of the customs
declaration and of the invoice with their prices and weights (`CustomsRows`, `InvoiceRows`);
the rows inserted into and deleted from a template sheet, with the formulas that must move with them
(`CustomsSheets`); an amount in Chinese words (`ChineseAmount`); the quantities sent to
the ERP and the question asked when they are those of the plan (`PackingUpload`).
`Declarations` composes them: downloads, warehouse packing, and the four commands in
any order. A customs declaration reads its orders one after the other, so a download
may come in between.

### AuthMaterial, BrowserAuth, ExportProtocols, ExportResults, MabangExports, MabangExportsProofs

`AuthMaterial` is the saved login: its cookies, which of them are sent to a host, expiry.
`BrowserAuth` is `read`, `ensure` and `refresh`, by processes that share a lock and the
file; a login has stages, between which the process may crash. `ExportProtocols` gives
the requests of each of eight exports in order, with polls, `ExportResults` what a command makes of
the files. `MabangExports` composes them: a process asks for the login before every
request, fetches, reads the answer, and starts over once with a new login. The ERP
refuses any login at any time and remembers of each login the last search. The exported files are constants:
`FilesAssumption` says that they are lists of rows and that each row of boxes has an item of its own, by which the properties tell rows apart.
`ListsAssumption` says that there is a batch of SKUs: without SKUs the code returns before its first request (`stock_sku_export.py:471`).

### StoreBrowsers, StoreBrowsersProofs

Commands in processes of their own; `cmd[p]` is where each is, `holder` the locks,
`sessions` the saved records, `client` and `browsers` the one client (external). An attach may find the
port of another browser; a client that does not answer is killed and started again,
with everyone's browsers. `disturbed` is a history variable of a command: a fault, or
a restart by another command, has met it.

### ShipmentSheets, SellerPages, OwnCarrierPage, AmazonShipment, AmazonShipmentProofs

The sheets that are uploaded (`ShipmentSheets`); the pages and the waits, clicks and verified
choices over them, a stage being a list of things to do and the operations on it
(`SellerPages`, `OwnCarrierPage`); `AmazonShipment` is the agent that
begins stages, the steps of a stage, and Amazon. Amazon (external) has one of four layouts,
loses a click, is slow, undoes a choice, falls back to step 2, or refuses a file, at most `MaxFaults` times.
The assumptions on its constants are the code's own: a consignment numbers at least one box (`extract_box_count` raises
otherwise) and its quantities are natural numbers (`TasksAssumption`); the layouts are the four the code tells apart, a shipment is in the list once
per tab and has a number of boxes (`PagesAssumption`); a calendar, looked at twice a second for a minute, can be turned the at most three
months it is away from the date (`BoundsAssumption`).

`ReplenishmentSchemes` holds the schemes that two instances share. The `MC` modules instantiate a
module for TLC and hold its files, workbooks, stores and pages; `None` and `Blank` are model values.

## Runs

| Run | Shows | Bounds |
|---|---|---|
| SchedulerSafety | the ready list is exact, deletions are fenced, order within a session, accepted stops end the turn; implements `TurnDispatch` | 3 sessions, 1 session key, 3 jobs, 2 slots, 2 leases: one session always waits, one session or key can be fenced twice, and a message of an unfenced session can carry a fenced key |
| SchedulerLiveness | no job waits for ever | 2 sessions with a backlog share one slot, 3 jobs |
| ProcessSupervision | nothing is left behind, readiness is truthful, a stop is final, recovery succeeds or gives up | 3 calls that may overlap, 2 recoveries, 2 faults, 2 restarts, 8 processes: a fault can hit the recovery of another |
| TurnDelivery | every message reaches one turn or waits in one place, none twice, turns do not overlap, messages settle | 3 messages, 1 stop, one each of a time-out, a throwing turn and a crash: one message can be steering while another waits |
| replenishment | files joined are of one download unless it was overwritten, what ships is what is missing, every unit is counted once, more under way never ships more | 2 downloads of the listings, also in one minute, of 5 contents; 2 stocks and a bundle of two parts, shipments of a few rows, 2 files of a kind, 3 schemes: by air, by sea, split, too light, blank and refused rows |
| template_store | stored schemes are valid, the store stays readable, an accepted export is the scheme, its bounds to six digits | 2 editors, bounds of up to seven digits and half-way between two texts, 2 names and automatic ones, version 2: two commands overlap at every point |
| purchase_batch | consent before commit, the asked route, success holds the plan, contracts are the batch, retries are recognised | an ERP that also answers wrongly or not at all, 4 commands, 2 batches, 1 new download and 1 move of the stock: each can fall between question and commit, and a commit can be repeated after both |
| declarations | customs and invoice agree, totals are conserved, stock is declared first, formulas follow their rows, a packing is refused exactly when it is shown to be the plan | 2 orders, one with packed numbers that differ and one without, an ERP that answers with a summary that can be read or with none, 3 commands, documents of up to 6 rows |
| mabang_exports | the saved login is one login, a result is one attempt, a good login is kept, commands end | 2 commands of any pair of kinds, 2 logins, one unit of time, 2 looks at a task, 2 parts: both find the login expired, one waits while the other logs in |
| store_browsers | an undisturbed command gets its store, commands end | 2 processes, 2 stores, 2 ports, 1 fault: one process restarts the client while the other is at any point |
| shared_client | deviation: a store's lock does not protect its browser | the same without a fault |
| amazon_shipment | what is accepted is what was asked for, an undisturbed stage succeeds, finished means shipped | 4 layouts, 2 regions, of which the label of one ("United Kingdom") has a name of the other's site ("IT") in it, a site the account lacks, 2 shipments, 2 faults, 7 begun stages: every stage can be repeated after its failure |

The bounds count how often something happens from outside (messages, stops, downloads, faults,
commands); each is a constant named `Max...` (or `Horizon`, `Steps`) and appears only in guards.
A run whose bounded environment can stop says `CHECK_DEADLOCK FALSE`; `mabang_exports`,
`store_browsers` and `amazon_shipment` check that nothing is stuck before its commands or stages
have ended. Session keys are those of the session's bindings (`desktop-gateway.ts:373-376`), which the router
looks up for each message (`router.ts:154`); one key is enough for a message to meet the fence of a key and not
that of its session. The scheduler's runs never enqueue at the front, as no caller in the repository does; the
proofs cover it, except `SessionsAreFifo`, which supposes it. Time in the exports runs over 0..`Horizon`: it is only compared with the expiry
of cookies, so that one step of it separates valid from expired, with `Skew` in between.
Quantities and prices are chosen so that a wrong operator gives another number: shares that do
not divide, sums that differ from their rounded parts, models bought twice at two prices.

### Fairness

* Scheduler (`SchedulerLiveness`): the runtime ends every run it is given (the turn is ended by the
  model, by its limit of steps, or by the exit of the process, and `ProcessAgentRuntime` rejects
  every request of a dead process). `NoStarvation` supposes that readiness recurs, which is what
  `RecoversOrGivesUp` is about. Nothing is assumed of users.
* Process: reactions to settled promises run, timers fire, an initialization answers or times out,
  shutdowns end or are killed. Faults happen or not.
* Turn protocol: pipes are read, turns end, requests are answered.
* Exports and store browsers: a process that runs a command takes its steps. That is all: the answers,
  the lock's deadline and the deadline of the client are among those steps (`WF` of the
  disjunction of one process's steps), and which of them is taken is free.

### History variables

`overlapped` (AgentProcess): a call of `start`, `stop` or `restart` began before another returned.
`raced` (TemplateStore): two commands overlapped.
`downloads` and `outdated` (Replenishment): how many listing files were downloaded, and the reports whose listing
file a later download has overwritten. `disturbed` (StoreBrowsers): the command met a
fault, a wait that was too long, or the end of the client by another command. `met` (AmazonShipment): a stage met
something that its page does not do by itself. They are only assigned, never
read by an action, but for the bound on `downloads`. The `result` of a purchase command keeps its request, for the properties. Properties that exclude such histories say so; what happens in them is below.

## Deviations

`shared_client` is a run. Each of the others is seen by a run of the project with one change, given here.

| Property | Run and change | What the code does, and what is said of it |
|---|---|---|
| `LockedBrowsersAreLeftAlone` | shared_client | `store_driver_session.py:23` says that the lock serializes what is done to a store's browser; a command for another store that finds the client silent kills it with all browsers |
| `ReadyNeedsRuntime` | SchedulerSafety, that PROPERTY | a session enters the ready queue while the Runtime is not ready: `markReady()` (`scheduler.ts:354-359`) does not ask, only `drain()` does. `docs/harness/gateway/session_scheduler_cancellation.md:24` says "只有 Runtime ready 且该 session 不 active 时才进入 ready queue" (enters it only when the Runtime is ready and the session is not active). `ReadyIsExact` is what the code keeps |
| `StoppedRunsLeaveNothing` | TurnDelivery, that INVARIANT, 2 messages, no faults | `scheduler.ts:294` marks the run cancelled only when `cancelTurn()` has resolved: steering of a run that ends meanwhile is requeued and runs after the stop (`docs/harness/gateway/session_scheduler_cancellation.md:73`) |
| `SteeringNeverLost` | the same, no stop, only throws | a turn that throws loses the steering it had acknowledged (`server.ts:401`; the same document, line 97) |
| `DispatchOnlyWhenHealthy` | ProcessSupervision as PROPERTY of `Spec`, 2 callers, 2 jobs, no faults | during `restart()` jobs are dispatched to a process that is closing (`process-runtime.ts:258`) |
| `RetryCompletes` | purchase_batch, 3 commands | a file downloaded again with the same content is another request, because its name is part of it (`erp_purchase_batch.py:383`); the skill says that the same command completes what is missing |
| `EverySpellingIsHeld` | purchase_batch, that INVARIANT, `Master <- MCMasterVariants`, `Entries <- MCEntriesAmple` | models that differ only in case are one line for the ERP and two keys of the summary, each of which gets the rows of the whole line (`erp_purchase_batch.py:254`) |
| `IdenticalNeedsAsking` | declarations | packing identical to the plan is uploaded unasked when the ERP's answer has no summary that can be read (`erp_packing_upload.py:290-297`), or when the plan is replaced by it before the confirmation, which makes no check (`:414-421`); the docstring (`:277-279`) leaves `--confirm-identical` as the one way |
| `ExportedSheetReadsBack` | template_store, `Sheets <- FallbackSheets` | a scheme with a fall-back tier is exported as a sheet that its own parser refuses (`replenishment_template.py:966`) |
| `AcceptedExportIsExact` | template_store, that INVARIANT | a bound of a range is written with six digits (`replenishment_template.py:192-196`): 1.234567 comes back as 1.23457 from an export that nobody touched |
| `StoreStaysReadable` without `~raced` | template_store | two commands that overlap may save two schemes of one name, which no command reads again |
| `ReportsAreJoined` | replenishment, that INVARIANT | a second download in one minute overwrites the listing file of the first (`store_msku.py:166-167`, `:396`, `:409`): the report of the stock, made of the second, is joined with that of the sales, made of the first |
| `ShipsWhatIsMissing` | replenishment, `Schemes <- LongSchemes` | a companion period longer than the row's own subtracts more than is missing (`store_msku_replenishment.py:1014`) |
| `StockIsOfTheOwnSearch` | mabang_exports, `Kinds <- TwoSearches` | the ERP exports the last search of a login; two commands with one login export each other's (`store_msku_actual_inventory.py:505`) |
| `MarketplaceIsTheOneAsked` | amazon_shipment, that INVARIANT | a site's name is looked for as part of the label (`region_switch.py:174-180`): "IT" is found in "UNITEDKINGDOM", and a shipment for Italy is made in the United Kingdom |

Met while modelling, contained in the models:

* Gateway: a refused steering message goes to the tail of the queue (`router.ts:194`; the
  documentation says the head). Overlapping restarts of the agent overwrite a live child
  (`process-runtime.ts:176`).
* Purchase and declarations: the number of units is the components divided by the ordered
  quantity of an MSKU; the CSVs are read again after the commit; with more than three orders a file
  is named after the first three; rows of little weight may be written as 0.0; the print area does not grow with
  inserted rows; the invoice refuses a model with bought and stock rows that customs accepts.
* Schemes: `>=X` of an air tier is silently read as `>X`.
* Exports: a refresh that fails leaves every command logged out; the first PHPSESSID is
  checked and the best fitting one is sent; one export may use two logins, one after the other; the WMS parts
  of two commands have one name; an old `.xls` hides a new `.xlsx`.
* Store browsers: exit of the last store closes the client, and the report after it starts it or fails;
  exit checks and closes without a lock; a failed report follows a successful open;
  status may kill the client; a stale record whose port is used again attaches to another store.
* Amazon: a blank MSKU reads "nan"; step 1 counts rows without a box that step 2 drops; a notice of an earlier upload may be taken for this one's (the
  model answers an upload by its own notice only); two layouts choose without looking again; a stage begun again after the acceptance makes a second shipment.
  The model supposes that changing the ship date may clear the delivery date, that dates do not reset
  drop-downs, and that files made anew clear an earlier answer to step 2.

## Proofs

TLAPS checks them for every value of the constants, from the named assumptions of the modules and no others.

`SessionSchedulerProofs`. `Spec => []SchedulerInv` and from it the invariants of the scheduler, for every set of
sessions, jobs and leases and every number of slots. None of them is inductive alone. `SchedulerInv` strengthens them so that
they support each other: the ready list is exact (every idle session with work, once), the two maps of active runs are
inverse to each other, a session is never ready and active, a fenced session has no work, and, while the runtime is ready, a non-empty ready
list means that every slot is taken. The heart is `drain`: lemmas state what the fold over `ready` preserves
for any prefix it dispatches; each action is one `drain` (or none) over a state the action has prepared, with one step
per action. `FencesHold` needs besides that leases that are held have raised different fences, `AcceptedStopsEndTurns`
that only a completion takes a run out of `activeByRun`, and what it publishes then. `JobsAreInOnePlace` adds that a job is in one queue, once, or
runs; with it every step of the scheduler is a step of `TurnDispatch` or a stutter (`SchedulerImplementsTurnDispatch`):
a drain moves each job it dispatches one stage forward and no other. `SessionsAreFifo` is an action property and needs no invariant beyond these: a drain takes the heads of queues only, an enqueued job is behind all others, clearing a queue leaves the order of what remains, and left-over steering is a new job, which goes before those that wait. Its only
hypothesis is that no caller asks for the front.

`AgentProcessProofs`. `ProcessInv`, for every set of calls and jobs and every number of faults, restarts and processes.
Its first parts hold however calls overlap: what a call waits for is there to be waited for (`CallsHaveTheirProcess`); the
scheduler is ready only for a child that answered its initialization, until the stop that takes this child down is over
(`ReadinessFollows`, which gives `ReadyIsTruthful`); a stop disarms the timer (`StopDisarms`). The last, `OneAtATime`, supposes that no
two calls have overlapped. It says that no launch meets the child of another, that a process without a connection is closing and
some call waits for its exit, and that a stop that has let its child go meets no new one: `NothingLeftBehind` and
`StopIsFinal` follow. None of these parts is inductive without the others: that the next launch meets no
child needs what the pending recoveries hold, and that needs what a stop does to the timer. There is one
lemma per action, and before them one per helper (`Drain`, `Spawn`, `Terminate`, ...) that states its effect for any call.

`TurnProtocolProofs`. `TurnInv`, for every finite set of messages, every number of stops and every set of faults. Its parts speak of the
queue, the pipes and the handles they are given, so that they can also be said of the state `drain` finds in the
middle of a step. `Jobs`: no message is in two jobs. `Slot`: the slot of the scheduler is taken as long as its run has a line on
the way, a turn in the agent, or an answer, one of them at a time; `OneTurnInAgent` follows. `Apart` and `Once`: a message is in one place
at most, and in no line twice. `Fresh`: no turn has taken in a message that is still on its way, which makes `NeverTwice`
inductive. `Kept`: a message that was promised an answer waits somewhere or was taken in, unless a turn threw or the process died;
with the others it gives `EachMessageOnce`, whose sum is then exactly one. That there is a run for every job, so that the
bound `Runs` never cuts anything off, is a lemma by counting (`RunsSuffice`): every run began with a message of its own.

`TemplateStoreProofs`. `StoreInv` says that what commands hold and the store contains was taken from accepted workbooks, and that as long as no two
commands overlapped, the one in progress still sees the store it has read. The second part is what makes
`StoreStaysReadable` inductive: a name that was free when it was chosen is free when it is written.
`ExportsReadBack` follows from the first: what is stored was read from some workbook, so that its tiers have the shape the reader gives them and no
special rule is empty; the label of a range says both of its bounds as they are
written (`LabelsReadBack`), a whole number as it is and any other within half of its sixth digit (`ShownIsClose`), and a list without empty rules loses none on the way
(`FullRulesAreKept`, by induction on its length). The parser may refuse a label that is written (`ExportedSheetReadsBack` does
not hold), but never reads it as something else. It rests on `SheetAssumption`: the rules of a sheet are a sequence.

`PurchaseBatchProofs`. `BatchInv` says of every batch of the ERP that what is left out and what is taken from stock
was consented to, and its route asked for; of every command that it gives only tokens and quotes that were shown, and
that it imports only on a route that is known; of every contract that it is the batch's. Plans, quotes and sums stay
opaque: these proofs hold whatever they compute, and whatever the ERP answers.

`WorkbooksHoldThePlan` (`Spec => []SuccessHoldsThePlan`) opens them. Its inductive invariant, `PlanInv`, says that a request asks what its own files
say (`RequestFits`), that the lines of every recorded batch and of every answer that is written down account for each share of
the request (`LinesFit`), and that what is left in an entry stays a natural number. The second and the third need each other across `replace`: a
batch gives back what it took, which is a number because its lines fit. TLC finds `PlanInv` to hold on the instance of
purchase_batch. The argument has four parts, each of them about sums over finite sets.

* Sums. `IsSums` states a sum as data, as a function on the subsets of a finite set; with `SubsetInduction` sums exist, are unique, split
  along unions and can be taken class by class (`SumUnion`, `SumByClass`).
* The intent (`IntentHolds`). Every product of an order has its share, and the planned units of a line are the sum of its shares.
  That joining the shares of the orders keeps them is by induction on their number.
* The ERP (`ErpLineHolds`). Shares and entries are laid end to end; `Tiling` shows that spans laid end to end, and the rest behind them, cover any other span
  exactly once, by counting the units before each mark (`OverlapBefore`). So each share is cut whole (`ShareIsCovered`), nothing is taken of an
  entry that is not left there, and the plan passes the very check the command makes (`AllocationsAgree`). A wrong answer that passes this check
  accounts for each share as well (`AnswersFit`).
* The rows. The rows of a line hold its details (`RowsHoldDetails`): what is taken from stock is added up by contract and price, what is bought now is one row. What the check compares
  SKU by SKU holds of every set of orders and SKUs (`AgreementInSets`), hence of the summary and of the sheet of each order.

Nothing is supposed of the master workbook. What is said of the rows is said line by line, of the lines whose planned products spell their
model in one way (`SpeltAlike`): the code does not enforce that (the row of `EverySpellingIsHeld` under Deviations), and a line
spelled in two ways takes nothing from the others.

`MabangExportsProofs`. `LoginInv`: who is at a stage of a login holds the lock, a held lock means that the saved login is
cleared, a process waits to refresh only for a command that renews, and a command that is busy elsewhere waits for nothing. From the second follows
that only the begin of a login clears the file; `ensure` does it after looking, so that a good one is cleared
only for a renewal (`GoodLoginsAreKept`). Each step of a command is shown to change nothing but its own two places first.
`SavedLoginIsWhole` adds `LoginIsWhole`: from the stage at which the browser has logged in, its cookies are those of one login, and the token
that is saved beside them is the one this login was given. The filter that drops the cookies of other sites is recursive over a sequence;
`NaturalInduction` (natural induction with a set of numbers in place of an operator) shows that it exists and what it keeps.

`ResultIsOneAttempt` is proved in the same module in two halves. The first is about the commands, `MadeInv`: what a command under way has made are
the steps of its plan so far, each once, all with the number of its present attempt; when it starts over it has made nothing, and when it is done it
is past the last step. For the unlinked shipments, which pass over the export of a status without any, the invariant says which steps
may be missing. It is inductive because the steps of a plan differ (`PlansFit`), so a step that was made is never the next one; that the plan
for many batches or statuses is laid end to end as the code's loops do it is `FlattenHolds`. No step of another command touches it, so nothing of the lock, the login
and the ERP's answers is in it. The second half is about the files, for any content: the details divide into two sheets that count up to
all (`SplitIsWhole`); the stock names are those of all batches (`StockIsWhole`); a store of the very name is preferred (`StoreIsNamed`); and boxes
have places without gaps in their order (`BoxNumbersAre`), from which part and number follow by division, so that rows of one box, and no
others, meet in one box of one file (`SplitHolds`).

`StoreBrowsersProofs`. `StoreInv`: who is past the lock of a store holds it; and while nothing has disturbed a command, the client
that answered it is up, and the browser it has started or attached to is that of its store. The second part is
preserved by the steps of others because closing a browser needs the lock of its store or the end of the client, which disturbs
everybody who relies on it. `OnlyDisturbedCommandsFail` follows at once, for any number of processes, stores, ports and faults.

`AmazonShipmentProofs`. `ShipmentInv`, for every set of consignments, every layout, every number of shipments and boxes, and every number of
faults and begun stages. Three parts hold whatever Amazon does. `PageIsRight`: what the page has come to hold (region,
SKUs, packing, mode, carrier, dates) is what the sheets and the choices of the consignment make of it, as far as the page has come; the quantities
follow from it, and the marketplace of a site whose names are in no other region's label (`TheAcceptedShipmentWasAsked`). `StageFollows`: what a stage still has to do is one of the suffixes of its plan, or of a plan
that a fall back to step 2 has put before it, with what its next step relies on; `CodesAreRight` and `FinishedIsShipped` (a stage that
is through its tabs has shipped each of them) give `AFinishedStageHasShipped`. The fourth, `Undisturbed`, says where the page is for the step that
comes next (`PlaceFor`) as long as `run.met` is false, and the fifth, `CalendarIsNear`, that the months turned and the months left are never
more than three. Both are needed for `AnUndisturbedStageSucceeds`: a step fails exactly when its page is not there or a calendar
runs out of time. They are inductive only together with `StageFollows`, which says what the next step is. There is one lemma per action;
before them, lemmas say what a click makes of a page and where a finished step leaves it (`Reached`).

The quantities are sums over rows, SKUs and boxes (`MapThenSumSet`), which recur over sets. `IsSums` states such
a sum as data, as a function on the subsets of a finite set that adds each element once; `SubsetInduction` is induction on a finite set with the set of
sets for which the claim holds in place of an operator. With these, sums exist, are unique, and split along unions and classes
(`TotalUnion`, `TotalByClass`), which is why the boxes of a SKU add up to its quantity.

### Only model-checked

Liveness (`NoStarvation`, `RecoversOrGivesUp`, `MessagesSettle`, `EveryCommandEnds`), which the prover does not reach;
and the properties of `Replenishment` and `Declarations`, whose core is
calculation over rows and layouts: what their folds over sequences of rows compute for every input needs induction over data, which the
lemmas on sums above replace for sums over sets only.

## Plan

Next, in this order:

1. The properties of `Replenishment` and `Declarations` whose sums are over sets, with the lemmas of `PurchaseBatchProofs`.
2. Local conversations (the mirror of the scheduler) and the turn engine's persistence.

## Not modelled

`PROJECT.json` lists every component. Not modelled are the heartbeat, the lifecycle of the gateway, the cached workspaces, the commands run in the
background and the Desktop's start and stop of the gateway, which meet the modelled parts only as ordinary
messages or at start and end; local conversations, bindings, turn engine, context, streaming, storage, providers, MCP and skills; Feishu and the
Desktop's cloud, whose logic is that of other parties' protocols; the automation of pages, which is JavaScript over pages specified nowhere; the
analyses of reviews, listings and keywords, which are one request each; the upload of tax products; and
vendored skills and user interfaces. In the modelled parts layouts of workbooks, images, wording, logging,
translations and the conversion of file formats are left out.
