--------------------------- MODULE ExportProtocols ---------------------------
(***************************************************************************)
(* The exports of the ERP (services/mabang/stock_sku_export.py and         *)
(* amazon/fba/msku_detail.py, store_msku.py, batch_delivery.py,            *)
(* unlinked_shipments.py, store_resolver.py, wms.py): which requests each  *)
(* makes and how it reads the answers.                                     *)
(*                                                                         *)
(* An answer is a record of status, form ("object", "page", "login page",  *)
(* "excel" or "other"), code (of the FBA interfaces) and content, which    *)
(* depends on the request.  Reading it gives "ok", "auth" (the login is    *)
(* not taken), "pending" (ask again) or "error".                           *)
(***************************************************************************)
EXTENDS Naturals, Sequences, FiniteSets, SequencesExt

CONSTANTS
  Statuses,        \* how many states of unlinked shipments are asked for
  Batches          \* the batches an export of stock SKUs is split into: sequences of SKUs

ASSUME ListsAssumption == Statuses \in Nat /\ Batches \in Seq(Range(Batches)) /\ Batches # <<>>

AuthFailStatus == {401, 403}

(* What every reader asks first of an answer. *)
ByStatus(answer, otherwise) ==
  IF answer.status \in AuthFailStatus THEN "auth"
  ELSE IF answer.status >= 400 THEN "error" ELSE otherwise

(* _read_stock_export_json: an object that does not say it failed. *)
ReadStockExportJson(answer) ==
  ByStatus(answer, IF answer.form = "object" /\ answer.code # "failed" THEN "ok" ELSE "error")

(* _read_msku_json *)
ReadMskuJson(answer) ==
  ByStatus(answer, IF answer.form = "object" /\ answer.code # "failed" THEN "ok" ELSE "error")

(* _read_store_msku_json *)
ReadStoreMskuJson(answer) ==
  ByStatus(answer, IF answer.form = "object" /\ answer.code # "failed" THEN "ok" ELSE "error")

(* _read_api_json: the FBA interfaces refuse a login with a code inside a good answer. *)
ReadApiJson(answer) ==
  ByStatus(answer,
           CASE answer.form # "object" -> "error"
             [] answer.form = "object" /\ answer.code = "200" -> "ok"
             [] answer.form = "object" /\ answer.code \in {"401", "403"} -> "auth"
             [] answer.form = "object" /\ answer.code \notin {"200", "401", "403"} -> "error")

(* _read_store_html *)
ReadStoreHtml(answer) == ByStatus(answer, IF answer.form = "other" THEN "error" ELSE "ok")

(* The checks of download_consignment_excel_from_wms, in its order. *)
ReadWmsExcel(answer) ==
  ByStatus(answer,
           CASE answer.form = "login page" -> "auth"
             [] answer.form = "excel" -> IF answer.content = <<>> THEN "error" ELSE "ok"
             [] answer.form \notin {"login page", "excel"} -> "error")

(* _read_json_response's kin of the warehouse search: what is not an object is taken as empty. *)
ReadOptionalJson(answer) ==
  ByStatus(answer, IF answer.form = "object" /\ answer.code = "failed" THEN "error" ELSE "ok")

(* A file is fetched from where the ERP has put it, without its login. *)
ReadDownload(answer) ==
  IF answer.status >= 400 \/ answer.content = <<>> THEN "error" ELSE "ok"

(***************************************************************************)
(* The requests.  Each validates the content of an answer that was read    *)
(* "ok".                                                                   *)
(***************************************************************************)
Validated(reading, valid) == IF reading # "ok" THEN reading ELSE IF valid THEN "ok" ELSE "error"

(* fetch_msku_detail_ids and parse_listsearch_ids *)
FetchMskuDetailIds(answer) == Validated(ReadMskuJson(answer), answer.content # <<>>)

(* export_msku_detail_file_url *)
ExportMskuDetailFileUrl(answer) == Validated(ReadMskuJson(answer), answer.content # <<>>)

(* fetch_store_msku_ids *)
FetchStoreMskuIds(answer) == Validated(ReadStoreMskuJson(answer), answer.content # <<>>)

(* export_store_msku_file_url *)
ExportStoreMskuFileUrl(answer) == Validated(ReadStoreMskuJson(answer), answer.content # <<>>)

(* Step 1 of the stock SKU export names the task and the number of its parts. *)
NormalizeStep1Response(answer) == Validated(ReadStockExportJson(answer), answer.content # <<>>)

(* Step 2 prepares one part; all its items must have succeeded. *)
ValidateStep2Response(answer) ==
  Validated(ReadStockExportJson(answer),
            answer.content # <<>> /\ \A i \in DOMAIN answer.content : answer.content[i] = "1")

(* Step 3 starts the task. *)
NormalizeStep3Response(answer) == Validated(ReadStockExportJson(answer), answer.content # <<>>)

(* _wait_for_file_url: step 4 until the task is finished, which must name the file. *)
PollStockExport(answer) ==
  LET reading == ReadStockExportJson(answer)
  IN CASE reading # "ok" -> reading
       [] reading = "ok" /\ Head(answer.content) # "1" -> "pending"
       [] reading = "ok" /\ Head(answer.content) = "1" -> IF Len(answer.content) = 2 THEN "ok" ELSE "error"

(* fetch_batch_delivery_list and extract_delivery_id: exactly one row of the delivery, with an id. *)
ExtractDeliveryId(answer) == Validated(ReadApiJson(answer), Len(answer.content) = 1)

(* create_delivery_export_task *)
CreateDeliveryExportTask(answer) == Validated(ReadApiJson(answer), answer.content # <<>>)

(* _is_task_done, _is_task_pending, _is_task_failed: a row that is not yet listed is waited for. *)
TaskState(row) ==
  CASE row = "not_found"              -> "pending"
    [] row \in {"queued", "running"}  -> "pending"
    [] row = "done"                   -> "ok"
    [] row \notin {"not_found", "queued", "running", "done"} -> "error"

(* wait_for_delivery_task: the row of the task is looked up until it is done; it then has a hash. *)
PollDeliveryTask(answer) ==
  LET reading == ReadApiJson(answer)
  IN IF reading # "ok" THEN reading
     ELSE IF TaskState(Head(answer.content)) = "ok" /\ Len(answer.content) # 2 THEN "error"
     ELSE TaskState(Head(answer.content))

(* request_download_info: of the same task, with the address. *)
RequestDownloadInfo(answer) == Validated(ReadApiJson(answer), answer.content # <<>>)

(* fetch_shop_options and pick_shop_option: exactly one shop of the name. *)
PickShopOption(answer) == Validated(ReadApiJson(answer), Len(answer.content) = 1)

(* fetch_status_total: nothing in this state when it is 0. *)
FetchStatusTotal(answer) == Validated(ReadApiJson(answer), answer.content # <<>>)

(* create_unlinked_export_task *)
CreateUnlinkedExportTask(answer) == Validated(ReadApiJson(answer), answer.content # <<>>)

(* fetch_fba_stores: the page must list some store. *)
FetchFbaStores(answer) == Validated(ReadStoreHtml(answer), answer.content # <<>>)

DownloadConsignmentExcel(answer) == ReadWmsExcel(answer)

(* search_warehouse_stock: the ERP remembers the search; nothing in the answer is used. *)
SearchWarehouseStock(answer) == ReadOptionalJson(answer)

(* download_warehouse_stock_xlsx: the file of what was searched for. *)
DownloadWarehouseStock(answer) ==
  ByStatus(answer, IF answer.content = <<>> THEN "error" ELSE "ok")

(***************************************************************************)
(* The plans.  A step is a record of ask (which request), of (which status *)
(* or batch it is about) and keyed (whether it is sent with the login).    *)
(***************************************************************************)
Step(ask, of) == [keyed |-> ask # "file", ask |-> ask, of |-> of]

(* download_msku_detail_excel *)
MskuPlan == << Step("msku_ids", 1), Step("msku_url", 1), Step("file", 1) >>

(* download_store_msku_excel *)
StoreMskuPlan == << Step("store_ids", 1), Step("store_url", 1), Step("file", 1) >>

(* _download_fba_delivery_csv_once *)
DeliveryPlan ==
  << Step("delivery", 1), Step("delivery_task", 1), Step("task_row", 1), Step("task_info", 1), Step("file", 1) >>

(* _download_status_file, for each of the states in turn *)
UnlinkedPlan ==
  << Step("shop", 1) >> \o
  FlattenSeq([s \in 1..Statuses |->
                << Step("total", s), Step("status_task", s), Step("task_row", s), Step("task_info", s),
                   Step("file", s) >>])

(* export_stock_sku_batch, for each batch in turn *)
StockPlan ==
  FlattenSeq([b \in DOMAIN Batches |->
                << Step("step1", b), Step("step2", b), Step("step3", b), Step("step4", b), Step("file", b) >>])

(* _fetch_fba_stores_once *)
StoresPlan == << Step("stores", 1) >>

(* download_consignment_excel_from_wms *)
WmsPlan == << Step("excel", 1) >>

(* warehouse_once *)
WarehousePlan == << Step("search", 1), Step("stock", 1) >>

Plans ==
  [msku |-> MskuPlan, store_msku |-> StoreMskuPlan, delivery |-> DeliveryPlan, unlinked |-> UnlinkedPlan,
   stock |-> StockPlan, stores |-> StoresPlan, warehouse |-> WarehousePlan, wms |-> WmsPlan]

Reading(ask, answer) ==
  CASE ask = "msku_ids"      -> FetchMskuDetailIds(answer)
    [] ask = "msku_url"      -> ExportMskuDetailFileUrl(answer)
    [] ask = "store_ids"     -> FetchStoreMskuIds(answer)
    [] ask = "store_url"     -> ExportStoreMskuFileUrl(answer)
    [] ask = "step1"         -> NormalizeStep1Response(answer)
    [] ask = "step2"         -> ValidateStep2Response(answer)
    [] ask = "step3"         -> NormalizeStep3Response(answer)
    [] ask = "step4"         -> PollStockExport(answer)
    [] ask = "delivery"      -> ExtractDeliveryId(answer)
    [] ask = "delivery_task" -> CreateDeliveryExportTask(answer)
    [] ask = "task_row"      -> PollDeliveryTask(answer)
    [] ask = "task_info"     -> RequestDownloadInfo(answer)
    [] ask = "shop"          -> PickShopOption(answer)
    [] ask = "total"         -> FetchStatusTotal(answer)
    [] ask = "status_task"   -> CreateUnlinkedExportTask(answer)
    [] ask = "stores"        -> FetchFbaStores(answer)
    [] ask = "excel"         -> DownloadConsignmentExcel(answer)
    [] ask = "search"        -> SearchWarehouseStock(answer)
    [] ask = "stock"         -> DownloadWarehouseStock(answer)
    [] ask = "file"          -> ReadDownload(answer)
=============================================================================
