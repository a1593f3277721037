# Verification of ifc.freight.api.orders

TLA+ models of the order service (a NestJS program over MongoDB, Kafka and
RabbitMQ), TLC runs on small instances, and theorems checked by TLAPS.
`PROJECT.json` holds the run list, the mutants that show each property can fail,
the map from definitions to source lines, and the hazards. Paths below are
relative to `src/src/`.

    tlc -config OrderSerial.cfg MCOrderMerge          # the cfgs Order*.cfg
    tlc -config InvoiceTwo.cfg MCInvoiceIntegration   # the cfgs Invoice*.cfg
    tlc -config Export.cfg MCExportReport             # and ExportLimit.cfg
    tlc -config MasterData.cfg MCMasterData
    tlc -config Migration.cfg MCLegacyMigration
    tlc -config Feedback.cfg MCInvoiceFeedback
    tlapm OrderStatusProofs.tla
    tlapm OrderMergeProofs.tla
    tlapm OrderSerialProofs.tla
    tlapm InvoiceIntegrationProofs.tla
    tlapm InvoiceFeedbackProofs.tla
    tlapm ExportReportProofs.tla                      # some minutes
    tlapm MasterDataProofs.tla
    tlapm LegacyMigrationProofs.tla                   # some minutes

Contents: 1 inventory, 2 modules, 3 how models and code correspond, 4 runs,
5 fairness, 6 proofs, 7 what the work has shown, 8 scope, 9 plan.

## 1. Inventory

| component | state | operations | modelled in |
|---|---|---|---|
| order merge (`order/order.service.ts`) | collection `orders`: one document per invoice (unique index on `invoice.key`) with status code, status, history, invoiceKeys, attachments | `merge` with `createOrder`, `updateOrder`, `updateOrdersWithMultipleInvoices`; `updateOrderStatus` | `OrderMerge` |
| order event handlers (`order/consumer`, `intelipost/consumer/intelipost.controller.ts`, `intelipost/intelipost.service.ts`, `shipment`) | nothing but the invocation in flight | IHub order (RabbitMQ), Intelipost event (Kafka), freight connector tracking (Kafka), delivery hub update (HTTP) | `OrderMerge` (partly) |
| order producer | none | `sendStatusTrackingToIHub` | `OrderMerge` |
| order mapping (`orderMapper.ts`, the status code seed) | table of partner ids | `mapStatusCode`, `mapPartnerToOrder`, ... | `OrderStatus`, inputs of `OrderMerge` (partly) |
| invoice integration (`invoice/`) | collection `invoices`: status, updatedAt | `create`, `integrated`, `intelipostOrderCompensator`, `reprocess` | `InvoiceIntegration` |
| Intelipost integration (`intelipost-event.controller.ts`) | a send in flight | `sendIntelipostData`, its resends and its retry | `InvoiceIntegration` (partly) |
| scheduler and jobs | files under tmp | `reprocessInvoices`, `clearTmpFolder`, `intelipostOrderIntegrate` | `InvoiceIntegration`, `ExportReport` (partly) |
| integrations of an order (`updateIntegrations`) | the list inside the order document, consumer positions | read, change, write back; `integrated`, the compensator's commits | `InvoiceFeedback` |
| export and report (`order.service.ts`, `order/consumer/order.controller.ts`) | pages being written, files under tmp | `exportData`, `createCsvLocally`, `createXlsxLocally`, `getDataAsStream`, upload, removal | `ExportReport` |
| order HTTP controller | none | `exportOrders`, `consolidatedReportOrders`; reads | `ExportReport` (partly) |
| accounts and locations (`account/`) | collection `accounts`, no unique index | four consumers, `findAndUpdateLocation`, two PATCHes | `MasterData` |
| carriers (`carrier/`) | collection `carriers`, unique id, name and document | two consumers, two PATCHes | `MasterData` |
| migration scripts (`order/scripts`) | a page or batch in hand, over `orders` | `updateStructureOrders`, `updateDuplicateOrders`, `pag` | `LegacyStatus`, `LegacyMigration` |
| status codes, order reading, infrastructure, sales channels | | queries, a seeder, wiring | see 8 |

How they interact. The four order handlers call the same `merge`. The IHub
handler then emits `invoice.reprocess` inside the process, which lets an invoice
that waits for its order try again. `generateIntegration` reads the order of its
invoice and emits `intelipost.sent`; the listener posts to Intelipost, gives the
answer back to `intelipost()` (so to `merge`) and writes the invoice's status.
`merge` announces every state to the topic ORDER_NOTIFIED, and `intelipost()`
and `updateOrderStatus` to IHub. The cron and the jobs endpoint pick up invoices
whose status is pending or error. Reports of the integrations come back on a
topic of their own; `integrated` writes them into the order document, which the
order consumers write too. Export requests go from the HTTP controller over Kafka
to a consumer of the same service, which leaves a file under tmp that the nightly
sweep also looks at. Accounts, locations and carriers come from other services
on topics that are not ordered among each other. The migration scripts write the
orders' collection while everything else runs.

What is hard in it:

- **Overlap.** `merge` reads documents, computes from what it read, and writes
  after other awaits (`order.service.ts:944` to `:928` and `:846`). There is no
  version, lock or transaction; the unique index is the only protection.
- **Order and repetition of messages.** Kafka and RabbitMQ redeliver. An event is
  recognised only by (partnerStatusId, orderUpdatedAt), and only in the history
  as it was read.
- **Identity.** A tracking event knows an invoice key and no sale. IHub looks by
  sale and key, Intelipost by sale and invoiceKeys, so each can miss, or find
  more than, the document it means.
- **The made-up dispatch.** `intelipost()` calls itself when the merged history
  has exactly three entries, two of which say created and waiting for collection.
- **Invoice status.** Six writers, none of which looks at the status first; a
  send that is under way leaves no mark in it, so an invoice may be sent twice.
- **Retries.** The cron takes the LIMIT least recently updated failures.
- **Paging while the data moves.** The export cuts pages with `skip` out of a
  listing that grows; the migration cuts them out of a filter that its own writes
  shrink.
- **Shared files.** The name of a report is made of store and dates (a consolidated
  one of the dates alone), so requests meet in one file; a sweep may unlink it.
- **Find, then create.** Accounts have no unique index: only the lookup before
  the insert keeps one document for each.
- **Delete, then save.** A merge of duplicated orders deletes the copies first.
- **Offsets.** Handlers commit in `finally`, one of them on the wrong topic.

What makes each modelled component correct: orders behave as a ledger (ranks do
not fall, events and keys stay, finished orders are closed), histories are sorted
and without duplicates, no document changes hands between sales, and what is
announced follows what is stored; an invoice says success exactly if Intelipost
has it, it is registered once, and it is never forgotten or starved; the list of
integrations says what was reported last; a report lists every order once, its
sheets keep to their limit, its user hears of it and its file does not stay; there is
one document for each account, linked to its locations whichever came first, and
carriers are as last changed; a migration loses no order, package or occurrence
and gets on. Each of these holds up to causes that the properties name.

## 2. Modules

| module | role |
|---|---|
| `OrderStatus` | status vocabulary and pure functions: `getStatusScale`, `shouldUpdateSourceOfOrder`, `checkIfOrderAlreadyFinished`, the sorted insertion of an event |
| `OrderMerge` | `merge` and its callers; EXTENDS `OrderStatus` |
| `OrderLedger` | abstract specification: what the collection promises when handlers do not overlap |
| `MCOrderMerge` | instances for TLC: one sale under two invoices, and messages |
| `OrderStatusProofs` | lemmas about the pure functions |
| `OrderMergeProofs` | theorems about `OrderMerge` with any number of handlers |
| `OrderSerialProofs` | theorems about `OrderMerge` with one handler, and that it then implements `OrderLedger` |
| `InvoiceIntegration` | invoices on their way to Intelipost |
| `MCInvoiceIntegration` | instances for TLC |
| `InvoiceIntegrationProofs` | six theorems about `InvoiceIntegration` |
| `InvoiceFeedback`, `MCInvoiceFeedback` | reports of the integrations, consumed by several partitions, with offsets and restarts |
| `InvoiceFeedbackProofs` | two theorems about `InvoiceFeedback` |
| `ExportReport`, `MCExportReport` | requests for reports, pages, files, upload, sweep |
| `ExportReportProofs` | five theorems about `ExportReport` |
| `MasterData`, `MCMasterData` | accounts, locations and carriers |
| `MasterDataProofs` | four theorems about `MasterData` |
| `LegacyStatus` | the tables by which the scripts turn wordings into status codes, `getStatusCode` |
| `LegacyMigration`, `MCLegacyMigration` | the three migration scripts beside the running consumers; EXTENDS `LegacyStatus` |
| `LegacyMigrationProofs` | five theorems about `LegacyMigration` |

## 3. How the models correspond to the code

### OrderMerge

A `Handler` is one invocation in flight. `pc` names the next database or broker
call; everything between two awaits is one action.

| code | actions |
|---|---|
| a handler starts; `merge` maps the message and finds (`:944`) | `Receive` (with `DataOf`, `Found`, `Path`) |
| `createOrder`: find documents of the sale, `$push` the key on each, insert | `FindSiblings`, `LinkSibling`, `CreateOrder`, `CreateRefused` |
| `updateOrder`: findOneAndUpdate | `UpdateOrder`, `UpdateRefused` |
| `updateOrdersWithMultipleInvoices`: updateMany, then read again | `UpdateMany`, `UpdateManyRefused`, `Reread` |
| end of `merge`: ORDER_NOTIFIED | `Notify` |
| `intelipost()` calling itself | `Dispatch`, with the outer reply kept in `outer` |
| `sendStatusTrackingToIHub` | `Publish` |
| an error that the handler catches; the process stopping | `Fail`, `Crash` |

The data is cut down to what the properties tell apart. `store` stands for
storeId, storeCode and the numeric internalOrderId, which come together and
decide whether anything is announced. A file of a message may or may not be copied
(`Copies`). `about` in an entry is a history variable: the code does not keep it.
`partnerStatus` "cancelled" is represented by the macro status canceled, with
which it is set. `invoiceKeys` is a set; the code keeps an array, in which the
`$push` of `createOrder` can repeat a key (the updates remove repetitions) and
which is only ever asked whether it has one. A filter with an undefined sale matches, in the mongoose version
used, documents without a sale, which is why `OfSale(NoSale)` is not empty.
A delivery hub request stamps its event with the time of the call; the model
also allows two requests at the same instant.

`noticed` and `told` are observers: the last status each outside reader was given.
`deliveries` only serves the bound.

### InvoiceIntegration

`Worker` stands for consumers and listeners of `invoice.controller.ts` in flight,
`Sender` for invocations of `sendIntelipostData`. A step is what happens between
two writes of the invoice's status.

| code | actions |
|---|---|
| where work comes from: INVOICE_CREATED, cron, the event after an order was merged, the compensator topic | `Deliver`; `Cron`; `OrderArrives`, `Reprocess`, `ReprocessNothing`; `Ask`, `Compensate` |
| `generateIntegration`: emitted, order missing, cannot be sent, exception | `Emit`, `Postpone`, `Reject`, `Stumble`, `StumbleOnCarrier` |
| `setInvoiceStatusPending`, `setInvoiceStatusError`, the callers' catch | `SetPending`, `SetRejected`, `SetError`, `GiveUp` |
| answers of Intelipost | `Accept`, `AcceptUnheard`, `AlreadyExisting`, `Busy`, `Refuse` |
| end of `sendIntelipostData` | `SetSuccess`, `SetFailed`, `Unwritten` |
| `integrated` | `Report` |
| the process stops | `Crash` |

`age` is the order of `updatedAt`, which every `updateStatus` renews. `taken`
is Intelipost's side: which order numbers exist; the first attempt uses the
sale's number, shared by its invoices, the second appends the invoice's number.
`setup` is what the carrier says about the account and its delivery methods; it
is chosen at the start and does not change. `mishap` is a history variable that
says what went wrong for which invoice, so that properties can name their
excuses: `threw` (a caught exception), `lost` (an answer), `stopped` (a crash
during work), `unwritten` (a failed write of the outcome), `again` (taken up by a
second handler while the first is at it), `compensated`, `reported`.

The compensator never gets past the carrier: `findByOrderNumber` reads key and
order only, so `data.carrier.document` throws. Its offsets are committed on another
topic (`invoice.controller.ts:268`), so its messages stay deliverable for ever;
hence `asked` only grows.

### InvoiceFeedback

One invoice and the order document with its key. Each partition of the topic has
one handler, so reports of one partition are handled in turn and those of two
side by side, as they do in two instances of the service that share its
`KAFKA_GROUP_ID`; how many partitions one instance consumes at once is decided in a
library that is not in the repository.

| code | actions |
|---|---|
| `integrated`: `updateIntegrations` looks the order up | `Read` |
| the four ways it writes: replace in the list that was read, push, begin a list, upsert | `updateIntegrations` (with `Integrated`) |
| `updateStatus` of the invoice; the catch | `SetStatus`; `Fail` |
| `removeFromQueue` in `finally` | `Commit` |
| `intelipostOrderCompensator` and its commit on this topic | `intelipostOrderCompensator` |
| the order consumers store the order; the consumers start again | `OrderArrives`; `Restart` |

`seen` is the order as the handler read it. History: `ledger` is the last status
written for each integration, `raced` and `late` say that a list changed, or an order
came, between a handler's read and its write; `handled` and `advanced` are the
offsets handled and those the compensator committed.

### ExportReport

A request `r` carries the locals of its handler in `job[r]`; `disk` has the file of
each kind; `listing` is what `find` with the range returns, in the order of the
index.

| code | actions |
|---|---|
| the HTTP controller publishes a request | `exportOrders` |
| the consumer commits, then works | `Take` |
| `exportData` up to its loop; one round of it | `BeginExport`; `CsvPage`, `XlsxPage` |
| `createReportConsolidated` opens its stream; one round of `getDataAsStream` | `BeginConsolidated`; `getDataAsStream` |
| `uploadFile`, the message to the user, the `finally` | `uploadFile`, `Notify`, `deleteFileLocally` |
| exceptions before or after the file is complete; the process stopping | `PageFails`, `DeliveryFails`; `Crash` |
| `clearTmpFolder`: readdir, stat, unlink | `SweepStart`, `SweepStat`, `SweepUnlink` |
| an order is stored; a day passes | `InsertOrder`; `Day` |

An order is one line; the cells are left out. A file is known by its rows and by
the request that created it (its inode), because a stream keeps writing to a file
that was unlinked. Fields of `job` that are history: `snap` (the listing counted),
`added` (inserts while pages were read), `spoil` (the file was shared, left over
or swept), `sent` (the rows uploaded), `told`. `Ended` resets the locals when a
handler returns.

### MasterData

A message or request is an element of a scenario, and `task` says how far its
handler is; messages of one topic about one id are handled in turn, all others in
any order. Every lookup and every write is an action of its own.

| code | actions |
|---|---|
| `create` of an account: findOne, save, `findAndUpdateLocation` | `FindExisting`, `SaveAccount`, `FindToLink`, `AdoptLocation` |
| `createLocation` | `FindAccount`, `FindExisting`, `SaveLocation` |
| `update`: findOne, `findAndUpdateLocation`, upsert | `ReadForUpdate`, `FindToLink`, `AdoptLocation`, `UpsertAccount` |
| `updateWarehouseCode`, `updateGenerateNotfisFile` | `FindToEdit`, `Edit` |
| carriers: `create`, `updateConsumer`, the two PATCHes | `CreateCarrier`, `UpdateCarrier`, `FindCarrier`, `updateCredentials` |
| commit in `finally`; the process stopping | `removeFromQueue`; `Crash` |
| a database call that fails; an insert that is done but not confirmed | `FailedCall`; `UnansweredSave` |

A call can fail at every step. The consumers catch the error, commit, and the
message is not delivered again; `findAndUpdateLocation` has a `catch` of its own
(`account.service.ts:181`), after which its caller goes on as if it had linked the
location (`AfterFailure`). A write that is done although its caller hears of an
error leads on to the same `catch` and the same commit as one that succeeds, except
for the insert of an account, after which the adoption is skipped.

A document keeps id, type, whether its account is known (`owner`, `named`,
`accounts`), `hub` for `useDeliveryHub`, and `edited` and `credentials` for what only
a PATCH writes. History: `together` (pairs of messages handled at once), `failed` (the
messages a call failed for) and `passed`: the locations left waiting by the handler
of a created account, because it adopted another one, stopped or failed.

### LegacyStatus and LegacyMigration

`Tables` lists the twenty-one tables of `handle-status-code.service.ts` in the order in
which they are searched, each by one wording of its own and all those it shares
with another, since for a shared wording the order decides.

| code | actions |
|---|---|
| `updateStructureOrders`: count, page, chunk | `updateStructureOrders`, `ReadPage`, `NextChunk` |
| `checkAndUpdateOrder` for one order, refused with E11000 or not | `checkAndUpdateOrder` |
| its `catch`: any other error is logged, the order counts as updated | `UpdateFails` |
| the merge: find the copies, deleteMany, save | `FindCopies`, `DeleteCopies`, `SaveMerged` (with `handleDuplicateKeys`) |
| a call of the merge that fails, which nobody catches | `MergeFails` |
| `updateDuplicateOrders`: the aggregation, then each group | `updateDuplicateOrders`, `NextGroup` |
| `pag`: a batch, then order by order | `pag`, `ReadBatch`, `WriteBack` |
| a script ends, or is stopped | `Finish`, `Stop` |
| the consumers meanwhile: `merge` reads the orders | `merge` (with `Matching`, `Found`, `Updatable`) |
| and writes what it computed of them, after other awaits | `updateOrder`, `updateOrdersWithMultipleInvoices`, `createOrder` |

A document that does not exist yet, or no longer, has `place` free or deleted.

A consumer holds the document that it read (`seen`). As in the code, what it writes
back is that document's history with the new occurrence sorted in, its invoice (over
the message's) and its list of keys; the status moves on only if the message's is at least
as far along as the one read; a finished order is left alone, and one without a status
code, or without a list of keys, is a TypeError: such orders are left to the scripts.
Which document is written is decided by the filter at the time of the write. What
`OrderMerge` takes apart (the steps of `createOrder`, announcements, proofs of
delivery) is one step here or left out.

`Invalid` is a choice, because whether the schema accepts a complete invoice or
history depends on types (dates) that are not modelled. A merge that finds none of
its copies ends the script: `handleDuplicateKeys` takes `orderCreatedAt` from the
first of them, and nobody catches that error. The filter of the history script,
`'history.statusCode': null`, also finds documents without a history, but not
those whose history is empty; here both are `<<>>`, so `Uncoded` lets them match or
not. An order with neither a history nor a status code then ends the script with a
TypeError (`WriteBack`).

History: `known` and `events` are the packages and occurrences ever stored, `billed` the
billing data. `Write` compares every write with the documents it was computed from: an
occurrence that goes although the writer had not read it becomes `excused`, a
package that goes so is `displaced`. An occurrence is excused as well when the
survivor of its merge is gone, or when its merge ends between deleteMany and save.
`crossed` has the sales of which a merge deleted what another one saves, `cut` those
of which a merge ended before its save. `script.failed` has the orders whose write
failed in this run.

## 4. Runs

| run | instance | what it shows |
|---|---|---|
| `order_serial` | one handler, one sale, two invoices, thirteen messages, five deliveries | without overlap the collection implements `OrderLedger` and what is announced follows it, for every order, repetition and failure of the messages |
| `order_concurrent` | two handlers, six messages, four deliveries | what remains under overlap: sorted histories without duplicates, no takeover; every loss comes from a write made from an outdated read |
| `order_reopened` | two handlers | violation: a finished order is opened again |
| `invoice_two` | two invoices with one order number, one worker, one sender, one mishap | the invoices and Intelipost agree |
| `invoice_one` | one invoice, two workers, two senders, two mishaps, symmetric workers and senders | registered twice, undone or forgotten only for the causes the property lists |
| `invoice_retry` | two invoices, LIMIT 1, one of them sendable, the other of any kind, no mishap | no starvation |
| `invoice_pending` | two invoices, no mishap | violation: pending becomes error |
| `export` | two requests of the same kind, four orders of which one may come late, pages and sheets of two, a limit of four, one mishap | what users get, who is told nothing, which files stay |
| `export_limit` | one request, four orders, a limit of four | violation: a complete report says it is not |
| `master_data` | five scenarios of four or five messages, one crash or failed call | one document each, locations linked, the hub flag and the last change of a carrier kept, or why not |
| `migration` | six collections of three or four documents, pages and batches of two, three runs of scripts, two consumers with two of four messages, one stop or failed call | nothing is lost but for the named races, and a run gets on |
| `feedback` | two partitions with three reports of two integrations, two messages of the compensator, one exception, one restart | the list says what was reported; every report is handled |

Properties of the order runs:

- `LedgerSpec` (refinement), `CodeCoversHistory`, `EntriesListed`,
  `DeliveredHasStatus`, `DispatchedOnce`, `RefusedOnlyByStray`,
  `NoticesNeverRegress`, `OnlyMadeUpDispatchTellsBack`, `PodsLostOnlyToOthers`
  are stated for one handler at a time, and proved for it (section 6). Most of them
  fail when two overlap; that is what `OnlyStaleWritesLose` localises.
- `OnlyMadeUpDispatchTellsBack` says that what IHub is told of an order goes back
  only from an `intelipost()` that made up a dispatch: by that dispatch, or by the
  caller's own older reply, which is told after it. The messages have two
  Intelipost events with the id of waiting for collection, since the second way
  needs an early one of them to be the third entry.
- `RefusedOnlyByStray` is about the insert of `createOrder` only: it is refused by
  the index only if the invoice has a document without a sale. The refusals of an
  update (`UpdateManyRefused`) need no such document; `LedgerSpec` says what they leave.
- `HistoryDistinct`, `HistorySorted`, `NoTakeover`, `OnlyStaleWritesLose` hold
  for any number of handlers, and are proved (section 6).

Properties of the other runs, in short: `ExactReport` compares an upload with a
reference definition of the report; `MissedOnlyByInserts` bounds what paging
can miss; `SheetsWithinLimit`, `FileHasReason`, `SilenceExplained` and the liveness
property `TmpEmptied` are about the limit, the files and the users. `OneDocumentPerId`,
`UnlinkedExplained`, `HubKept` and `CarrierUpToDate` relate the collections to the
messages handled. `EventsKept`, `PackagesKept`, `SaleKept` and `RunAdvances` say what a
migration may cost and that it makes progress. `ListedAsReported`, `OrderKept` and
the liveness property `ReportsHandled` are about the reports. Where one of them has
an excuse, the excuse is an event of the model that really breaks it: without
it TLC finds a counterexample.

Bounds and why they suffice. Five deliveries reach: created, waiting for collection,
dispatched made up, finished, and one more; and, with two invoices, both
documents made on their own, found together by an Intelipost event, and updated.
Two handlers suffice for a stale read: a loss involves one read, one foreign write
and one write. Two invoices are the smallest sale with siblings, and with an
order number taken by someone else. One mishap together with the retries reaches
every excuse a property lists on its own; `invoice_one` also combines two.
`Resends` is 2 where the number of attempts matters and 1 in `invoice_retry`,
where a failed send is simply tried again by the cron. `LIMIT` 1 is the worst case
for starvation. 
In `export` two requests of one kind are enough to share a file, requests of
different kinds never meet, and four orders in pages of two give a full last page,
a sheet at its limit, a rollover and a report at its limit; one late order moves
each page boundary. The scenarios of `master_data` are the smallest in which every
pair of messages about one id meets, with two locations of one account, and with
two carriers that want each other's name. In `migration` a page of two with
three orders to migrate is the smallest that leaves one behind, and the six
collections are: a legacy order beside its modern copy, orders never billed, copies
without the index, such copies of which some are still updated, two orders of a sale
with one billing key, and an order without occurrences in a sale that is merged. Two
messages are one reading and one write between them, or two consumers over one merge;
the four bring an occurrence of either package, a delivery and an order of IHub. Two reports in one
partition and one in another are the smallest log in which two handlers of one
integration overlap and a committed offset can jump.

`CHECK_DEADLOCK FALSE` is used in the order runs and in the five just listed,
because their messages, requests or runs are bounded and the system then
really is idle.

## 5. Fairness

Three runs assume any (`FairSpec`). `invoice_retry`: handlers and listeners that began
go on (weak); the cron keeps firing (strong, as workers are shared with other
handlers; Node starts every handler that is due); an attempt of an invoice that
is possible again and again is not refused for ever, per invoice (strong):
there is a listener for it, Intelipost eventually answers its post, with a
conflict if the number exists and otherwise with 200. Nothing is assumed of the
environment: orders need not arrive, messages need not be delivered, the reprocess
event may never be handled. Crashes and exceptions are left out of this run
(`MaxMishaps = 0`): with finitely many the argument restarts after the last one.

`export`: some handler that has something to do goes on (weak, over all of them
together), days pass (weak), and the nightly cron runs and its sweep goes on
(weak). Requests need not be made and nothing is assumed of mishaps.

`feedback`: the consumer of each partition goes on with its handler and its next
report (weak, per partition: a consumer polls all the partitions it is assigned, and
a handler always comes to its `finally`). Exceptions,
restarts, the order and the compensator are not assumed to happen.

## 6. Proofs

`OrderStatusProofs`: the sorted insertion of an entry gives a history that is
sorted and without duplicates if the old one was, is longer by one, and knows every old
entry; the scale lies in 0..6.

`OrderMergeProofs`, for all values of the constants that satisfy the assumptions
in `OrderStatus` and `OrderMerge`:

| theorem | states |
|---|---|
| `TypeCorrect` | `Spec => []TypeOK` |
| `DocumentsStay` | `Spec => NoTakeover` |
| `HistoriesDistinct` | `Spec => []HistoryDistinct` |
| `HistoriesSorted` | `Spec => []HistorySorted` |
| `StaleWritesOnly` | `Spec => OnlyStaleWritesLose` |

`TypeOK` alone is not inductive: `UpdateMany` applies the document it read to the
current one, `Reread` and `Publish` use replies. `HandlerOK` adds what a handler
holds at each step. For the histories, `HistoryOK` adds that what a handler *read*
is as good as what is stored: `NewHistory` starts from the read history, so a stale
write replaces one good history by another. The two action properties follow from
one lemma that lists what a step can do to a document (it is untouched, gets a key
pushed, is inserted where none was, or is written by one of the two updates),
after which only the updates have to be compared with what was read. For
`StaleWritesOnly` one more invariant is needed, `ReadOpen`: what a handler is about to
update was not finished when it was read.

`OrderSerialProofs`, for the same constants, any messages delivered in any order
and any number of times, and one handler:

| theorem | states, given `OneAtATime` |
|---|---|
| `LedgerImplemented` | `Spec => LedgerSpec` |
| `HistoryAlwaysCovered` | `Spec => []CodeCoversHistory` |
| `EntriesAlwaysListed` | `Spec => []EntriesListed` |
| `DeliveredAlwaysSays` | `Spec => []DeliveredHasStatus` |
| `RefusedByStray` | `Spec => []RefusedOnlyByStray`, given `OneSaleEach` as well |
| `PodsKept` | `Spec => PodsLostOnlyToOthers` |
| `NoticesRise` | `Spec => NoticesNeverRegress` |
| `ToldBackByMadeUp` | `Spec => OnlyMadeUpDispatchTellsBack` |
| `DispatchEnteredOnce` | `Spec => []DispatchedOnce`, given `OnlyServiceDispatches` as well |

`OneAtATime` says that no two elements of `Handler` differ. It is the hypothesis
under which the code keeps these promises (most of them fail in
`order_concurrent`'s setting), and it does not restrict messages, failures or
crashes. `OnlyServiceDispatches` says that no tracking event reports a dispatch
under the id that the service uses for the one it makes up; with such an event the
history can have two. `OneSaleEach` says that the messages of one invoice name one
sale, or none: IHub and Intelipost take it from the same order. With two sales a document
can refuse the second one's message without being a stray.

The argument starts from `FreshOK`: what the handler found is still what is stored
when it writes, because nobody else writes. A lemma (`Kinds`) then lists what a
step is, in terms of the stored document and not of the read one. On that rest
`CallsOK` (the data of a call have their key among their keys, and their status),
`DocumentsOK` (a document knows its key, its code covers its history, delivered has the
status), and the line of the ledger: `LineOf` maps a document to its rank, its keys
and its events, and every step enters a line, adds to an open one, or leaves it
(`LineMoves`). For what is announced: a reply in hand is never further along than
the document (`RepliesOK`, `Behind`), so neither is what was announced
(`AnnouncedOK`), and announcing the current status cannot go back. A made-up dispatch
is entered once because it is made up only for the one document that the filter
matches, while that has three entries (`MakesUpOK`), and a history with a dispatch
has at least four (`OnceOK`). `LedgerAssumption` says that the mark of a missing
document is not a line of the ledger.

`InvoiceIntegrationProofs`, for any invoices, workers, senders and limits, and for any
number of mishaps (`SetupAssumption`, `BoundAssumption`, `NullAssumption`):

| theorem | states |
|---|---|
| `TypeCorrect` | `Spec => []TypeOK` |
| `SuccessEarned` | `Spec => []SuccessIsEarned` |
| `NoneForgotten` | `Spec => []NotForgotten` |
| `SuccessKept` | `Spec => SuccessUndoneOnlyByMishap` |
| `RegisteredOnce` | `Spec => []RegisteredTwiceOnlyAfterMishap` |
| `ShippedSays` | `Spec => []ShippedSaysSo` |

`Typed` strengthens `TypeOK`: `age` is a ranking of the invoices, which touching one of
them keeps, so that what the cron takes up is a list without repetition. In
`EarnedOK` a sender that has come to writing success has registered its invoice,
and registrations and mishaps are never taken back; which worker does what does
not matter, because workers write pending and error only. `KnownOK`: an invoice
whose status no query looks for is still in its topic, with a sender, or
excused by a stop, a failed write or a report. `SoloOK` is about an invoice
that is `Calm` (nobody came to it while another was at it, nothing stopped,
and neither the compensator nor a report was about it): one worker or one sender is
at it, none once it has succeeded, and its message is in the topic only until its
first worker is done with it. So nobody is left who could undo a success.
`RegisteredOK` adds, for an invoice that suffered nothing at all, that it has at most
one number at Intelipost, and that with a number it says success or its sender is
about to write it.

`InvoiceFeedbackProofs`, for any partitions, integrations, logs and bounds:

| theorem | states |
|---|---|
| `ListedAlways` | `Spec => []ListedAsReported` |
| `OrderKeptAlways` | `Spec => []OrderKept` |

A write that does not race starts from the list as it is, so that each way of writing
needs one lemma: it turns a list that agrees with the ledger into one that agrees
with the new ledger. That no integration is listed twice is part of agreeing. For the order: what a handler found is still there, since nothing
deletes it (`SeenStays`).

`ExportReportProofs`, for every page size, every limit of a report, every sheet limit
that is a whole number of pages (`SizeAssumption`, as in `.env`), and any orders,
requests and mishaps (`InputAssumption`, and `FileAssumption`: that there is no file
is not a file):

| theorem | states |
|---|---|
| `SheetsWithinLimitAlways` | `Spec => []SheetsWithinLimit` |
| `ReportsExact` | `Spec => []ExactReport` |
| `FewMissed` | `Spec => []MissedOnlyByInserts` |
| `SilenceAlwaysExplained` | `Spec => []SilenceExplained` |
| `FilesHaveReason` | `Spec => []FileHasReason` |

`createXlsxLocally` tests `count === LIMIT_LINES_XLSX_FILE`, which a count could step
over. The invariant says why it does not: before each page the count is a whole
number of pages, because every page but the last is full. That holds even though
orders are inserted between the pages, since the number of pages was fixed
when the listing was counted, and the listing only grows.

The other four share one decomposition. Every step is a `Turn` of one request, which
may mark those that have its file (`Others`), or a step of the surroundings: an order
is `Stored`, the process `Stopped`, the sweep goes on (`Swept`). Two handlers that
have one file are marked (`Exclusive`), so to every request somebody else's step is a
`Frame`: it leaves the request's file alone or marks the request. What is left is
that a request's own turns keep `RequestOK`, whose parts say how far the handler is,
that an unmarked handler still has its file, that a workbook is committed with
its last page, why a user is told nothing, and what the file holds: after so many
pages without inserts exactly that much of the listing (`ExactOK`; a page extends it,
`NextPage`), and with inserts all but as many orders as were inserted
(`CoveredOK`: an order that is missing was pushed behind the last page read,
`MissingBound`). The limit of a report is reached exactly at its number of pages
(`PageCountLeast`). `ExactOK` was not inductive at first: a stream past its first page
has to be known to have had orders. `RInv`, the conjunction over all requests, was
checked with TLC on the instance of `export` before it was proved. `FileHasReason`
needs none of this.

`MasterDataProofs`, for any scenarios and any number of crashes and failed calls:

| theorem | states |
|---|---|
| `OneDocument` | `Spec => []OneDocumentPerId` |
| `HubAlwaysKept` | `Spec => []HubKept` |
| `LocationsLinked` | `Spec => []UnlinkedExplained` |
| `CarriersUpToDate` | `Spec => []CarrierUpToDate` |

`MessageAssumption` gives messages the shape that the consumers read: a known
topic, a tenant, a number, `useDeliveryHub` of a created account. `IdAssumption`
says what the services that own accounts and carriers provide and this code
relies on: one created message per id (delivered again it is the same message),
an account and a location never share an id, and the changes of a carrier are
numbered. `Typed` says at which places a handler of each topic can be, `TogetherOK` that
handlers of a common subject that run at once are on record. `SingleOK`: an id has
one document at most, and none while a handler that found none is about to
insert. `HubOK`: until the account is saved its id has only documents without type;
from then on every document, and every handler about to write, has the flag.
`LinkOK`: a location has one document, the only one that waits for its tenant, and it
does not wait for an account that is known unless a handler is about to adopt it, but
for the exceptions of `UnlinkedExplained`. That the excuse is one about the location
itself (it is in `passed`, not just any location of the tenant) rests on
this: a handler that fails or stops while it links leaves waiting exactly what
waits at that moment.
`ClaimsOK` and `LastOK`: what is stored of a carrier is what one of its messages says, and
after the last change it is what that one says.

`LegacyMigrationProofs`, for any collection whose documents have the shape of the
schema and none of which is deleted yet (`ScenarioAssumption`), any sizes of pages,
chunks and batches, any consumers and messages (`MessageAssumption`: each brings a
status code and an invoice key), and any number of runs, stops and failures
(`MigrationAssumption`):

| theorem | states |
|---|---|
| `TypesHold` | `Spec => [](Types /\ ConsumersOK)` |
| `SaleKeptHolds` | `Spec => []SaleKept` |
| `EventsKeptHolds` | `Spec => []EventsKept` |
| `PackagesKeptHolds` | `Spec => []PackagesKept` |
| `RunAdvancesHolds` | `Spec => []RunAdvances` |

`Types` says what is in hand: a page or batch read documents that still have the same
sale, and their billing data are on record (`ScriptOK`); a merge holds copies of one
sale, what it will save has every occurrence of what it read, and its survivor is
stored unless the merges of the sale crossed (`MergeOK`). `ConsumersOK`: a consumer
about to update holds a document that had a status code. It is not
implied by what is stored now, and without it neither `Types` (a merged or updated
document has a code again) nor `RunAdvances` could be kept. `StepIs` sorts the steps into a
few kinds (nothing but control, documents written, merges ended, copies deleted,
saved), and each invariant has one lemma per kind; every writer, script or consumer,
has one lemma saying that what it writes keeps what it read (`Follows`: the
occurrences, and the key unless the order bills another one). `SaleKept`
then follows from the survivor. For `EventsKept` the books do the rest: what goes
with a write had not been read (`WritesEvents`), and between deleteMany and save the
merge has it. A merged history has the occurrences of all the copies
(`MergedIs`), which needs that sorting their places by date loses none:
`ArrangedIs` shows that a finite set under a strict order has one element of each
rank; `SortedIs` uses it for the history that a consumer writes. `PackagesKept` allows a
merge between its two writes, when the key is in no
document; `PackagesKnown` adds that a merge of the sale is then about to be saved.
`RunAdvances` speaks of the end of a run. `Progress` says on the way there that, from
the first page on, the orders without code that nobody deals with and whose write did
not fail are at least a page fewer than those counted: nothing makes an order without
code (`Handled`: consumers refuse such an order when they read it, and what they
write over a document has a code), and each one that leaves the page
gets one, is deleted, is merged or has failed.

Only model-checked: liveness (`TmpEmptied`, `ReportsHandled`, that no invoice
starves) and the three expected violations. Liveness and ENABLED are out of the prover's
reach. Every other property of a passing run is stated by a theorem above, under the
hypotheses named there. The models avoid RECURSIVE operators so that this can be proved.

## 7. What the work has shown

- **A finished order can be opened again** (`order_reopened`). `updateOrder` logs
  "already finished ... will be ignored", but decides by the document it read
  earlier, and the write carries no condition.
- **Pending does not last** (`invoice_pending`). `getDeliveryMethodFromOrder`
  sets pending and throws; the callers' catch writes error. The two are retried
  alike, so the effect is on what users see.
- A tracking event that comes before its order creates a document without sale.
  The order's own messages then find nothing, their insert is refused by the index
  (`RefusedOnlyByStray`: with one handler there is no other cause) and their errors
  are only logged.
- After the dispatch that `intelipost()` made up, the caller still tells IHub its own
  reply, which can be further back (`OnlyMadeUpDispatchTellsBack`).
- An update by IHub or by a tracking removes the proofs of delivery
  (`PodsLostOnlyToOthers`).
- An invoice that Intelipost has under both order numbers and that says error
  cannot become successful again by itself: every further attempt ends in
  `already.existing.order.number`. `RegisteredTwiceOnlyAfterMishap` lists how it
  comes to that.
- The compensator can only write error, over a success as well
  (`SuccessUndoneOnlyByMishap`).
- **A report of exactly LIMIT_CSV_REPORT_SIZE orders says that some are missing**
  (`export_limit`).

The following are no contradictions of a document, but causes that a property had
to name:

- Reports (`ExactReport`, `SilenceExplained`, `FileHasReason`). The consolidated file is
  named by its dates alone, so that two reports at once, even of two tenants, append
  to one file, and the first to finish removes it. An export that fails after its
  first page leaves its file, and the next csv of that store and those dates is
  appended to it. `clearTmpFolder` may unlink the file of a long-running export, and its
  sweep ends at a file that is gone. A request is committed before the report is
  made, so a stop of the process loses it; an empty range gets no answer at all.
- Accounts (`UnlinkedExplained`, `OneDocumentPerId`). A changed message that overtakes the
  created one inserts a document without `accountType`, to which no location is ever
  linked. A stop between the insert of an account and the adoption of its location is
  not repaired by the redelivery; neither is a database call that failed, since both
  `findAndUpdateLocation` and the consumers swallow the error and the message is
  committed. Only one waiting location is adopted.
- Carriers (`CarrierUpToDate`). A change whose write fails, or is refused by a unique
  index (E11000), is dropped: the message is committed. The validators for uniqueness are used by no DTO.
- Migration. Pages cut with `skip` from a filter that shrinks leave orders behind, and
  so does a write that failed for any reason but E11000, which is counted as a
  success (`RunAdvances`). The history script and `checkAndUpdateOrder` write what they read
  over what arrived since, and so do the consumers: `updateOrder` puts back the
  history and the invoice of the document as `merge` read it, so that an event in
  flight while the scripts merge loses the occurrences of the deleted copies, and gives
  the survivor its old key back (`EventsKept`, `PackagesKept`). Copies are deleted before
  the merged one is saved; two merges
  of a sale that cross delete each other's survivor (`EventsKept`, `SaleKept`). The merge
  takes every document of the sale, other packages included, and the key of the
  first billing datum (`PackagesKept`). A second E11000 ends the script, and so do a
  merge of which no copy is left and, in the history script, an order with neither
  history nor code. An order without occurrences gets one made up, which
  is lost when another merge of its sale has read the order before (`EventsKept`; the
  proof showed this, and the collection `Bare` of the run has it).
- Reports of integrations. The upsert of `updateIntegrations` writes over an order that
  arrived after the lookup (`OrderKept`). A report whose handling failed is committed
  all the same. The compensator's commit on this topic makes a restart skip
  reports (`ReportsHandled`).

## 8. Scope

Not modelled, or only in part:

- `OrderMerge` covers the writers that go through `merge`. `updateIntegrations` is
  modelled in `InvoiceFeedback` and the scripts in `LegacyMigration`, each with the
  order consumers cut down to what they read and write of its documents; a document that
  `updateIntegrations` inserted is not an initial state of the order runs.
  `updateOrderInvoiceData` sets tracking data that no property reads.
- The IHub handler is one handler per package; that its packages run under one
  `Promise.all` and that the first rejection skips the reprocess events is planned.
- Dates (`dispatchDate`, `deliveryDate`), addresses, totals, file contents,
  mapping to and from Intelipost, the cells of CSV and XLSX rows, logging.
- The message ORDER_CREATED and the notfis file transfer of `integrateInvoice`
  are abstracted to "may throw" (`Stumble`).
- Reading (`findAll`, `findOne`, `getOrderDetails`), validation of requests,
  authentication, configuration and wiring change no state. The endpoints of the order
  controller that forward a status to IHub call the producer and nothing else.
- `ExportReport`: the type of an export is csv or xlsx, the two that the code writes;
  with another type no file is written. Documents are not deleted while a report is
  made, and dates of orders in the range do not change.
- `MasterData`: names and addresses of accounts, and the upload of a logo to the blob
  storage. The clean-up job `removeUselessOrders` has its decorator commented out.
- `LegacyMigration`: customer, delivery and totals that the scripts fill in, and the
  publication of each migrated order. Nothing in the repository calls the scripts:
  they are taken to be run by hand, one at a time. The page of the history script is
  that of one store.
- Status codes: a query and a seeder that deletes and inserts its collection at
  start-up, read by one endpoint only. Sales channels: a schema that no service writes.
- `WF` on the partitions aside, Kafka is modelled by positions and redelivery, without
  rebalancing.

## 9. Plan

In order of importance:

1. `OrderNotification`: the fan-out of an IHub order over its packages, merges in
   parallel, the first rejection, the reprocess events; composed with
   `OrderMerge` and the `OrderArrives` of `InvoiceIntegration`.
2. `KafkaConsumer`: offsets and commits in `finally` of all the handlers, with
   rebalancing; `InvoiceFeedback` has those of one topic.
3. `StatusMapping`, `OrderSteppers`: the table of partner ids and the steppers of
   `getOrderDetails`, as pure definitions over bounded inputs.
