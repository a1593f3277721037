---------------------------- MODULE ExportReport -----------------------------
(* The reports of one store over one range of dates: the requests that      *)
(* order.controller.ts publishes, the consumers that answer them, the pages *)
(* that order.service.ts reads and writes to a file under tmp, its upload,  *)
(* its removal, and the nightly sweep of tmp in scheduler.service.ts.  Two  *)
(* requests of the same kind have the same file name, since the name is     *)
(* made of the store and the dates only, and of a consolidated report of    *)
(* the dates alone.                                                         *)
EXTENDS Naturals, Sequences, FiniteSets, SequencesExt

CONSTANTS
  Req,             \* requests for a report, numbered in the order they are made
  Order,           \* orders of the store inside the range
  Late,            \* those that may be stored while reports are made
  Chunk,           \* CHUNK_SIZE_WRITE
  SheetLimit,      \* LIMIT_LINES_XLSX_FILE
  ReportLimit,     \* LIMIT_CSV_REPORT_SIZE
  Listings,        \* what the store may hold at the start
  Requests,        \* what the requests may ask for: functions Req -> Kind
  MaxMishaps,      \* bound: failed reads, uploads, messages, and crashes
  Header, LimitLine, NoFile, NoReport

\* .env sets 900000 and 10000: a sheet is a whole number of pages.
ASSUME SizeAssumption ==
  /\ Req \subseteq Nat
  /\ Chunk \in Nat \ {0}
  /\ ReportLimit \in Nat \ {0}
  /\ SheetLimit \in Nat
  /\ \E m \in 1 .. SheetLimit : SheetLimit = m * Chunk

VARIABLES
  listing,         \* the orders in the order of the index, by orderCreatedAt
  job,             \* how far each request is
  disk,            \* the file of each kind under tmp
  sweep,           \* clearTmpFolder
  mishaps

vars == <<listing, job, disk, sweep, mishaps>>

Kind == {"csv", "xlsx", "consolidated"}

ASSUME InputAssumption ==
  /\ Listings \subseteq Seq(Order)
  /\ Requests \subseteq [Req -> Kind]
  /\ Late \subseteq Order
  /\ MaxMishaps \in Nat

(* A file under tmp is a record: its rows; old, whether it is from before   *)
(* yesterday; by, the request whose write created it (its inode).           *)
Line == Order \union {Header, LimitLine}
File == [rows : Seq(Line), old : BOOLEAN, by : Req]

ASSUME FileAssumption == NoFile \notin File

(* page, pages, count and sheets are the locals of exportData; rows is what *)
(* the workbook of an xlsx holds until it is committed; fd is the file that *)
(* a stream has open.  The rest is history for the properties: the listing  *)
(* that was counted, the orders inserted since, what spoiled the report,    *)
(* the rows that were uploaded if nothing did, whether the user was told.   *)
Idle == [st |-> "new", kind |-> "csv", long |-> FALSE, page |-> 0, pages |-> 0,
         count |-> 0, sheets |-> <<>>, rows |-> <<>>, fd |-> NoFile,
         snap |-> <<>>, added |-> 0, spoil |-> {}, sent |-> NoReport,
         told |-> FALSE]

Init ==
  /\ listing \in Listings
  /\ \E kinds \in Requests : job = [r \in Req |-> [Idle EXCEPT !.kind = kinds[r]]]
  /\ disk = [k \in Kind |-> NoFile]
  /\ sweep = [pc |-> "idle", names |-> {}, at |-> NoFile]
  /\ mishaps = 0

--------------------------------------------------------------------------------
\* Reading and writing pages

PageCount(n) == (n + Chunk - 1) \div Chunk

\* Mutant: the first page is skipped.
PageOf_one_based(page) ==
  LET last == (page + 2) * Chunk
  IN SubSeq(listing, (page + 1) * Chunk + 1, IF last <= Len(listing) THEN last ELSE Len(listing))

\* find(conditions).limit(chunkSize).skip(chunkSize * page): each order of it
\* makes one line of the report.
PageOf(page) ==
  LET last == (page + 1) * Chunk
  IN SubSeq(listing, page * Chunk + 1, IF last <= Len(listing) THEN last ELSE Len(listing))

\* A handler that has its file between its first write and its removal.
HasFile(j) ==
  /\ j.st \in {"paging", "upload", "notify", "cleanup"}
  /\ j.kind = "consolidated" \/ j.page > 0

\* The handler returns: its locals are gone.
Ended(j, st) ==
  [j EXCEPT !.st = st, !.page = 0, !.pages = 0, !.count = 0, !.rows = <<>>, !.fd = NoFile]

Sharing(r) == {q \in Req \ {r} : job[q].kind = job[r].kind /\ HasFile(job[q])}

\* What a first write meets: another handler's file, or one left behind,
\* which only matters to a report that appends.
SpoilOf(r) ==
  (IF Sharing(r) # {} THEN {"shared"} ELSE {})
    \union (IF disk[job[r].kind] # NoFile /\ job[r].kind # "xlsx" THEN {"left"} ELSE {})

\* The jobs once r has written for the first time and become j.
Opened(r, j) ==
  [q \in Req |-> IF q = r THEN [j EXCEPT !.spoil = @ \union SpoilOf(r)]
                 ELSE IF q \in Sharing(r) THEN [job[q] EXCEPT !.spoil = @ \union {"shared"}]
                 ELSE job[q]]

\* appendFileSync(..., { flag: 'a+' })
AppendTo(file, r, lines) ==
  IF file = NoFile THEN [rows |-> lines, old |-> FALSE, by |-> r]
  ELSE [file EXCEPT !.rows = @ \o lines]

\* Mutant: every page writes the header.
createCsvLocally_header(r, lines, skipHeader) == AppendTo(disk["csv"], r, <<Header>> \o lines)

createCsvLocally(r, lines, skipHeader) ==
  AppendTo(disk["csv"], r, IF skipHeader THEN lines ELSE <<Header>> \o lines)

\* Mutant: a new sheet is opened one row too late.
createXlsxLocally_late(j, lines) ==
  LET first == IF j.page = 0 THEN <<0>> ELSE j.sheets
      full  == j.count > SheetLimit
      sheets == IF full THEN Append(first, 0) ELSE first
  IN [j EXCEPT !.sheets = [sheets EXCEPT ![Len(sheets)] = @ + Len(lines)],
               !.count  = Len(lines) + (IF full THEN 0 ELSE @),
               !.rows   = @ \o lines]

\* A new sheet when the rows of this one are exactly the limit.
createXlsxLocally(j, lines) ==
  LET first == IF j.page = 0 THEN <<0>> ELSE j.sheets
      full  == j.count = SheetLimit
      sheets == IF full THEN Append(first, 0) ELSE first
  IN [j EXCEPT !.sheets = [sheets EXCEPT ![Len(sheets)] = @ + Len(lines)],
               !.count  = Len(lines) + (IF full THEN 0 ELSE @),
               !.rows   = @ \o lines]

--------------------------------------------------------------------------------
\* Requests

\* POST /orders/export takes any range; POST /orders/consolidated-report
\* refuses one that is too long or turned round before it publishes.
exportOrders(r) ==
  /\ job[r].st = "new"
  /\ \A q \in Req : q < r => job[q].st # "new"
  /\ \E long \in BOOLEAN :
       /\ job[r].kind = "consolidated" => ~long
       /\ job' = [job EXCEPT ![r] = [@ EXCEPT !.st = "queued", !.long = long]]
  /\ UNCHANGED <<listing, disk, sweep, mishaps>>

\* The offset is committed before anything is done.
Take(r) ==
  /\ job[r].st = "queued"
  /\ job' = [job EXCEPT ![r].st = "taken"]
  /\ UNCHANGED <<listing, disk, sweep, mishaps>>

\* exportData up to its loop: the range is validated and the orders counted.
BeginExport(r) ==
  LET pages == PageCount(Len(listing))
  IN /\ job[r].st = "taken"
     /\ job[r].kind # "consolidated"
     /\ job' = [job EXCEPT ![r] =
          IF @.long THEN Ended(@, "failed")
          ELSE [@ EXCEPT !.st = IF pages = 0 THEN "upload" ELSE "paging",
                         !.pages = pages, !.snap = listing]]
     /\ UNCHANGED <<listing, disk, sweep, mishaps>>

\* createReportConsolidated opens its stream with flags 'a'.
BeginConsolidated(r) ==
  LET k == "consolidated"
      file == IF disk[k] = NoFile THEN [rows |-> <<>>, old |-> FALSE, by |-> r] ELSE disk[k]
  IN /\ job[r].st = "taken"
     /\ job[r].kind = k
     /\ job' = Opened(r, [job[r] EXCEPT !.st = "paging", !.snap = listing, !.fd = file.by])
     /\ disk' = [disk EXCEPT ![k] = file]
     /\ UNCHANGED <<listing, sweep, mishaps>>

\* One round of the loop of exportData for a csv: read a page and append it.
CsvPage(r) ==
  LET j == job[r]
      next == [j EXCEPT !.page = @ + 1, !.st = IF j.page + 1 = j.pages THEN "upload" ELSE @]
  IN /\ j.st = "paging" /\ j.kind = "csv"
     /\ disk' = [disk EXCEPT !["csv"] =
                   createCsvLocally(r, PageOf(j.page), j.page > 0)]
     /\ job' = IF j.page = 0 THEN Opened(r, next) ELSE [job EXCEPT ![r] = next]
     /\ UNCHANGED <<listing, sweep, mishaps>>

\* The same for an xlsx: the first page truncates the file, the last one
\* commits the workbook to it, if it still has that name.
XlsxPage(r) ==
  LET j == job[r]
      last == j.page + 1 = j.pages
      written == createXlsxLocally(j, PageOf(j.page))
      file == IF j.page > 0 THEN disk["xlsx"]
              ELSE IF disk["xlsx"] = NoFile THEN [rows |-> <<>>, old |-> FALSE, by |-> r]
              ELSE [disk["xlsx"] EXCEPT !.rows = <<>>]
      fd == IF j.page = 0 THEN file.by ELSE j.fd
      next == [written EXCEPT !.page = @ + 1, !.fd = fd, !.st = IF last THEN "upload" ELSE @]
  IN /\ j.st = "paging" /\ j.kind = "xlsx"
     /\ disk' = [disk EXCEPT !["xlsx"] =
          IF last /\ file # NoFile /\ file.by = fd
          THEN [file EXCEPT !.rows = written.rows] ELSE file]
     /\ job' = IF j.page = 0 THEN Opened(r, next) ELSE [job EXCEPT ![r] = next]
     /\ UNCHANGED <<listing, sweep, mishaps>>

\* One round of getDataAsStream: pages until one is empty or the limit is
\* reached; what the stream yields goes to the file it has open.
getDataAsStream(r) ==
  LET j == job[r]
      k == "consolidated"
      page == PageOf(j.page)
      atLimit == page # <<>> /\ j.count + Len(page) >= ReportLimit
      lines == (IF j.page = 0 /\ page # <<>> THEN <<Header>> ELSE <<>>)
                 \o page \o (IF atLimit THEN <<LimitLine>> ELSE <<>>)
  IN /\ j.st = "paging" /\ j.kind = k
     /\ job' = [job EXCEPT ![r] =
          [j EXCEPT !.page = @ + 1, !.count = @ + Len(page),
                    !.st = IF page = <<>> \/ atLimit THEN "upload" ELSE @]]
     /\ disk' = IF disk[k] # NoFile /\ disk[k].by = j.fd
                THEN [disk EXCEPT ![k].rows = @ \o lines] ELSE disk
     /\ UNCHANGED <<listing, sweep, mishaps>>

\* Mutant: a report without a count of pages is taken to be empty.
uploadFile_pages(r) ==
  LET j == job[r]
      there == disk[j.kind] # NoFile /\ j.pages > 0
  IN /\ j.st = "upload"
     /\ job' = [job EXCEPT ![r] =
          IF there THEN [@ EXCEPT !.st = "notify",
                             !.sent = IF j.spoil = {} THEN disk[j.kind].rows ELSE NoReport]
          ELSE [@ EXCEPT !.st = "cleanup"]]
     /\ UNCHANGED <<listing, disk, sweep, mishaps>>

\* uploadFile: the path of an export without pages is ''.
uploadFile(r) ==
  LET j == job[r]
      there == disk[j.kind] # NoFile /\ (j.kind = "consolidated" \/ j.pages > 0)
  IN /\ j.st = "upload"
     /\ job' = [job EXCEPT ![r] =
          IF there THEN [@ EXCEPT !.st = "notify",
                             !.sent = IF j.spoil = {} THEN disk[j.kind].rows ELSE NoReport]
          ELSE [@ EXCEPT !.st = "cleanup"]]
     /\ UNCHANGED <<listing, disk, sweep, mishaps>>

\* The url goes to the topic of websocket messages.
Notify(r) ==
  /\ job[r].st = "notify"
  /\ job' = [job EXCEPT ![r] = [@ EXCEPT !.st = "cleanup", !.told = TRUE]]
  /\ UNCHANGED <<listing, disk, sweep, mishaps>>

\* Mutant: the file is only removed when the user could be told.
deleteFileLocally_told(r) ==
  /\ job[r].st = "cleanup"
  /\ job' = [job EXCEPT ![r] = Ended(@, "done")]
  /\ disk' = IF job[r].told THEN [disk EXCEPT ![job[r].kind] = NoFile] ELSE disk
  /\ UNCHANGED <<listing, sweep, mishaps>>

\* finally { if (file && existsSync(file.path)) unlink }
deleteFileLocally(r) ==
  LET j == job[r]
  IN /\ j.st = "cleanup"
     /\ job' = [job EXCEPT ![r] = Ended(@, "done")]
     /\ disk' = IF HasFile(j) THEN [disk EXCEPT ![j.kind] = NoFile] ELSE disk
     /\ UNCHANGED <<listing, sweep, mishaps>>

--------------------------------------------------------------------------------
\* The surroundings

\* An order of the range is stored; the index places it by orderCreatedAt.
InsertOrder(o) ==
  /\ o \notin Range(listing)
  /\ \E i \in 1 .. Len(listing) + 1 : listing' = InsertAt(listing, i, o)
  /\ job' = [r \in Req |-> IF job[r].st = "paging" THEN [job[r] EXCEPT !.added = @ + 1]
                           ELSE job[r]]
  /\ UNCHANGED <<disk, sweep, mishaps>>

\* A page cannot be read or written: exportData throws, the consumer has no
\* file to remove.
PageFails(r) ==
  /\ mishaps < MaxMishaps
  /\ mishaps' = mishaps + 1
  /\ job[r].st \in {"taken", "paging"}
  /\ job' = [job EXCEPT ![r] = Ended(@, "failed")]
  /\ UNCHANGED <<listing, disk, sweep>>

\* The blob storage or the broker refuses: the error is logged, the file removed.
DeliveryFails(r) ==
  /\ mishaps < MaxMishaps
  /\ mishaps' = mishaps + 1
  /\ job[r].st \in {"upload", "notify"}
  /\ job' = [job EXCEPT ![r].st = "cleanup"]
  /\ UNCHANGED <<listing, disk, sweep>>

\* The process stops; what was taken from the topic is not delivered again.
Crash ==
  /\ mishaps < MaxMishaps
  /\ mishaps' = mishaps + 1
  /\ job' = [r \in Req |->
       IF job[r].st \in {"taken", "paging", "upload", "notify", "cleanup"}
       THEN Ended(job[r], "lost") ELSE job[r]]
  /\ sweep' = [pc |-> "idle", names |-> {}, at |-> NoFile]
  /\ UNCHANGED <<listing, disk>>

\* A day passes.
Day ==
  /\ \E k \in Kind : disk[k] # NoFile /\ ~disk[k].old
  /\ disk' = [k \in Kind |-> IF disk[k] = NoFile THEN NoFile ELSE [disk[k] EXCEPT !.old = TRUE]]
  /\ UNCHANGED <<listing, job, sweep, mishaps>>

--------------------------------------------------------------------------------
\* clearTmpFolder

SweepEnd == [pc |-> "idle", names |-> {}, at |-> NoFile]

\* readdir
SweepStart ==
  LET names == {k \in Kind : disk[k] # NoFile}
  IN /\ sweep.pc = "idle"
     /\ names # {}
     /\ sweep' = [pc |-> "stat", names |-> names, at |-> NoFile]
     /\ UNCHANGED <<listing, job, disk, mishaps>>

\* Mutant: isAfter(stats.birthtime, yesterday).
IsAnOlderFile_swapped(file) == ~file.old

\* isAfter(yesterday, stats.birthtime)
IsAnOlderFile(file) == file.old

\* stat: a file that is gone throws, which ends the sweep.
SweepStat ==
  /\ sweep.pc = "stat"
  /\ \E k \in sweep.names :
       sweep' = IF disk[k] = NoFile THEN SweepEnd
                ELSE IF IsAnOlderFile(disk[k])
                THEN [pc |-> "unlink", names |-> sweep.names \ {k}, at |-> k]
                ELSE IF sweep.names = {k} THEN SweepEnd
                ELSE [sweep EXCEPT !.names = @ \ {k}]
  /\ UNCHANGED <<listing, job, disk, mishaps>>

\* unlink of the name, whatever file it is by now.
SweepUnlink ==
  LET k == sweep.at
  IN /\ sweep.pc = "unlink"
     /\ sweep' = IF disk[k] = NoFile \/ sweep.names = {} THEN SweepEnd
                 ELSE [sweep EXCEPT !.pc = "stat", !.at = NoFile]
     /\ disk' = [disk EXCEPT ![k] = NoFile]
     /\ job' = [r \in Req |->
          IF disk[k] # NoFile /\ job[r].kind = k /\ HasFile(job[r])
          THEN [job[r] EXCEPT !.spoil = @ \union {"swept"}] ELSE job[r]]
     /\ UNCHANGED <<listing, mishaps>>

clearTmpFolder == SweepStart \/ SweepStat \/ SweepUnlink

--------------------------------------------------------------------------------

Work(r) ==
  \/ Take(r)
  \/ BeginExport(r)
  \/ BeginConsolidated(r)
  \/ CsvPage(r)
  \/ XlsxPage(r)
  \/ getDataAsStream(r)
  \/ uploadFile(r)
  \/ Notify(r)
  \/ deleteFileLocally(r)

Next ==
  \/ \E r \in Req : exportOrders(r) \/ Work(r) \/ PageFails(r) \/ DeliveryFails(r)
  \/ \E o \in Late : InsertOrder(o)
  \/ Crash
  \/ Day
  \/ clearTmpFolder

Spec == Init /\ [][Next]_vars

FairSpec ==
  /\ Spec
  /\ WF_vars(\E r \in Req : Work(r))
  /\ WF_vars(Day)
  /\ WF_vars(clearTmpFolder)

--------------------------------------------------------------------------------
\* Properties

\* What a consolidated report of these orders should say.
Consolidated(orders) ==
  LET n == PageCount(ReportLimit) * Chunk
  IN IF orders = <<>> THEN <<>>
     ELSE IF Len(orders) < ReportLimit THEN <<Header>> \o orders
     ELSE <<Header>> \o SubSeq(orders, 1, IF n <= Len(orders) THEN n ELSE Len(orders))
            \o <<LimitLine>>

Expected(j) ==
  CASE j.kind = "csv"  -> <<Header>> \o j.snap
    [] j.kind = "xlsx" -> j.snap
    [] OTHER           -> Consolidated(j.snap)

(* The report a user gets lists every order of the store once, in the order *)
(* of the index, under one header (exportData, getDataAsStream), unless an  *)
(* order was inserted while the pages were read, another handler or an      *)
(* earlier failure left lines in the file, or the sweep took it.            *)
ExactReport ==
  \A r \in Req :
    job[r].sent # NoReport /\ job[r].spoil = {} /\ job[r].added = 0
      => job[r].sent = Expected(job[r])

(* Paging with skip while orders are inserted (exportData): an order that   *)
(* was counted is missing from a report only when an inserted one pushed it *)
(* over the last page, so never more of them than were inserted.            *)
MissedOnlyByInserts ==
  \A r \in Req :
    LET j == job[r]
    IN j.sent # NoReport /\ j.spoil = {} /\ j.kind # "consolidated"
         => Cardinality(Range(j.snap) \ Range(j.sent)) <= j.added

(* The test count === LIMIT_LINES_XLSX_FILE (createXlsxLocally) catches the *)
(* limit because every page but the last is full: no sheet is longer, even  *)
(* while orders are inserted between the pages.                             *)
SheetsWithinLimit ==
  \A r \in Req : \A i \in DOMAIN job[r].sheets : job[r].sheets[i] <= SheetLimit

(* A file stays under tmp only while a handler needs it, or because the     *)
(* export failed after its first page or the process stopped: every other   *)
(* path of the consumers removes it.                                        *)
FileHasReason ==
  \A k \in Kind : disk[k] # NoFile =>
    \E r \in Req : job[r].kind = k /\ (HasFile(job[r]) \/ job[r].st \in {"failed", "lost"})

(* A request that ended without a message to its user (consumerExportOrders *)
(* and createReportConsolidated) met a failure, a stop of the process, a    *)
(* range that is refused, a store without orders, or lost its file to       *)
(* another handler or to the sweep.                                         *)
SilenceExplained ==
  \A r \in Req :
    LET j == job[r]
    IN j.st = "done" /\ ~j.told =>
         mishaps > 0 \/ j.snap = <<>> \/ j.spoil \intersect {"shared", "swept"} # {}

(* What failures leave under tmp does not stay: the nightly clearTmpFolder  *)
(* removes it once the requests are over.                                   *)
TmpEmptied == <>[](\A k \in Kind : disk[k] = NoFile)

(* "Limite de pedidos atingido. Ainda há pedidos não listados": a report    *)
(* that says so leaves an order out (getDataAsStream).                      *)
LimitLineTruthful ==
  \A r \in Req :
    LET j == job[r]
    IN j.sent # NoReport /\ LimitLine \in Range(j.sent) => Range(j.snap) \ Range(j.sent) # {}
==============================================================================
