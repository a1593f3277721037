------------------------- MODULE ExportReportProofs --------------------------
(* Two things about the reports, for every store, size of a page and of a   *)
(* sheet, limit, and any number of requests, failures and restarts.         *)
(*                                                                          *)
(* First, the sheets: none of an xlsx is longer than LIMIT_LINES_XLSX_FILE, *)
(* although createXlsxLocally tests the row count with ===.  The count is a *)
(* whole number of pages before each page, since every page but the last is *)
(* full even when orders are inserted meanwhile, so that it cannot step     *)
(* over the limit.                                                          *)
(*                                                                          *)
(* Second, what a user gets and what stays under tmp.  Every step is a turn *)
(* of one request, which may mark those that have its file, or a step of    *)
(* the surroundings.  RequestOK is what each request keeps: its own turns   *)
(* keep it, and to anybody else's step it is a Frame, one that leaves its   *)
(* file alone or marks it, because two handlers that have one file are      *)
(* marked (Exclusive).                                                      *)
EXTENDS ExportReport, SequenceTheorems, FiniteSetTheorems, TLAPS

\* What the record of a request needs to be.
Fields == {"st", "kind", "long", "page", "pages", "count", "sheets", "rows", "fd",
           "snap", "added", "spoil", "sent", "told"}

Shaped(j) ==
  /\ DOMAIN j = Fields
  /\ j.page \in Nat /\ j.pages \in Nat /\ j.count \in Nat
  /\ j.sheets \in Seq(Nat)

\* The pages that fill a sheet.
Sheet == CHOOSE m \in 1 .. SheetLimit : SheetLimit = m * Chunk

\* What makes the test for equality enough: of a job that is reading pages of
\* a listing of length n.
PagingAt(j, n) ==
  /\ j.page < j.pages /\ (j.pages - 1) * Chunk < n
  /\ j.page = 0 => j.count = 0
  /\ j.page > 0 => j.sheets # <<>> /\ j.sheets[Len(j.sheets)] = j.count
  /\ \E q \in 0 .. Sheet : j.count = q * Chunk

Waiting == {"new", "queued", "taken"}

SizedAt(j, n) ==
  /\ j.st \in Waiting => j.page = 0 /\ j.count = 0
  /\ \A i \in DOMAIN j.sheets : j.sheets[i] <= SheetLimit
  /\ j.kind = "xlsx" /\ j.st = "paging" => PagingAt(j, n)

JobInv(j, n) == Shaped(j) /\ SizedAt(j, n)

IInv ==
  /\ listing \in Seq(Order)
  /\ DOMAIN job = Req
  /\ job = [r \in Req |-> job[r]]
  /\ \A r \in Req : JobInv(job[r], Len(listing))

USE SizeAssumption, InputAssumption DEF SizeAssumption, InputAssumption

LEMMA SheetIsPages == Sheet \in Nat \ {0} /\ SheetLimit = Sheet * Chunk
<1>1. PICK m \in 1 .. SheetLimit : SheetLimit = m * Chunk OBVIOUS
<1>2. Sheet \in 1 .. SheetLimit /\ SheetLimit = Sheet * Chunk BY <1>1 DEF Sheet
<1> QED BY <1>2

\* A page has at most Chunk orders, and Chunk of them if as many are left.
LEMMA PageLength ==
  ASSUME listing \in Seq(Order), NEW page \in Nat
  PROVE  /\ PageOf(page) \in Seq(Order)
         /\ Len(PageOf(page)) <= Chunk
         /\ (page + 1) * Chunk <= Len(listing) => Len(PageOf(page)) = Chunk
<1> PICK a \in Nat : a = page * Chunk OBVIOUS
<1> PICK n \in Nat : n = Len(listing) OBVIOUS
<1> PICK b \in Nat : b = IF a + Chunk <= n THEN a + Chunk ELSE n OBVIOUS
<1>1. (page + 1) * Chunk = a + Chunk OBVIOUS
<1>2. PageOf(page) = SubSeq(listing, a + 1, b) BY <1>1 DEF PageOf
<1>3. \A i \in a + 1 .. b : listing[i] \in Order OBVIOUS
<1>4. /\ SubSeq(listing, a + 1, b) \in Seq(Order)
      /\ Len(SubSeq(listing, a + 1, b)) = IF a + 1 <= b THEN b - (a + 1) + 1 ELSE 0
  <2>1. a + 1 \in Int /\ b \in Int OBVIOUS
  <2> QED BY <1>3, <2>1, SubSeqProperties
<1> QED BY <1>1, <1>2, <1>4

\* There are as many pages as it takes, and not one more.
LEMMA PageCountLemma ==
  ASSUME NEW n \in Nat
  PROVE  /\ PageCount(n) \in Nat
         /\ PageCount(n) > 0 => (PageCount(n) - 1) * Chunk < n
<1> PICK x \in Nat : x = n + Chunk - 1 OBVIOUS
<1> PICK p \in Int : p = x \div Chunk OBVIOUS
<1>1. p * Chunk <= x /\ p >= 0 OBVIOUS
<1>2. (p - 1) * Chunk = p * Chunk - Chunk OBVIOUS
<1>3. PageCount(n) = p BY DEF PageCount
<1> QED BY <1>1, <1>2, <1>3

\* The row count stays a whole number of pages and never steps over.
LEMMA CountBelow ==
  ASSUME NEW q \in 0 .. Sheet, q * Chunk # SheetLimit
  PROVE  q + 1 \in 0 .. Sheet /\ q * Chunk + Chunk = (q + 1) * Chunk /\ q * Chunk + Chunk <= SheetLimit
<1>1. Sheet \in Nat /\ SheetLimit = Sheet * Chunk BY SheetIsPages
<1>2. q # Sheet BY <1>1
<1>3. q + 1 <= Sheet /\ q + 1 \in Nat BY <1>1, <1>2
<1>4. q * Chunk + Chunk = (q + 1) * Chunk OBVIOUS
<1>5. (q + 1) * Chunk <= Sheet * Chunk
  <2> PICK d \in Nat : Sheet = q + 1 + d BY <1>1, <1>3
  <2>1. Sheet * Chunk = (q + 1) * Chunk + d * Chunk BY <1>1
  <2>2. d * Chunk \in Nat /\ (q + 1) * Chunk \in Nat OBVIOUS
  <2> QED BY <2>1, <2>2
<1> QED BY <1>1, <1>3, <1>4, <1>5

\* A page written to the workbook leaves every sheet within the limit, and
\* the count as it must be if the page was full.
LEMMA WrittenSized ==
  ASSUME NEW j, Shaped(j), NEW n \in Nat, SizedAt(j, n), PagingAt(j, n),
         NEW lines \in Seq(Order), Len(lines) <= Chunk
  PROVE  LET w == createXlsxLocally(j, lines)
         IN /\ Shaped(w) /\ w.st = j.st /\ w.page = j.page /\ w.pages = j.pages /\ w.kind = j.kind
            /\ \A i \in DOMAIN w.sheets : w.sheets[i] <= SheetLimit
            /\ w.sheets # <<>> /\ w.sheets[Len(w.sheets)] = w.count
            /\ Len(lines) = Chunk => \E q \in 0 .. Sheet : w.count = q * Chunk
<1> DEFINE first == IF j.page = 0 THEN <<0>> ELSE j.sheets
           full == j.count = SheetLimit
           sheets == IF full THEN Append(first, 0) ELSE first
           next == [sheets EXCEPT ![Len(sheets)] = @ + Len(lines)]
           count == Len(lines) + (IF full THEN 0 ELSE j.count)
           w == createXlsxLocally(j, lines)
<1>0. Chunk \in Nat \ {0} /\ SheetLimit \in Nat /\ Len(lines) \in Nat /\ j.count \in Nat
      /\ j.page \in Nat /\ j.sheets \in Seq(Nat) /\ DOMAIN j = Fields
  BY DEF Shaped
<1>1. /\ first \in Seq(Nat) /\ first # <<>> /\ first[Len(first)] = j.count
      /\ \A i \in DOMAIN first : first[i] <= SheetLimit
  BY <1>0 DEF PagingAt, SizedAt
<1>2. Sheet \in Nat \ {0} /\ SheetLimit = Sheet * Chunk /\ Chunk <= SheetLimit
  <2>1. Sheet \in Nat \ {0} /\ SheetLimit = Sheet * Chunk BY SheetIsPages
  <2>2. PICK d \in Nat : Sheet = d + 1 BY <2>1
  <2>3. PICK e \in Nat : e = d * Chunk BY <1>0
  <2>4. (d + 1) * Chunk = e + Chunk BY <1>0, <2>3
  <2>5. SheetLimit = e + Chunk BY <2>1, <2>2, <2>4
  <2>6. Chunk <= SheetLimit BY <1>0, <2>5
  <2> QED BY <2>1, <2>6
<1>3. count \in Nat /\ count <= SheetLimit
      /\ (Len(lines) = Chunk => \E q \in 0 .. Sheet : count = q * Chunk)
  <2>1. CASE full
    <3>1. count = Len(lines) BY <1>0, <2>1
    <3>2. Chunk = 1 * Chunk /\ 1 \in 0 .. Sheet BY <1>0, <1>2
    <3> HIDE DEF count
    <3>3. Len(lines) = Chunk => count = 1 * Chunk BY <3>1, <3>2
    <3>4. count \in Nat /\ count <= SheetLimit
      <4>1. Chunk <= SheetLimit BY <1>2
      <4> QED BY <1>0, <3>1, <4>1
    <3> QED BY <3>2, <3>3, <3>4
  <2>2. CASE ~full
    <3> PICK q \in 0 .. Sheet : j.count = q * Chunk BY DEF PagingAt
    <3>1. q + 1 \in 0 .. Sheet /\ j.count + Chunk = (q + 1) * Chunk /\ j.count + Chunk <= SheetLimit
      BY <2>2, CountBelow
    <3>2. count = Len(lines) + j.count BY <2>2
    <3> HIDE DEF count, full
    <3>3. Len(lines) = Chunk => count = (q + 1) * Chunk BY <1>0, <3>1, <3>2
    <3>4. PICK c \in Nat : c = j.count BY <1>0
    <3>5. PICK l \in Nat : l = Len(lines) /\ l <= Chunk BY <1>0
    <3>6. count = l + c /\ c + Chunk <= SheetLimit BY <3>1, <3>2, <3>4, <3>5
    <3>7. count \in Nat /\ count <= SheetLimit BY <1>0, <3>5, <3>6
    <3> QED BY <3>1, <3>3, <3>7
  <2> QED BY <2>1, <2>2
<1>4. /\ sheets \in Seq(Nat) /\ Len(sheets) \in Nat \ {0}
      /\ sheets[Len(sheets)] + Len(lines) = count
      /\ \A i \in DOMAIN sheets : sheets[i] <= SheetLimit
  <2> HIDE DEF first
  <2>1. CASE full
    <3>1. sheets = Append(first, 0) BY <2>1
    <3>2. Len(sheets) = Len(first) + 1 /\ sheets[Len(sheets)] = 0 /\ sheets \in Seq(Nat)
          /\ \A i \in DOMAIN first : sheets[i] = first[i]
          /\ DOMAIN sheets = 1 .. Len(first) + 1 /\ DOMAIN first = 1 .. Len(first)
      BY <1>1, <3>1
    <3>3. \A i \in DOMAIN sheets : sheets[i] <= SheetLimit
      <4> TAKE i \in DOMAIN sheets
      <4>1. CASE i \in DOMAIN first BY <1>1, <3>2, <4>1
      <4>2. CASE i = Len(first) + 1 BY <1>0, <3>2, <4>2
      <4> QED BY <1>1, <3>2, <4>1, <4>2
    <3> QED BY <1>0, <1>1, <2>1, <3>2, <3>3
  <2>2. CASE ~full
    <3>1. sheets = first BY <2>2
    <3>2. Len(first) \in Nat \ {0} BY <1>1
    <3> QED BY <1>0, <1>1, <2>2, <3>1, <3>2
  <2> QED BY <2>1, <2>2
<1> HIDE DEF sheets, first
<1>5. /\ next \in Seq(Nat) /\ Len(next) = Len(sheets)
      /\ next[Len(next)] = count
      /\ \A i \in DOMAIN next : next[i] <= SheetLimit
      /\ next # <<>>
  <2>1. /\ DOMAIN next = 1 .. Len(sheets) /\ DOMAIN sheets = 1 .. Len(sheets)
        /\ next[Len(sheets)] = count
        /\ \A i \in DOMAIN sheets \ {Len(sheets)} : next[i] = sheets[i]
    BY <1>0, <1>4
  <2>2. next \in [1 .. Len(sheets) -> Nat] BY <1>0, <1>3, <1>4
  <2>3. next \in Seq(Nat) /\ Len(next) = Len(sheets) BY <1>4, <2>2
  <2>4. \A i \in DOMAIN next : next[i] <= SheetLimit BY <1>3, <1>4, <2>1
  <2> QED BY <1>4, <2>1, <2>3, <2>4
<1> HIDE DEF next, count
<1>6. w = [j EXCEPT !.sheets = next, !.count = count, !.rows = @ \o lines]
  BY DEF createXlsxLocally, next, count, sheets, first
<1>7. Shaped(w) /\ w.page = j.page /\ w.pages = j.pages /\ w.sheets = next
      /\ w.count = count /\ w.kind = j.kind /\ w.st = j.st
  BY <1>0, <1>3, <1>5, <1>6 DEF Shaped, Fields
<1> QED BY <1>3, <1>5, <1>7

--------------------------------------------------------------------------------
\* Steps that write no sheet

Keeps(j, k) ==
  /\ Shaped(k)
  /\ k.sheets = j.sheets
  /\ k.st \in Waiting => j.st \in Waiting /\ k.page = j.page /\ k.count = j.count
  /\ k.kind = "xlsx" /\ k.st = "paging" =>
       /\ j.kind = "xlsx" /\ j.st = "paging"
       /\ k.page = j.page /\ k.pages = j.pages /\ k.count = j.count

LEMMA PagingGrows ==
  ASSUME NEW j, NEW k, Shaped(j), Shaped(k), NEW n \in Nat, NEW m \in Nat, n <= m,
         PagingAt(j, n), k.sheets = j.sheets,
         k.page = j.page, k.pages = j.pages, k.count = j.count
  PROVE  PagingAt(k, m)
<1>1. PICK x \in Int : x = (j.pages - 1) * Chunk BY DEF Shaped
<1>2. x < n BY <1>1 DEF PagingAt
<1>3. (k.pages - 1) * Chunk < m BY <1>1, <1>2
<1>4. k.page < k.pages BY DEF PagingAt
<1>5. k.page = 0 => k.count = 0 BY DEF PagingAt
<1>6. k.page > 0 => k.sheets # <<>> /\ k.sheets[Len(k.sheets)] = k.count BY DEF PagingAt
<1>7. \E q \in 0 .. Sheet : k.count = q * Chunk BY DEF PagingAt
<1> QED BY <1>3, <1>4, <1>5, <1>6, <1>7 DEF PagingAt

LEMMA KeepsInv ==
  ASSUME NEW j, NEW k, NEW n \in Nat, NEW m \in Nat, n <= m, JobInv(j, n), Keeps(j, k)
  PROVE  JobInv(k, m)
<1>1. Shaped(j) /\ Shaped(k) BY DEF JobInv, Keeps
<1>2. \A i \in DOMAIN k.sheets : k.sheets[i] <= SheetLimit BY DEF JobInv, Keeps, SizedAt
<1>3. ASSUME k.kind = "xlsx", k.st = "paging" PROVE PagingAt(k, m)
  BY <1>1, <1>3, PagingGrows DEF JobInv, Keeps, SizedAt
<1>4. k.st \in Waiting => k.page = 0 /\ k.count = 0 BY DEF JobInv, Keeps, SizedAt
<1> QED BY <1>1, <1>2, <1>3, <1>4 DEF JobInv, SizedAt

\* One request moves on.
LEMMA OneInv ==
  ASSUME IInv, listing' = listing, NEW r \in Req, NEW k, JobInv(k, Len(listing)),
         job' = [job EXCEPT ![r] = k]
  PROVE  IInv'
<1>1. DOMAIN job' = Req BY DEF IInv
<1>2. job' = [q \in Req |-> job'[q]] BY <1>1 DEF IInv
<1>3. \A q \in Req : JobInv(job'[q], Len(listing)) BY DEF IInv
<1> QED BY <1>1, <1>2, <1>3 DEF IInv

\* A first write marks the requests that share the file.
LEMMA OpenedInv ==
  ASSUME IInv, listing' = listing, NEW r \in Req, NEW k, JobInv(k, Len(listing)),
         job' = Opened(r, k)
  PROVE  IInv'
<1>0. listing \in Seq(Order) BY DEF IInv
<1> PICK n \in Nat : n = Len(listing) BY <1>0
<1>1. DOMAIN job' = Req /\ job' = [q \in Req |-> job'[q]] BY DEF Opened
<1>2. ASSUME NEW q \in Req PROVE JobInv(job'[q], n)
  <2>1. CASE q = r
    <3>1. job'[q] = [k EXCEPT !.spoil = @ \union SpoilOf(r)] BY <2>1 DEF Opened
    <3>2. Keeps(k, job'[q]) BY <3>1 DEF Keeps, JobInv, Shaped, Fields
    <3> QED BY <3>2, KeepsInv
  <2>2. CASE q # r
    <3>1. job'[q] = [job[q] EXCEPT !.spoil = @ \union {"shared"}] \/ job'[q] = job[q]
      BY <2>2 DEF Opened
    <3>2. JobInv(job[q], n) BY DEF IInv
    <3>3. Keeps(job[q], job'[q]) BY <3>1, <3>2 DEF Keeps, JobInv, Shaped, Fields
    <3> QED BY <3>2, <3>3, KeepsInv
  <2> QED BY <2>1, <2>2
<1> QED BY <1>1, <1>2 DEF IInv

\* Every request keeps its sheets.
LEMMA AllInv ==
  ASSUME IInv, NEW n \in Nat, Len(listing) <= n, listing' \in Seq(Order), Len(listing') = n,
         job' = [q \in Req |-> job'[q]], \A q \in Req : Keeps(job[q], job'[q])
  PROVE  IInv'
<1>1. Len(listing) \in Nat BY DEF IInv
<1>2. \A q \in Req : JobInv(job'[q], n) BY <1>1, KeepsInv DEF IInv
<1>3. DOMAIN job' = Req OBVIOUS
<1> QED BY <1>2, <1>3 DEF IInv

LEMMA InitInv == Init => IInv
<1> SUFFICES ASSUME Init PROVE IInv OBVIOUS
<1>1. PICK kinds \in Requests : job = [r \in Req |-> [Idle EXCEPT !.kind = kinds[r]]]
  BY DEF Init
<1>2. ASSUME NEW r \in Req PROVE Shaped(job[r]) /\ job[r].st = "new" /\ job[r].sheets = <<>>
                              /\ job[r].page = 0 /\ job[r].count = 0
  <2>1. job[r] = [Idle EXCEPT !.kind = kinds[r]] BY <1>1
  <2>2. DOMAIN Idle = Fields BY DEF Idle, Fields
  <2>3. DOMAIN job[r] = Fields BY <2>1, <2>2
  <2>4. /\ job[r].st = "new" /\ job[r].sheets = <<>> /\ job[r].page = 0
        /\ job[r].pages = 0 /\ job[r].count = 0
    BY <2>1, <2>2 DEF Idle, Fields
  <2> QED BY <2>3, <2>4 DEF Shaped
<1>3. ASSUME NEW r \in Req PROVE JobInv(job[r], Len(listing))
  BY <1>2 DEF JobInv, SizedAt
<1>4. listing \in Seq(Order) BY DEF Init
<1> QED BY <1>1, <1>3, <1>4 DEF IInv

\* A handler that returns, or any step of one that only moves its state to
\* one in which no page is read.
LEMMA LeavesInv ==
  ASSUME IInv, listing' = listing, NEW r \in Req, NEW k, job' = [job EXCEPT ![r] = k],
         Shaped(k), k.sheets = job[r].sheets, k.st \notin Waiting,
         k.st # "paging" \/ k.kind # "xlsx"
  PROVE  IInv'
<1>0. listing \in Seq(Order) /\ JobInv(job[r], Len(listing)) BY DEF IInv
<1>1. JobInv(k, Len(listing)) BY <1>0 DEF JobInv, SizedAt
<1> QED BY <1>1, OneInv

LEMMA BeginExportInv ==
  ASSUME IInv, NEW r \in Req, BeginExport(r)
  PROVE  IInv'
<1> DEFINE j == job[r]
           n == Len(listing)
           pages == PageCount(n)
           k == [j EXCEPT !.st = IF pages = 0 THEN "upload" ELSE "paging",
                          !.pages = pages, !.snap = listing]
<1>0. /\ listing \in Seq(Order) /\ n \in Nat /\ JobInv(j, n) /\ Shaped(j)
      /\ listing' = listing
  BY DEF IInv, JobInv, BeginExport
<1>1. CASE j.long
  <2>1. job' = [job EXCEPT ![r] = Ended(j, "failed")] BY <1>1 DEF BeginExport
  <2>2. Shaped(Ended(j, "failed")) /\ Ended(j, "failed").sheets = j.sheets
        /\ Ended(j, "failed").st = "failed"
    BY <1>0 DEF Ended, Shaped, Fields
  <2>3. Ended(j, "failed").st \notin Waiting /\ Ended(j, "failed").st # "paging"
    BY <2>2 DEF Waiting
  <2> QED BY <1>0, <2>1, <2>2, <2>3, LeavesInv
<1>2. CASE ~j.long
  <2>1. job' = [job EXCEPT ![r] = k] BY <1>2 DEF BeginExport
  <2>2. PICK p \in Nat : p = pages /\ (p > 0 => (p - 1) * Chunk < n) BY <1>0, PageCountLemma
  <2>3. /\ Shaped(k) /\ k.sheets = j.sheets /\ k.page = j.page /\ k.count = j.count
        /\ k.pages = p /\ k.st = IF p = 0 THEN "upload" ELSE "paging"
    BY <1>0, <2>2 DEF Shaped, Fields
  <2>4. j.page = 0 /\ j.count = 0 BY <1>0 DEF BeginExport, JobInv, SizedAt, Waiting
  <2>5. ASSUME p > 0 PROVE PagingAt(k, n)
    <3>1. 0 \in 0 .. Sheet /\ 0 = 0 * Chunk BY SheetIsPages
    <3> HIDE DEF k, n
    <3> QED BY <2>2, <2>3, <2>4, <2>5, <3>1 DEF PagingAt
  <2>6. \A i \in DOMAIN k.sheets : k.sheets[i] <= SheetLimit
    BY <1>0, <2>3 DEF JobInv, SizedAt
  <2> HIDE DEF k, pages
  <2>7. JobInv(k, n) BY <2>2, <2>3, <2>5, <2>6 DEF JobInv, SizedAt, Waiting
  <2> QED BY <1>0, <2>1, <2>7, OneInv
<1> QED BY <1>1, <1>2

LEMMA BeginConsolidatedInv ==
  ASSUME IInv, NEW r \in Req, BeginConsolidated(r)
  PROVE  IInv'
<1>0. /\ listing \in Seq(Order) /\ JobInv(job[r], Len(listing)) /\ Shaped(job[r])
      /\ listing' = listing /\ job[r].kind = "consolidated"
  BY DEF IInv, JobInv, BeginConsolidated
<1>1. PICK fd : job' = Opened(r, [job[r] EXCEPT !.st = "paging", !.snap = listing, !.fd = fd])
  BY DEF BeginConsolidated
<1> DEFINE k == [job[r] EXCEPT !.st = "paging", !.snap = listing, !.fd = fd]
<1>2. Shaped(k) /\ k.sheets = job[r].sheets /\ k.st = "paging" /\ k.kind = "consolidated"
  BY <1>0 DEF Shaped, Fields
<1> HIDE DEF k
<1>3. JobInv(k, Len(listing)) BY <1>0, <1>2 DEF JobInv, SizedAt, Waiting
<1>4. job' = Opened(r, k) BY <1>1 DEF k
<1> QED BY <1>0, <1>3, <1>4, OpenedInv

LEMMA CsvPageInv ==
  ASSUME IInv, NEW r \in Req, CsvPage(r)
  PROVE  IInv'
<1> DEFINE j == job[r]
           k == [j EXCEPT !.page = @ + 1, !.st = IF j.page + 1 = j.pages THEN "upload" ELSE @]
<1>0. /\ listing \in Seq(Order) /\ JobInv(j, Len(listing)) /\ Shaped(j)
      /\ listing' = listing /\ j.kind = "csv" /\ j.st = "paging"
  BY DEF IInv, JobInv, CsvPage
<1>1. job' = Opened(r, k) \/ job' = [job EXCEPT ![r] = k] BY DEF CsvPage
<1>2. Shaped(k) /\ k.sheets = j.sheets /\ k.st \in {"paging", "upload"} /\ k.kind = "csv"
  BY <1>0 DEF Shaped, Fields
<1> HIDE DEF k
<1>3. JobInv(k, Len(listing)) BY <1>0, <1>2 DEF JobInv, SizedAt, Waiting
<1> QED BY <1>0, <1>1, <1>3, OneInv, OpenedInv

LEMMA ConsolidatedPageInv ==
  ASSUME IInv, NEW r \in Req, getDataAsStream(r)
  PROVE  IInv'
<1> DEFINE j == job[r]
<1>0. /\ listing \in Seq(Order) /\ Shaped(j) /\ listing' = listing
      /\ j.kind = "consolidated" /\ j.st = "paging" /\ j.page \in Nat
  BY DEF IInv, JobInv, Shaped, getDataAsStream
<1>1. PageOf(j.page) \in Seq(Order) BY <1>0, PageLength
<1> DEFINE page == PageOf(j.page)
           st == IF page = <<>> \/ (page # <<>> /\ j.count + Len(page) >= ReportLimit)
                 THEN "upload" ELSE j.st
           k == [j EXCEPT !.page = @ + 1, !.count = @ + Len(page), !.st = st]
<1>2. job' = [job EXCEPT ![r] = k]
  BY DEF getDataAsStream
<1>3. Len(page) \in Nat BY <1>1
<1>4. st \in {"upload", "paging"} BY <1>0
<1> HIDE DEF page, st
<1>5. Shaped(k) /\ k.sheets = j.sheets /\ k.st = st /\ k.kind = "consolidated"
  <2> HIDE DEF j
  <2> QED BY <1>0, <1>3 DEF Shaped, Fields
<1> HIDE DEF k
<1>6. k.st \notin Waiting BY <1>4, <1>5 DEF Waiting
<1> QED BY <1>0, <1>2, <1>5, <1>6, LeavesInv

LEMMA XlsxPageInv ==
  ASSUME IInv, NEW r \in Req, XlsxPage(r)
  PROVE  IInv'
<1> DEFINE j == job[r]
           n == Len(listing)
           lines == PageOf(j.page)
           written == createXlsxLocally(j, lines)
           last == j.page + 1 = j.pages
<1>0. /\ listing \in Seq(Order) /\ n \in Nat /\ JobInv(j, n) /\ Shaped(j) /\ SizedAt(j, n)
      /\ listing' = listing /\ j.kind = "xlsx" /\ j.st = "paging" /\ PagingAt(j, n)
      /\ j.page \in Nat /\ j.pages \in Nat
  BY DEF IInv, JobInv, Shaped, SizedAt, XlsxPage
<1>1. PICK fd : LET k == [written EXCEPT !.page = @ + 1, !.fd = fd, !.st = IF last THEN "upload" ELSE @]
                IN job' = Opened(r, k) \/ job' = [job EXCEPT ![r] = k]
  BY DEF XlsxPage
<1> DEFINE k == [written EXCEPT !.page = @ + 1, !.fd = fd, !.st = IF last THEN "upload" ELSE @]
<1>2. job' = Opened(r, k) \/ job' = [job EXCEPT ![r] = k] BY <1>1
<1>3. /\ lines \in Seq(Order) /\ Len(lines) <= Chunk
      /\ (j.page + 1) * Chunk <= n => Len(lines) = Chunk
  BY <1>0, PageLength
<1> HIDE DEF j, n, lines
<1>4. /\ Shaped(written) /\ written.page = j.page /\ written.pages = j.pages
      /\ written.kind = j.kind
      /\ \A i \in DOMAIN written.sheets : written.sheets[i] <= SheetLimit
      /\ written.sheets # <<>> /\ written.sheets[Len(written.sheets)] = written.count
      /\ Len(lines) = Chunk => \E q \in 0 .. Sheet : written.count = q * Chunk
      /\ written.st = j.st
  BY <1>0, <1>3, WrittenSized
<1> HIDE DEF written
<1>5. /\ Shaped(k) /\ k.page = j.page + 1 /\ k.pages = j.pages /\ k.sheets = written.sheets
      /\ k.count = written.count /\ k.st = IF last THEN "upload" ELSE "paging"
  <2>1. PICK w : w = written OBVIOUS
  <2>2. DOMAIN w = Fields /\ w.page \in Nat /\ w.st = "paging" BY <1>0, <1>4, <2>1 DEF Shaped
  <2>3. PICK st : st = IF last THEN "upload" ELSE w.st OBVIOUS
  <2>4. k = [w EXCEPT !.page = @ + 1, !.fd = fd, !.st = st] BY <2>1, <2>3
  <2>5. /\ DOMAIN k = Fields /\ k.page = w.page + 1 /\ k.pages = w.pages /\ k.sheets = w.sheets
        /\ k.count = w.count /\ k.st = st
    BY <2>2, <2>4 DEF Fields
  <2> QED BY <1>0, <1>4, <2>1, <2>2, <2>3, <2>5 DEF Shaped
<1> HIDE DEF k
\* Another page follows: this one was full.
<1>6. ASSUME ~last PROVE PagingAt(k, n)
  <2>1. j.page + 1 < j.pages BY <1>0, <1>6 DEF PagingAt
  <2>2. PICK d \in Nat : j.pages - 1 = j.page + 1 + d
    <3>1. PICK x \in Nat : x = j.page BY <1>0
    <3>2. PICK y \in Nat : y = j.pages BY <1>0
    <3>3. x + 1 < y BY <2>1, <3>1, <3>2
    <3>4. y - 2 - x \in Nat /\ y - 1 = x + 1 + (y - 2 - x) BY <3>3
    <3> QED BY <3>1, <3>2, <3>4
  <2>3. PICK a \in Nat : a = (j.page + 1) * Chunk BY <1>0
  <2>4. PICK b \in Nat : b = d * Chunk OBVIOUS
  <2>5. (j.page + 1 + d) * Chunk = a + b BY <1>0, <2>3, <2>4
  <2>6. a + b < n BY <1>0, <2>2, <2>5 DEF PagingAt
  <2>7. Len(lines) = Chunk BY <1>0, <1>3, <2>3, <2>4, <2>6
  <2>8. k.page < k.pages /\ k.page > 0 BY <1>0, <1>5, <2>1
  <2>9. (k.pages - 1) * Chunk < n BY <1>0, <1>5 DEF PagingAt
  <2>10. \E q \in 0 .. Sheet : k.count = q * Chunk BY <1>4, <1>5, <2>7
  <2>11. k.sheets # <<>> /\ k.sheets[Len(k.sheets)] = k.count BY <1>4, <1>5
  <2> QED BY <2>8, <2>9, <2>10, <2>11 DEF PagingAt
<1>7. k.st \notin Waiting BY <1>5 DEF Waiting
<1>8. JobInv(k, n)
  <2>1. \A i \in DOMAIN k.sheets : k.sheets[i] <= SheetLimit BY <1>4, <1>5
  <2>2. k.st = "paging" => PagingAt(k, n) BY <1>5, <1>6
  <2> QED BY <1>5, <1>7, <2>1, <2>2 DEF JobInv, SizedAt
<1>9. JobInv(k, Len(listing)) BY <1>8 DEF n
<1>10. listing' = listing BY <1>0
<1> QED BY <1>2, <1>9, <1>10, OneInv, OpenedInv

LEMMA InsertInv ==
  ASSUME IInv, NEW o \in Late, InsertOrder(o)
  PROVE  IInv'
<1>0. listing \in Seq(Order) /\ o \in Order BY DEF IInv
<1>1. PICK i \in 1 .. Len(listing) + 1 : listing' = InsertAt(listing, i, o) BY DEF InsertOrder
<1>2. listing' \in Seq(Order) /\ Len(listing') = Len(listing) + 1
  <2> DEFINE before == SubSeq(listing, 1, i - 1)
             after == SubSeq(listing, i, Len(listing))
  <2>1. before \in Seq(Order) /\ Len(before) = i - 1 BY <1>0, SubSeqProperties
  <2>2. after \in Seq(Order) /\ Len(after) = Len(listing) - i + 1 BY <1>0, SubSeqProperties
  <2>3. listing' = before \o <<o>> \o after BY <1>1 DEF InsertAt
  <2> HIDE DEF before, after
  <2>4. PICK l \in Nat : l = Len(listing) BY <1>0
  <2>5. i \in Nat /\ <<o>> \in Seq(Order) /\ Len(<<o>>) = 1 BY <1>0, <2>4
  <2>6. before \o <<o>> \in Seq(Order) /\ Len(before \o <<o>>) = i
    BY <2>1, <2>5, ConcatProperties
  <2>7. listing' \in Seq(Order) /\ Len(listing') = i + (l - i + 1)
    BY <2>2, <2>3, <2>4, <2>6, ConcatProperties
  <2>8. i + (l - i + 1) = l + 1 BY <2>5
  <2> QED BY <2>4, <2>7, <2>8
<1>3. PICK n \in Nat : n = Len(listing) + 1 BY <1>0
<1>4. job' = [r \in Req |-> job'[r]] BY DEF InsertOrder
<1>5. ASSUME NEW r \in Req PROVE Keeps(job[r], job'[r])
  <2>1. job'[r] = [job[r] EXCEPT !.added = @ + 1] \/ job'[r] = job[r] BY DEF InsertOrder
  <2>2. Shaped(job[r]) BY DEF IInv, JobInv
  <2> QED BY <2>1, <2>2 DEF Keeps, Shaped, Fields
<1>6. Len(listing) <= n /\ Len(listing') = n BY <1>0, <1>2, <1>3
<1> QED BY <1>2, <1>4, <1>5, <1>6, AllInv

\* A step that leaves the listing and keeps what matters of one request.
LEMMA KeepInv ==
  ASSUME IInv, listing' = listing, NEW r \in Req, NEW k, job' = [job EXCEPT ![r] = k],
         Keeps(job[r], k)
  PROVE  IInv'
<1>1. listing \in Seq(Order) /\ JobInv(job[r], Len(listing)) BY DEF IInv
<1>2. Len(listing) \in Nat BY <1>1
<1>3. JobInv(k, Len(listing)) BY <1>1, <1>2, KeepsInv
<1> QED BY <1>3, OneInv

LEMMA UnchangedInv == ASSUME IInv, listing' = listing, job' = job PROVE IInv'
  BY DEF IInv

\* A handler that returns.
LEMMA EndedKeeps ==
  ASSUME NEW j, Shaped(j), NEW st \in {"done", "failed", "lost"}
  PROVE  Keeps(j, Ended(j, st))
<1>1. /\ Shaped(Ended(j, st)) /\ Ended(j, st).sheets = j.sheets /\ Ended(j, st).st = st
  BY DEF Ended, Shaped, Fields
<1> QED BY <1>1 DEF Keeps, Waiting

LEMMA RequestInv ==
  ASSUME IInv, NEW r \in Req,
         exportOrders(r) \/ Take(r) \/ uploadFile(r) \/ Notify(r) \/ deleteFileLocally(r)
           \/ PageFails(r) \/ DeliveryFails(r)
  PROVE  IInv'
<1> DEFINE j == job[r]
<1>0. Shaped(j) BY DEF IInv, JobInv
<1>1. CASE exportOrders(r)
  <2>1. PICK long \in BOOLEAN : job' = [job EXCEPT ![r] = [j EXCEPT !.st = "queued", !.long = long]]
    BY <1>1 DEF exportOrders
  <2>2. Keeps(j, [j EXCEPT !.st = "queued", !.long = long])
    BY <1>0, <1>1 DEF exportOrders, Keeps, Shaped, Fields, Waiting
  <2>3. listing' = listing BY <1>1 DEF exportOrders
  <2> QED BY <2>1, <2>2, <2>3, KeepInv
<1>2. CASE Take(r)
  <2>1. job' = [job EXCEPT ![r] = [j EXCEPT !.st = "taken"]]
    BY <1>2 DEF Take, IInv
  <2>2. Keeps(j, [j EXCEPT !.st = "taken"])
    BY <1>0, <1>2 DEF Take, Keeps, Shaped, Fields, Waiting
  <2>3. listing' = listing BY <1>2 DEF Take
  <2> QED BY <2>1, <2>2, <2>3, KeepInv
<1>3. CASE uploadFile(r)
  <2>1. PICK sent : \/ job' = [job EXCEPT ![r] = [j EXCEPT !.st = "notify", !.sent = sent]]
                    \/ job' = [job EXCEPT ![r] = [j EXCEPT !.st = "cleanup"]]
    BY <1>3 DEF uploadFile
  <2>2. Keeps(j, [j EXCEPT !.st = "notify", !.sent = sent])
    BY <1>0 DEF Keeps, Shaped, Fields, Waiting
  <2>3. Keeps(j, [j EXCEPT !.st = "cleanup"])
    BY <1>0 DEF Keeps, Shaped, Fields, Waiting
  <2>4. listing' = listing BY <1>3 DEF uploadFile
  <2> QED BY <2>1, <2>2, <2>3, <2>4, KeepInv
<1>4. CASE Notify(r)
  <2>1. job' = [job EXCEPT ![r] = [j EXCEPT !.st = "cleanup", !.told = TRUE]] BY <1>4 DEF Notify
  <2>2. Keeps(j, [j EXCEPT !.st = "cleanup", !.told = TRUE])
    BY <1>0 DEF Keeps, Shaped, Fields, Waiting
  <2>3. listing' = listing BY <1>4 DEF Notify
  <2> QED BY <2>1, <2>2, <2>3, KeepInv
<1>5. CASE deleteFileLocally(r)
  <2>1. job' = [job EXCEPT ![r] = Ended(j, "done")] /\ listing' = listing
    BY <1>5 DEF deleteFileLocally
  <2> QED BY <1>0, <2>1, EndedKeeps, KeepInv
<1>6. CASE PageFails(r)
  <2>1. job' = [job EXCEPT ![r] = Ended(j, "failed")] /\ listing' = listing
    BY <1>6 DEF PageFails
  <2> QED BY <1>0, <2>1, EndedKeeps, KeepInv
<1>7. CASE DeliveryFails(r)
  <2>1. job' = [job EXCEPT ![r] = [j EXCEPT !.st = "cleanup"]] /\ listing' = listing
    BY <1>7 DEF DeliveryFails, IInv
  <2>2. Keeps(j, [j EXCEPT !.st = "cleanup"])
    BY <1>0 DEF Keeps, Shaped, Fields, Waiting
  <2> QED BY <2>1, <2>2, KeepInv
<1> QED BY <1>1, <1>2, <1>3, <1>4, <1>5, <1>6, <1>7

LEMMA SurroundingsInv ==
  ASSUME IInv, Crash \/ Day \/ clearTmpFolder
  PROVE  IInv'
<1>0. listing \in Seq(Order) BY DEF IInv
<1> PICK n \in Nat : n = Len(listing) BY <1>0
<1>1. ASSUME NEW r \in Req PROVE Shaped(job[r]) BY DEF IInv, JobInv
<1>2. CASE Crash
  <2>1. listing' = listing /\ job' = [r \in Req |-> job'[r]] BY <1>2 DEF Crash
  <2>2. ASSUME NEW r \in Req PROVE Keeps(job[r], job'[r])
    <3>1. job'[r] = Ended(job[r], "lost") \/ job'[r] = job[r] BY <1>2 DEF Crash
    <3>2. Keeps(job[r], job[r]) BY <1>1 DEF Keeps
    <3> QED BY <1>1, <3>1, <3>2, EndedKeeps
  <2>3. listing' \in Seq(Order) /\ Len(listing') = n /\ Len(listing) <= n BY <1>0, <2>1
  <2> QED BY <2>1, <2>2, <2>3, AllInv
<1>3. CASE Day BY <1>3, UnchangedInv DEF Day
<1>4. CASE SweepStart BY <1>4, UnchangedInv DEF SweepStart
<1>5. CASE SweepStat BY <1>5, UnchangedInv DEF SweepStat
<1>6. CASE SweepUnlink
  <2>1. listing' = listing /\ job' = [r \in Req |-> job'[r]] BY <1>6 DEF SweepUnlink
  <2>2. ASSUME NEW r \in Req PROVE Keeps(job[r], job'[r])
    <3>1. job'[r] = [job[r] EXCEPT !.spoil = @ \union {"swept"}] \/ job'[r] = job[r]
      BY <1>6 DEF SweepUnlink
    <3> QED BY <1>1, <3>1 DEF Keeps, Shaped, Fields
  <2>3. listing' \in Seq(Order) /\ Len(listing') = n /\ Len(listing) <= n BY <1>0, <2>1
  <2> QED BY <2>1, <2>2, <2>3, AllInv
<1> QED BY <1>2, <1>3, <1>4, <1>5, <1>6 DEF clearTmpFolder

LEMMA NextInv == IInv /\ [Next]_vars => IInv'
<1> SUFFICES ASSUME IInv, [Next]_vars PROVE IInv' OBVIOUS
<1>1. ASSUME NEW r \in Req, Work(r) PROVE IInv'
  BY <1>1, BeginExportInv, BeginConsolidatedInv, CsvPageInv, XlsxPageInv,
     ConsolidatedPageInv, RequestInv DEF Work
<1>2. ASSUME NEW r \in Req, exportOrders(r) \/ PageFails(r) \/ DeliveryFails(r) PROVE IInv'
  BY <1>2, RequestInv
<1>3. ASSUME NEW o \in Late, InsertOrder(o) PROVE IInv' BY <1>3, InsertInv
<1>4. CASE UNCHANGED vars BY <1>4, UnchangedInv DEF vars
<1> QED BY <1>1, <1>2, <1>3, <1>4, SurroundingsInv DEF Next

LEMMA InvGives == IInv => SheetsWithinLimit
  BY DEF IInv, JobInv, SizedAt, SheetsWithinLimit

(* No sheet of an xlsx has more rows than LIMIT_LINES_XLSX_FILE, although   *)
(* createXlsxLocally only tests for equality: for every number of orders,   *)
(* of requests and of rows of a page, with orders inserted between the      *)
(* pages, failures, restarts and the sweep of tmp.                          *)
THEOREM SheetsWithinLimitAlways == Spec => []SheetsWithinLimit
<1> QED BY InitInv, NextInv, InvGives, PTL DEF Spec

HIDE DEF SizeAssumption, InputAssumption
--------------------------------------------------------------------------------
\* What a step does to a request and to its file

State == {"new", "queued", "taken", "paging", "upload", "notify", "cleanup",
          "done", "failed", "lost"}
Taken == {"taken", "paging", "upload", "notify", "cleanup"}
Kept == {"shared", "swept"}

JobTyped(j) ==
  /\ Shaped(j)
  /\ j.st \in State /\ j.kind \in Kind /\ j.told \in BOOLEAN /\ j.added \in Nat
  /\ j.snap \in Seq(Order) /\ j.rows \in Seq(Order)

TInv ==
  /\ IInv
  /\ \A r \in Req : JobTyped(job[r])
  /\ disk \in [Kind -> File \union {NoFile}]
  /\ mishaps \in Nat

\* k is j, but that the file may have met others.
Apart(j, k) ==
  /\ k.st = j.st /\ k.kind = j.kind /\ k.long = j.long /\ k.page = j.page /\ k.pages = j.pages
  /\ k.count = j.count /\ k.rows = j.rows /\ k.fd = j.fd /\ k.snap = j.snap
  /\ k.added = j.added /\ k.sent = j.sent /\ k.told = j.told
  /\ j.spoil \subseteq k.spoil

\* What a page, an upload or a message leaves alone.
Carries(j, k) == k.kind = j.kind /\ k.snap = j.snap /\ k.added = j.added /\ k.pages = j.pages

Same(j, k) ==
  /\ Carries(j, k) /\ k.page = j.page /\ k.count = j.count /\ k.rows = j.rows /\ k.fd = j.fd
  /\ k.spoil = j.spoil

Ends(j, k) ==
  /\ k.kind = j.kind /\ k.snap = j.snap /\ k.added = j.added /\ k.spoil = j.spoil
  /\ k.sent = j.sent /\ k.told = j.told
  /\ k.page = 0 /\ k.pages = 0 /\ k.count = 0 /\ k.rows = <<>>

\* How the file is met: with others, who are marked, or left there.
Meets(r, k) ==
  /\ k.spoil = job[r].spoil \union SpoilOf(r)
  /\ \A q \in Sharing(r) : "shared" \in job'[q].spoil

Asks(r, j, k) ==
  /\ \/ j.st = "new" /\ k.st = "queued"
     \/ j.st = "queued" /\ k.st = "taken"
  /\ Same(j, k) /\ k.sent = j.sent /\ k.told = j.told
  /\ UNCHANGED <<disk, mishaps>>

Counts(r, j, k) ==
  /\ j.st = "taken" /\ j.kind # "consolidated"
  /\ k.st = IF PageCount(Len(listing)) = 0 THEN "upload" ELSE "paging"
  /\ k.pages = PageCount(Len(listing)) /\ k.snap = listing
  /\ k.kind = j.kind /\ k.added = j.added /\ k.page = j.page /\ k.count = j.count
  /\ k.rows = j.rows /\ k.spoil = j.spoil /\ k.sent = j.sent /\ k.told = j.told
  /\ UNCHANGED <<disk, mishaps>>

Streams(r, j, k, d, e) ==
  /\ j.st = "taken" /\ j.kind = "consolidated" /\ k.st = "paging"
  /\ e = IF d = NoFile THEN [rows |-> <<>>, old |-> FALSE, by |-> r] ELSE d
  /\ k.snap = listing /\ k.fd = e.by
  /\ k.kind = j.kind /\ k.added = j.added /\ k.page = j.page /\ k.count = j.count
  /\ k.rows = j.rows /\ k.sent = j.sent /\ k.told = j.told
  /\ Meets(r, k)
  /\ UNCHANGED mishaps

\* A page of an export: of a csv, of an xlsx.
Pages(r, j, k) ==
  /\ j.st = "paging" /\ k.st = IF j.page + 1 = j.pages THEN "upload" ELSE "paging"
  /\ Carries(j, k) /\ k.page = j.page + 1 /\ k.sent = j.sent /\ k.told = j.told
  /\ IF j.page = 0 THEN Meets(r, k) ELSE k.spoil = j.spoil
  /\ UNCHANGED mishaps

WritesCsv(r, j, k, d, e) ==
  /\ j.kind = "csv" /\ Pages(r, j, k) /\ k.rows = j.rows
  /\ e = AppendTo(d, r, IF j.page > 0 THEN PageOf(j.page) ELSE <<Header>> \o PageOf(j.page))

WritesXlsx(r, j, k, d, e) ==
  /\ j.kind = "xlsx" /\ Pages(r, j, k)
  /\ k.rows = j.rows \o PageOf(j.page)
  /\ LET file == IF j.page > 0 THEN d
                 ELSE IF d = NoFile THEN [rows |-> <<>>, old |-> FALSE, by |-> r]
                 ELSE [d EXCEPT !.rows = <<>>]
     IN /\ k.fd = IF j.page = 0 THEN file.by ELSE j.fd
        /\ e = IF j.page + 1 = j.pages /\ file # NoFile /\ file.by = k.fd
               THEN [file EXCEPT !.rows = k.rows] ELSE file

WritesStream(r, j, k, d, e) ==
  /\ j.st = "paging" /\ j.kind = "consolidated"
  /\ LET page == PageOf(j.page)
         atLimit == page # <<>> /\ j.count + Len(page) >= ReportLimit
         lines == (IF j.page = 0 /\ page # <<>> THEN <<Header>> ELSE <<>>)
                    \o page \o (IF atLimit THEN <<LimitLine>> ELSE <<>>)
     IN /\ k.st = IF page = <<>> \/ atLimit THEN "upload" ELSE "paging"
        /\ k.count = j.count + Len(page)
        /\ e = IF d # NoFile /\ d.by = j.fd THEN [d EXCEPT !.rows = @ \o lines] ELSE d
  /\ Carries(j, k) /\ k.page = j.page + 1 /\ k.fd = j.fd /\ k.spoil = j.spoil
  /\ k.rows = j.rows
  /\ k.sent = j.sent /\ k.told = j.told
  /\ UNCHANGED mishaps

Uploads(r, j, k, d, e) ==
  /\ j.st = "upload" /\ Same(j, k) /\ k.told = j.told
  /\ IF d # NoFile /\ (j.kind = "consolidated" \/ j.pages > 0)
     THEN k.st = "notify" /\ k.sent = IF j.spoil = {} THEN d.rows ELSE NoReport
     ELSE k.st = "cleanup" /\ k.sent = j.sent
  /\ UNCHANGED <<disk, mishaps>>

Tells(r, j, k) ==
  /\ j.st = "notify" /\ k.st = "cleanup" /\ k.told = TRUE
  /\ Same(j, k) /\ k.sent = j.sent
  /\ UNCHANGED <<disk, mishaps>>

Refused(r, j, k) ==
  /\ j.st \in {"upload", "notify"} /\ k.st = "cleanup"
  /\ Same(j, k) /\ k.sent = j.sent /\ k.told = j.told
  /\ disk' = disk /\ mishaps' = mishaps + 1

Removes(r, j, k, d, e) ==
  /\ j.st = "cleanup" /\ k.st = "done" /\ Ends(j, k)
  /\ e = IF HasFile(j) THEN NoFile ELSE d
  /\ UNCHANGED mishaps

\* The range is refused, a page fails, or the process stops.
Drops(r, j, k) ==
  /\ \/ j.st \in {"taken", "paging"} /\ k.st = "failed"
     \/ j.st \in Taken /\ k.st = "lost"
  /\ Ends(j, k) /\ disk' = disk /\ mishaps' \in {mishaps, mishaps + 1}

\* A step of the handler of r.
Turn(r) ==
  LET j == job[r]
      k == job'[r]
      d == disk[j.kind]
      e == disk'[j.kind]
  IN \/ Asks(r, j, k)                   \/ Counts(r, j, k)
     \/ Streams(r, j, k, d, e)          \/ WritesCsv(r, j, k, d, e)
     \/ WritesXlsx(r, j, k, d, e)       \/ WritesStream(r, j, k, d, e)
     \/ Uploads(r, j, k, d, e)          \/ Tells(r, j, k)
     \/ Refused(r, j, k)                \/ Removes(r, j, k, d, e)
     \/ Drops(r, j, k)

\* The other requests, when r moves: those that share its file may be marked.
Marked(j, k) ==
  Apart(j, k) /\ k.spoil = j.spoil \union {"shared"}

Others(r) ==
  /\ UNCHANGED listing
  /\ \A q \in Req \ {r} : \/ job'[q] = job[q]
                          \/ q \in Sharing(r) /\ Marked(job[q], job'[q])
  /\ \A k \in Kind \ {job[r].kind} : disk'[k] = disk[k]

LEMMA PutTurns ==
  ASSUME TInv, NEW r \in Req, NEW k, job' = [job EXCEPT ![r] = k], listing' = listing,
         \A c \in Kind \ {job[r].kind} : disk'[c] = disk[c]
  PROVE  job'[r] = k /\ Others(r)
BY DEF TInv, IInv, Others

\* The mark of a record with these fields.
LEMMA SpoilSet ==
  ASSUME NEW j, DOMAIN j = Fields, NEW S, NEW k, k = [j EXCEPT !.spoil = @ \union S]
  PROVE  /\ DOMAIN k = Fields /\ Apart(j, k) /\ k.spoil = j.spoil \union S /\ k.sheets = j.sheets
BY DEF Apart, Fields

LEMMA OpenTurns ==
  ASSUME TInv, NEW r \in Req, NEW k, DOMAIN k = Fields, job' = Opened(r, k), listing' = listing,
         \A c \in Kind \ {job[r].kind} : disk'[c] = disk[c]
  PROVE  /\ Apart(k, job'[r]) /\ job'[r].spoil = k.spoil \union SpoilOf(r)
         /\ \A q \in Sharing(r) : job'[q].spoil = job[q].spoil \union {"shared"}
         /\ Others(r)
<1>1. job'[r] = [k EXCEPT !.spoil = @ \union SpoilOf(r)]
  BY DEF Opened
<1>2. ASSUME NEW q \in Req \ {r}
      PROVE  \/ q \notin Sharing(r) /\ job'[q] = job[q]
             \/ /\ q \in Sharing(r) /\ Marked(job[q], job'[q])
  <2>1. DOMAIN job[q] = Fields
    BY DEF TInv, JobTyped, Shaped
  <2>2. CASE q \in Sharing(r)
    <3>1. job'[q] = [job[q] EXCEPT !.spoil = @ \union {"shared"}]
      BY <2>2 DEF Opened
    <3>2. QED
      BY <2>1, <2>2, <3>1, SpoilSet DEF Marked
  <2>3. CASE q \notin Sharing(r)
    BY <2>3 DEF Opened
  <2>4. QED
    BY <2>2, <2>3
<1>3. Sharing(r) \subseteq Req \ {r}
  BY DEF Sharing
<1>4. QED
  BY <1>1, <1>2, <1>3, SpoilSet DEF Others, Marked

\* The disk when only the file of one kind is written.
LEMMA DiskPut ==
  ASSUME TInv, NEW c \in Kind, NEW f, disk' = [disk EXCEPT ![c] = f]
  PROVE  disk'[c] = f /\ \A k \in Kind \ {c} : disk'[k] = disk[k]
BY DEF TInv

LEMMA AskTurns ==
  ASSUME TInv, NEW r \in Req, exportOrders(r) \/ Take(r)
  PROVE  Turn(r) /\ Others(r)
<1> DEFINE j == job[r]
<1>0. DOMAIN j = Fields
  BY DEF TInv, JobTyped, Shaped
<1>1. CASE exportOrders(r)
  <2>0. PICK long \in BOOLEAN :
          job' = [job EXCEPT ![r] = [j EXCEPT !.st = "queued", !.long = long]]
    BY <1>1 DEF exportOrders
  <2>1. PICK k : /\ k = [j EXCEPT !.st = "queued", !.long = long]
                 /\ job' = [job EXCEPT ![r] = k]
    BY <2>0
  <2>2. Same(j, k) /\ k.st = "queued" /\ k.sent = j.sent /\ k.told = j.told
    BY <1>0, <2>1 DEF Same, Carries, Fields
  <2>3. job'[r] = k /\ Others(r)
    BY <1>1, <2>1, PutTurns DEF exportOrders
  <2>4. QED
    BY <1>1, <2>2, <2>3 DEF exportOrders, Turn, Asks
<1>2. CASE Take(r)
  <2>1. PICK k : k = [j EXCEPT !.st = "taken"] /\ job' = [job EXCEPT ![r] = k]
    BY <1>2 DEF Take, TInv, IInv
  <2>2. Same(j, k) /\ k.st = "taken" /\ k.sent = j.sent /\ k.told = j.told
    BY <1>0, <2>1 DEF Same, Carries, Fields
  <2>3. job'[r] = k /\ Others(r)
    BY <1>2, <2>1, PutTurns DEF Take
  <2>4. QED
    BY <1>2, <2>2, <2>3 DEF Take, Turn, Asks
<1>3. QED
  BY <1>1, <1>2

LEMMA EndedIs ==
  ASSUME NEW j, DOMAIN j = Fields, NEW st
  PROVE  Ends(j, Ended(j, st)) /\ Ended(j, st).st = st
BY DEF Ends, Ended, Fields

LEMMA CountTurns ==
  ASSUME TInv, NEW r \in Req, BeginExport(r)
  PROVE  Turn(r) /\ Others(r)
<1> DEFINE j == job[r]
<1>0. DOMAIN j = Fields
  BY DEF TInv, JobTyped, Shaped
<1>1. CASE j.long
  <2>1. job' = [job EXCEPT ![r] = Ended(j, "failed")]
    BY <1>1 DEF BeginExport
  <2>2. job'[r] = Ended(j, "failed") /\ Others(r)
    BY <2>1, PutTurns DEF BeginExport
  <2>3. QED
    BY <1>0, <2>2, EndedIs DEF BeginExport, Turn, Drops
<1>2. CASE ~j.long
  <2>1. PICK n, st : n = PageCount(Len(listing)) /\ st = IF n = 0 THEN "upload" ELSE "paging"
    OBVIOUS
  <2>2. PICK k : /\ k = [j EXCEPT !.st = st, !.pages = n, !.snap = listing]
                 /\ job' = [job EXCEPT ![r] = k]
    BY <1>2, <2>1 DEF BeginExport
  <2>3. /\ k.st = st /\ k.pages = n /\ k.snap = listing
        /\ k.kind = j.kind /\ k.added = j.added /\ k.page = j.page /\ k.count = j.count
        /\ k.rows = j.rows /\ k.spoil = j.spoil /\ k.sent = j.sent /\ k.told = j.told
    BY <1>0, <2>2 DEF Fields
  <2>4. job'[r] = k /\ Others(r)
    BY <2>2, PutTurns DEF BeginExport
  <2>5. QED
    BY <2>1, <2>3, <2>4 DEF BeginExport, Turn, Counts
<1>3. QED
  BY <1>1, <1>2

LEMMA StreamTurns ==
  ASSUME TInv, NEW r \in Req, BeginConsolidated(r)
  PROVE  Turn(r) /\ Others(r)
<1> DEFINE j == job[r]
           d == disk["consolidated"]
           e == IF d = NoFile THEN [rows |-> <<>>, old |-> FALSE, by |-> r] ELSE d
<1>0. DOMAIN j = Fields /\ j.kind = "consolidated"
  BY DEF TInv, JobTyped, Shaped, BeginConsolidated
<1>1. PICK k : /\ k = [j EXCEPT !.st = "paging", !.snap = listing, !.fd = e.by]
               /\ job' = Opened(r, k)
  BY DEF BeginConsolidated
<1>2. /\ disk'["consolidated"] = e
      /\ \A c \in Kind \ {j.kind} : disk'[c] = disk[c]
  BY <1>0, DiskPut DEF BeginConsolidated, Kind
<1> HIDE DEF e
<1>3. /\ DOMAIN k = Fields
      /\ k.st = "paging" /\ k.snap = listing /\ k.fd = e.by
      /\ k.kind = j.kind /\ k.added = j.added /\ k.page = j.page /\ k.count = j.count
      /\ k.rows = j.rows /\ k.spoil = j.spoil /\ k.sent = j.sent /\ k.told = j.told
  BY <1>0, <1>1 DEF Fields
<1>4. /\ Apart(k, job'[r]) /\ job'[r].spoil = k.spoil \union SpoilOf(r) /\ Others(r)
      /\ \A q \in Sharing(r) : "shared" \in job'[q].spoil
  BY <1>1, <1>2, <1>3, OpenTurns DEF BeginConsolidated
<1>5. Streams(r, j, job'[r], d, e)
  BY <1>0, <1>3, <1>4 DEF Streams, Apart, Meets, BeginConsolidated, e
<1>6. QED
  BY <1>0, <1>2, <1>4, <1>5 DEF Turn

LEMMA CsvTurns ==
  ASSUME TInv, NEW r \in Req, CsvPage(r)
  PROVE  Turn(r) /\ Others(r)
<1> DEFINE j == job[r]
           d == disk["csv"]
           lines == IF j.page > 0 THEN PageOf(j.page) ELSE <<Header>> \o PageOf(j.page)
           e == AppendTo(d, r, lines)
<1>0. /\ DOMAIN j = Fields /\ j.kind = "csv" /\ j.st = "paging" /\ j.page \in Nat
      /\ listing' = listing /\ mishaps' = mishaps
  BY DEF TInv, JobTyped, Shaped, CsvPage
<1>1. disk' = [disk EXCEPT !["csv"] = e]
  BY DEF CsvPage, createCsvLocally
<1> HIDE DEF e
<1>2. disk'["csv"] = e /\ \A c \in Kind \ {j.kind} : disk'[c] = disk[c]
  BY <1>0, <1>1, DiskPut DEF Kind
<1>3. PICK st : st = IF j.page + 1 = j.pages THEN "upload" ELSE j.st
  OBVIOUS
<1>4. PICK k : /\ k = [j EXCEPT !.page = @ + 1, !.st = st]
               /\ job' = IF j.page = 0 THEN Opened(r, k) ELSE [job EXCEPT ![r] = k]
  BY <1>3 DEF CsvPage
<1>5. /\ DOMAIN k = Fields /\ k.st = st /\ Carries(j, k) /\ k.page = j.page + 1
      /\ k.sent = j.sent /\ k.told = j.told /\ k.spoil = j.spoil /\ k.rows = j.rows
  BY <1>0, <1>4 DEF Fields, Carries
<1>6. /\ Apart(k, job'[r]) /\ Others(r)
      /\ IF j.page = 0 THEN Meets(r, job'[r]) ELSE job'[r].spoil = j.spoil
  <2>1. CASE j.page = 0
    <3>1. job' = Opened(r, k)
      BY <1>4, <2>1
    <3>2. /\ Apart(k, job'[r]) /\ job'[r].spoil = k.spoil \union SpoilOf(r) /\ Others(r)
          /\ \A q \in Sharing(r) : "shared" \in job'[q].spoil
      BY <1>0, <1>2, <1>5, <3>1, OpenTurns
    <3>3. QED
      BY <1>5, <2>1, <3>2 DEF Meets
  <2>2. CASE j.page # 0
    BY <1>0, <1>2, <1>4, <1>5, <2>2, PutTurns DEF Apart
  <2>3. QED
    BY <2>1, <2>2
<1>7. Pages(r, j, job'[r])
  BY <1>0, <1>3, <1>5, <1>6 DEF Pages, Apart, Carries
<1>8. WritesCsv(r, j, job'[r], d, disk'[j.kind])
  BY <1>0, <1>2, <1>5, <1>6, <1>7 DEF WritesCsv, Apart, e
<1>9. QED
  BY <1>0, <1>6, <1>8 DEF Turn

LEMMA XlsxTurns ==
  ASSUME TInv, NEW r \in Req, XlsxPage(r)
  PROVE  Turn(r) /\ Others(r)
<1> DEFINE j == job[r]
           d == disk["xlsx"]
           last == j.page + 1 = j.pages
           file == IF j.page > 0 THEN d
                   ELSE IF d = NoFile THEN [rows |-> <<>>, old |-> FALSE, by |-> r]
                   ELSE [d EXCEPT !.rows = <<>>]
           fd == IF j.page = 0 THEN file.by ELSE j.fd
           rows == j.rows \o PageOf(j.page)
           e == IF last /\ file # NoFile /\ file.by = fd THEN [file EXCEPT !.rows = rows] ELSE file
<1>0. /\ DOMAIN j = Fields /\ j.kind = "xlsx" /\ j.st = "paging" /\ j.page \in Nat
      /\ listing' = listing /\ mishaps' = mishaps
  BY DEF TInv, JobTyped, Shaped, XlsxPage
<1>1. PICK sheets, count : createXlsxLocally(j, PageOf(j.page)) =
                             [j EXCEPT !.sheets = sheets, !.count = count, !.rows = rows]
  BY DEF createXlsxLocally
<1>2. PICK w : w = createXlsxLocally(j, PageOf(j.page))
  OBVIOUS
<1>3. /\ DOMAIN w = Fields /\ w.rows = rows /\ w.page = j.page /\ w.st = j.st
      /\ Carries(j, w) /\ w.sent = j.sent /\ w.told = j.told /\ w.spoil = j.spoil
  BY <1>0, <1>1, <1>2 DEF Fields, Carries
<1>4. disk' = [disk EXCEPT !["xlsx"] = e]
  BY <1>2, <1>3 DEF XlsxPage
<1>5. PICK st : st = IF last THEN "upload" ELSE w.st
  OBVIOUS
<1>6. PICK k : /\ k = [w EXCEPT !.page = @ + 1, !.fd = fd, !.st = st]
               /\ job' = IF j.page = 0 THEN Opened(r, k) ELSE [job EXCEPT ![r] = k]
  <2>1. job' = LET next == [createXlsxLocally(j, PageOf(j.page)) EXCEPT
                              !.page = @ + 1, !.fd = fd, !.st = IF last THEN "upload" ELSE @]
               IN IF j.page = 0 THEN Opened(r, next) ELSE [job EXCEPT ![r] = next]
    BY DEF XlsxPage
  <2> HIDE DEF fd, file, last
  <2>2. QED
    BY <1>2, <1>5, <2>1
<1> HIDE DEF e, fd, file, rows
<1>7. disk'["xlsx"] = e /\ \A c \in Kind \ {j.kind} : disk'[c] = disk[c]
  BY <1>0, <1>4, DiskPut DEF Kind
<1>8. /\ DOMAIN k = Fields /\ k.st = st /\ Carries(j, k) /\ k.page = j.page + 1
      /\ k.sent = j.sent /\ k.told = j.told /\ k.spoil = j.spoil
      /\ k.rows = rows /\ k.fd = fd
  BY <1>3, <1>6 DEF Fields, Carries
<1>9. /\ Apart(k, job'[r]) /\ Others(r)
      /\ IF j.page = 0 THEN Meets(r, job'[r]) ELSE job'[r].spoil = j.spoil
  <2>1. CASE j.page = 0
    <3>1. job' = Opened(r, k)
      BY <1>6, <2>1
    <3>2. /\ Apart(k, job'[r]) /\ job'[r].spoil = k.spoil \union SpoilOf(r) /\ Others(r)
          /\ \A q \in Sharing(r) : "shared" \in job'[q].spoil
      BY <1>0, <1>7, <1>8, <3>1, OpenTurns
    <3>3. QED
      BY <1>8, <2>1, <3>2 DEF Meets
  <2>2. CASE j.page # 0
    BY <1>0, <1>7, <1>6, <1>8, <2>2, PutTurns DEF Apart
  <2>3. QED
    BY <2>1, <2>2
<1>10. Pages(r, j, job'[r])
  BY <1>0, <1>3, <1>5, <1>8, <1>9 DEF Pages, Apart, Carries
<1>11. WritesXlsx(r, j, job'[r], d, disk'[j.kind])
  <2>1. job'[r].rows = rows /\ job'[r].fd = fd
    BY <1>8, <1>9 DEF Apart
  <2>2. QED
    BY <1>0, <1>7, <1>10, <2>1 DEF WritesXlsx, e, fd, file, rows
<1>12. QED
  BY <1>0, <1>9, <1>11 DEF Turn

LEMMA GetTurns ==
  ASSUME TInv, NEW r \in Req, getDataAsStream(r)
  PROVE  Turn(r) /\ Others(r)
<1> DEFINE j == job[r]
           d == disk["consolidated"]
           page == PageOf(j.page)
           atLimit == page # <<>> /\ j.count + Len(page) >= ReportLimit
           lines == (IF j.page = 0 /\ page # <<>> THEN <<Header>> ELSE <<>>)
                      \o page \o (IF atLimit THEN <<LimitLine>> ELSE <<>>)
           e == IF d # NoFile /\ d.by = j.fd THEN [d EXCEPT !.rows = @ \o lines] ELSE d
<1>0. /\ DOMAIN j = Fields /\ j.kind = "consolidated" /\ j.st = "paging" /\ j.page \in Nat
      /\ listing' = listing /\ mishaps' = mishaps
  BY DEF TInv, JobTyped, Shaped, getDataAsStream
<1>1. disk' = IF d # NoFile /\ d.by = j.fd
              THEN [disk EXCEPT !["consolidated"].rows = @ \o lines] ELSE disk
  BY DEF getDataAsStream
<1>2. PICK st : st = IF page = <<>> \/ atLimit THEN "upload" ELSE j.st
  OBVIOUS
<1>3. PICK n : n = j.count + Len(page)
  OBVIOUS
<1>4. PICK k : /\ k = [j EXCEPT !.page = @ + 1, !.count = n, !.st = st]
               /\ job' = [job EXCEPT ![r] = k]
  BY <1>2, <1>3 DEF getDataAsStream
<1> HIDE DEF lines, atLimit, page
<1>5. disk'["consolidated"] = e /\ \A c \in Kind \ {j.kind} : disk'[c] = disk[c]
  BY <1>0, <1>1 DEF TInv, Kind
<1>6. /\ k.st = st /\ Carries(j, k) /\ k.page = j.page + 1 /\ k.count = n
      /\ k.sent = j.sent /\ k.told = j.told /\ k.spoil = j.spoil /\ k.fd = j.fd
      /\ k.rows = j.rows
  BY <1>0, <1>4 DEF Fields, Carries
<1>7. job'[r] = k /\ Others(r)
  BY <1>0, <1>4, <1>5, PutTurns
<1>8. WritesStream(r, j, job'[r], d, disk'[j.kind])
  BY <1>0, <1>2, <1>3, <1>5, <1>6, <1>7 DEF WritesStream, page, atLimit, lines
<1>9. QED
  BY <1>0, <1>7, <1>8 DEF Turn

LEMMA EndTurns ==
  ASSUME TInv, NEW r \in Req,
         uploadFile(r) \/ Notify(r) \/ deleteFileLocally(r) \/ PageFails(r) \/ DeliveryFails(r)
  PROVE  Turn(r) /\ Others(r)
<1> DEFINE j == job[r]
           d == disk[j.kind]
<1>0. DOMAIN j = Fields /\ j.kind \in Kind
  BY DEF TInv, JobTyped, Shaped
<1>1. CASE uploadFile(r)
  <2>0. disk' = disk /\ mishaps' = mishaps /\ listing' = listing /\ j.st = "upload"
    BY <1>1 DEF uploadFile
  <2>1. CASE d # NoFile /\ (j.kind = "consolidated" \/ j.pages > 0)
    <3>1. PICK s : s = IF j.spoil = {} THEN d.rows ELSE NoReport
      OBVIOUS
    <3>2. PICK k : k = [j EXCEPT !.st = "notify", !.sent = s] /\ job' = [job EXCEPT ![r] = k]
      BY <1>1, <2>1, <3>1 DEF uploadFile
    <3>3. Same(j, k) /\ k.st = "notify" /\ k.sent = s /\ k.told = j.told
      BY <1>0, <3>2 DEF Same, Carries, Fields
    <3>4. job'[r] = k /\ Others(r)
      BY <2>0, <3>2, PutTurns
    <3>5. QED
      BY <2>0, <2>1, <3>1, <3>3, <3>4 DEF Turn, Uploads
  <2>2. CASE ~(d # NoFile /\ (j.kind = "consolidated" \/ j.pages > 0))
    <3>1. PICK k : k = [j EXCEPT !.st = "cleanup"] /\ job' = [job EXCEPT ![r] = k]
      BY <1>1, <2>2 DEF uploadFile
    <3>2. Same(j, k) /\ k.st = "cleanup" /\ k.sent = j.sent /\ k.told = j.told
      BY <1>0, <3>1 DEF Same, Carries, Fields
    <3>3. job'[r] = k /\ Others(r)
      BY <2>0, <3>1, PutTurns
    <3>4. QED
      BY <2>0, <2>2, <3>2, <3>3 DEF Turn, Uploads
  <2>3. QED
    BY <2>1, <2>2
<1>2. CASE Notify(r)
  <2>1. PICK k : k = [j EXCEPT !.st = "cleanup", !.told = TRUE] /\ job' = [job EXCEPT ![r] = k]
    BY <1>2 DEF Notify
  <2>2. Same(j, k) /\ k.st = "cleanup" /\ k.sent = j.sent /\ k.told = TRUE
    BY <1>0, <2>1 DEF Same, Carries, Fields
  <2>3. job'[r] = k /\ Others(r)
    BY <1>2, <2>1, PutTurns DEF Notify
  <2>4. QED
    BY <1>2, <2>2, <2>3 DEF Notify, Turn, Tells
<1>3. CASE deleteFileLocally(r)
  <2>1. job' = [job EXCEPT ![r] = Ended(j, "done")] /\ listing' = listing
    BY <1>3 DEF deleteFileLocally
  <2>2. /\ disk'[j.kind] = IF HasFile(j) THEN NoFile ELSE d
        /\ \A c \in Kind \ {j.kind} : disk'[c] = disk[c]
    BY <1>0, <1>3, DiskPut DEF deleteFileLocally
  <2>3. job'[r] = Ended(j, "done") /\ Others(r)
    BY <2>1, <2>2, PutTurns
  <2>4. QED
    BY <1>0, <1>3, <2>2, <2>3, EndedIs DEF deleteFileLocally, Turn, Removes
<1>4. CASE PageFails(r)
  <2>1. job' = [job EXCEPT ![r] = Ended(j, "failed")] /\ listing' = listing
    BY <1>4 DEF PageFails
  <2>2. job'[r] = Ended(j, "failed") /\ Others(r)
    BY <1>4, <2>1, PutTurns DEF PageFails
  <2>3. QED
    BY <1>0, <1>4, <2>2, EndedIs DEF PageFails, Turn, Drops
<1>5. CASE DeliveryFails(r)
  <2>1. PICK k : k = [j EXCEPT !.st = "cleanup"] /\ job' = [job EXCEPT ![r] = k]
    BY <1>5 DEF DeliveryFails, TInv, IInv
  <2>2. Same(j, k) /\ k.st = "cleanup" /\ k.sent = j.sent /\ k.told = j.told
    BY <1>0, <2>1 DEF Same, Carries, Fields
  <2>3. job'[r] = k /\ Others(r)
    BY <1>5, <2>1, PutTurns DEF DeliveryFails
  <2>4. QED
    BY <1>5, <2>2, <2>3 DEF DeliveryFails, Turn, Refused
<1>6. QED
  BY <1>1, <1>2, <1>3, <1>4, <1>5


--------------------------------------------------------------------------------
\* How one request sees a step

SameFile(d, e) ==
  \/ d = NoFile /\ e = NoFile
  \/ d # NoFile /\ e # NoFile /\ e.rows = d.rows /\ e.by = d.by

\* k is j, but for the orders inserted.
ApartFromInserts(j, k) ==
  /\ k.st = j.st /\ k.kind = j.kind /\ k.page = j.page /\ k.pages = j.pages
  /\ k.count = j.count /\ k.rows = j.rows /\ k.fd = j.fd /\ k.snap = j.snap
  /\ k.spoil = j.spoil /\ k.sent = j.sent /\ k.told = j.told

\* Two handlers that have one file have been marked.
Exclusive ==
  \A q, r \in Req :
    q # r /\ job[q].kind = job[r].kind /\ HasFile(job[q]) /\ HasFile(job[r])
      => "shared" \in job[q].spoil

\* A step that is not one of q: its file stays, or q is marked.
Frame(q) ==
  /\ Apart(job[q], job'[q])
  /\ \/ SameFile(disk[job[q].kind], disk'[job[q].kind])
     \/ job'[q].spoil \intersect Kept # {}
     \/ ~HasFile(job[q])

\* An order is stored.
Stored(o) ==
  /\ o \in Order \ Range(listing)
  /\ \E i \in 1 .. Len(listing) + 1 : listing' = InsertAt(listing, i, o)
  /\ disk' = disk /\ mishaps' = mishaps
  /\ \A q \in Req :
       /\ ApartFromInserts(job[q], job'[q])
       /\ job'[q].added = IF job[q].st = "paging" THEN job[q].added + 1 ELSE job[q].added

\* The process stops: the handlers at work end.
Stopped ==
  /\ listing' = listing /\ disk' = disk /\ mishaps' = mishaps + 1
  /\ \A q \in Req : \/ job'[q] = job[q] /\ job[q].st \notin Taken
                    \/ Drops(q, job[q], job'[q])

\* A day passes, the sweep goes on, or nothing happens.
Swept ==
  /\ listing' = listing /\ mishaps' = mishaps
  /\ \A c \in Kind : disk'[c] # NoFile => SameFile(disk[c], disk'[c])
  /\ \A q \in Req : Apart(job[q], job'[q]) /\ Frame(q)

LEMMA SameIsApart ==
  ASSUME NEW j
  PROVE  Apart(j, j)
BY DEF Apart

LEMMA StopIs ==
  ASSUME TInv, Crash
  PROVE  Stopped
<1>1. ASSUME NEW q \in Req
      PROVE  \/ job'[q] = job[q] /\ job[q].st \notin Taken
             \/ Drops(q, job[q], job'[q])
  <2>1. DOMAIN job[q] = Fields
    BY DEF TInv, JobTyped, Shaped
  <2>2. CASE job[q].st \in Taken
    <3>1. job'[q] = Ended(job[q], "lost")
      BY <2>2 DEF Crash, Taken
    <3>2. QED
      BY <2>1, <2>2, <3>1, EndedIs DEF Drops, Crash
  <2>3. CASE job[q].st \notin Taken
    BY <2>3 DEF Crash, Taken
  <2>4. QED
    BY <2>2, <2>3
<1>2. QED
  BY <1>1 DEF Stopped, Crash

LEMMA StoredIs ==
  ASSUME TInv, NEW o \in Late, InsertOrder(o)
  PROVE  Stored(o)
<1>1. ASSUME NEW q \in Req
      PROVE  /\ ApartFromInserts(job[q], job'[q])
             /\ job'[q].added = IF job[q].st = "paging" THEN job[q].added + 1 ELSE job[q].added
  <2>1. DOMAIN job[q] = Fields
    BY DEF TInv, JobTyped, Shaped
  <2>2. CASE job[q].st = "paging"
    <3>1. job'[q] = [job[q] EXCEPT !.added = @ + 1]
      BY <2>2 DEF InsertOrder
    <3>2. QED
      BY <2>1, <2>2, <3>1 DEF ApartFromInserts, Fields
  <2>3. CASE job[q].st # "paging"
    BY <2>3 DEF InsertOrder, ApartFromInserts
  <2>4. QED
    BY <2>2, <2>3
<1>2. QED
  BY <1>1, InputAssumption DEF Stored, InsertOrder, InputAssumption

LEMMA SweepIs ==
  ASSUME TInv, Day \/ clearTmpFolder \/ UNCHANGED vars
  PROVE  Swept
<1>0. \A q \in Req : job[q].kind \in Kind /\ DOMAIN job[q] = Fields
  BY DEF TInv, JobTyped, Shaped
<1>1. CASE UNCHANGED <<listing, job, disk, mishaps>>
  BY <1>1, SameIsApart DEF Swept, Frame, SameFile
<1>2. CASE Day
  <2>1. ASSUME NEW c \in Kind
        PROVE  SameFile(disk[c], disk'[c])
    <3>1. disk'[c] = IF disk[c] = NoFile THEN NoFile ELSE [disk[c] EXCEPT !.old = TRUE]
      BY <1>2 DEF Day
    <3>2. CASE disk[c] # NoFile
      <4>1. disk[c] \in File
        BY <3>2 DEF TInv
      <4>2. PICK f \in File : f = disk[c]
        BY <4>1
      <4>3. [f EXCEPT !.old = TRUE] \in File
        BY DEF File
      <4>4. [f EXCEPT !.old = TRUE].rows = f.rows /\ [f EXCEPT !.old = TRUE].by = f.by
        BY DEF File
      <4>5. QED
        BY <3>1, <3>2, <4>2, <4>3, <4>4, FileAssumption DEF SameFile
    <3>3. QED
      BY <3>1, <3>2 DEF SameFile
  <2>2. QED
    BY <1>0, <1>2, <2>1, SameIsApart DEF Day, Swept, Frame
<1>3. CASE SweepUnlink
  <2>0. listing' = listing /\ mishaps' = mishaps
    BY <1>3 DEF SweepUnlink
  <2>1. \A c \in Kind : disk'[c] = disk[c] \/ (c = sweep.at /\ disk'[c] = NoFile)
    BY <1>3 DEF SweepUnlink, TInv
  <2>2. ASSUME NEW q \in Req
        PROVE  Apart(job[q], job'[q]) /\ Frame(q)
    <3>1. CASE disk[sweep.at] # NoFile /\ job[q].kind = sweep.at /\ HasFile(job[q])
      <4>1. job'[q] = [job[q] EXCEPT !.spoil = @ \union {"swept"}]
        BY <1>3, <3>1 DEF SweepUnlink
      <4>2. Apart(job[q], job'[q]) /\ "swept" \in job'[q].spoil
        BY <1>0, <4>1, SpoilSet
      <4>3. QED
        BY <4>2 DEF Frame, Kept
    <3>2. CASE ~(disk[sweep.at] # NoFile /\ job[q].kind = sweep.at /\ HasFile(job[q]))
      <4>1. job'[q] = job[q]
        BY <1>3, <3>2 DEF SweepUnlink
      <4>2. SameFile(disk[job[q].kind], disk'[job[q].kind]) \/ ~HasFile(job[q])
        BY <1>0, <2>1, <3>2 DEF SameFile
      <4>3. QED
        BY <4>1, <4>2, SameIsApart DEF Frame
    <3>3. QED
      BY <3>1, <3>2
  <2>3. QED
    BY <2>0, <2>1, <2>2 DEF Swept, SameFile
<1>4. QED
  BY <1>1, <1>2, <1>3 DEF clearTmpFolder, SweepStart, SweepStat, vars

LEMMA StepKinds ==
  ASSUME TInv, [Next]_vars
  PROVE  \/ \E r \in Req : Turn(r) /\ Others(r)
         \/ \E o \in Late : Stored(o)
         \/ Stopped
         \/ Swept
<1>1. ASSUME NEW r \in Req, Work(r) \/ exportOrders(r) \/ PageFails(r) \/ DeliveryFails(r)
      PROVE  Turn(r) /\ Others(r)
  BY <1>1, AskTurns, CountTurns, StreamTurns, CsvTurns, XlsxTurns, GetTurns, EndTurns DEF Work
<1>2. CASE Next
  BY <1>1, <1>2, StoredIs, StopIs, SweepIs DEF Next
<1>3. CASE UNCHANGED vars
  BY <1>3, SweepIs
<1>4. QED
  BY <1>2, <1>3

\* What another handler does leaves q alone, or marks it.
LEMMA Foreign ==
  ASSUME TInv, Exclusive, NEW r \in Req, NEW q \in Req \ {r}, Turn(r), Others(r)
  PROVE  Frame(q)
<1> DEFINE d == disk[job[q].kind]
           e == disk'[job[q].kind]
<1>1. Apart(job[q], job'[q])
  BY SameIsApart DEF Others, Marked
<1>2. job[q].kind \in Kind
  BY DEF TInv, JobTyped
<1>3. CASE job[q].kind # job[r].kind
  BY <1>1, <1>2, <1>3 DEF Frame, SameFile, Others
<1>4. CASE disk' = disk
  BY <1>1, <1>4 DEF Frame, SameFile
<1>5. ASSUME job[q].kind = job[r].kind, HasFile(job[q]), disk' # disk
      PROVE  SameFile(d, e) \/ job'[q].spoil \intersect Kept # {}
  <2>1. q \in Sharing(r)
    BY <1>5 DEF Sharing
  <2>2. CASE HasFile(job[r])
    <3>1. "shared" \in job[q].spoil
      BY <1>5, <2>2 DEF Exclusive
    <3>2. QED
      BY <1>1, <3>1 DEF Apart, Kept
  <2>3. CASE Meets(r, job'[r])
    BY <2>1, <2>3 DEF Meets, Kept
  <2>4. Meets(r, job'[r]) \/ HasFile(job[r]) \/ e = d
    <3>1. job[r].page \in Nat
      BY DEF TInv, JobTyped, Shaped
    <3> DEFINE j == job[r]
               k == job'[r]
    <3>2. CASE WritesCsv(r, j, k, d, e) \/ WritesXlsx(r, j, k, d, e)
      <4>1. Pages(r, j, k)
        BY <3>2 DEF WritesCsv, WritesXlsx
      <4>2. QED
        BY <3>1, <4>1 DEF Pages, HasFile
    <3>3. CASE Streams(r, j, k, d, e)
      BY <1>5, <3>3 DEF Streams
    <3>4. CASE WritesStream(r, j, k, d, e)
      BY <1>5, <3>4 DEF WritesStream, HasFile
    <3>5. CASE Removes(r, j, k, d, e)
      BY <1>5, <3>5 DEF Removes
    <3>6. CASE \/ Asks(r, j, k) \/ Counts(r, j, k) \/ Uploads(r, j, k, d, e)
               \/ Tells(r, j, k) \/ Refused(r, j, k) \/ Drops(r, j, k)
      BY <1>5, <3>6 DEF Asks, Counts, Uploads, Tells, Refused, Drops
    <3>7. QED
      BY <1>5, <3>2, <3>3, <3>4, <3>5, <3>6 DEF Turn
  <2>5. QED
    BY <2>2, <2>3, <2>4 DEF SameFile
<1>6. QED
  BY <1>1, <1>3, <1>4, <1>5 DEF Frame

--------------------------------------------------------------------------------
\* What is true of one request all along

Open == {"paging", "upload", "notify", "cleanup"}

\* The first n of s, or all of it.
Upto(s, n) == SubSeq(s, 1, IF n <= Len(s) THEN n ELSE Len(s))

\* How far a handler is.
PhaseOK(j) ==
  /\ j.st \in Waiting => j.added = 0 /\ j.rows = <<>>
  /\ j.st = "paging" /\ j.page = 0 => j.count = 0 /\ j.rows = <<>>
  /\ j.kind # "consolidated" /\ j.st \in Open =>
       /\ j.pages = PageCount(Len(j.snap))
       /\ IF j.st = "paging" THEN j.page < j.pages ELSE j.page = j.pages

\* A handler whose file nobody touched still has it.
OwnedOK(j, d) ==
  HasFile(j) /\ j.spoil \intersect Kept = {} =>
    d # NoFile /\ (j.kind # "csv" => d.by = j.fd)

\* The workbook of an xlsx is in its file when its pages are over.
CommittedOK(j, d) ==
  j.kind = "xlsx" /\ j.st \in Open \ {"paging"} /\ HasFile(j) /\ j.spoil = {} => d.rows = j.rows

\* Why a user is told nothing.
Excused(j, m) == m > 0 \/ j.snap = <<>> \/ j.spoil \intersect Kept # {}

SilentOK(j, m) == j.st \in {"cleanup", "done"} /\ ~j.told => Excused(j, m)

\* The listing while pages are read.
ListedOK(j, l) ==
  j.st = "paging" =>
    /\ Len(l) = Len(j.snap) + j.added
    /\ Range(j.snap) \subseteq Range(l)
    /\ j.added = 0 => l = j.snap

\* What was written, if nothing was inserted.
ExactOK(j, d) ==
  j.st \in Open /\ j.spoil = {} /\ j.added = 0 =>
    /\ j.kind = "csv" /\ j.page > 0 => d.rows = <<Header>> \o Upto(j.snap, j.page * Chunk)
    /\ j.kind = "xlsx" => j.rows = Upto(j.snap, j.page * Chunk)
    /\ j.kind = "consolidated" =>
         IF j.st = "paging"
         THEN /\ j.count = Len(Upto(j.snap, j.page * Chunk)) /\ j.count < ReportLimit
              /\ d.rows = (IF j.page = 0 THEN <<>> ELSE <<Header>>) \o Upto(j.snap, j.page * Chunk)
              /\ j.page > 0 => j.snap # <<>>
         ELSE d.rows = Consolidated(j.snap)

\* The rows a handler has written.
Written(j, d) == IF j.kind = "xlsx" THEN j.rows ELSE d.rows

Missing(snap, rows) == Range(snap) \ Range(rows)

\* What was written, even if orders were inserted.
CoveredOK(j, d, l) ==
  j.kind # "consolidated" /\ j.st \in Open /\ j.spoil = {} /\ j.page > 0 =>
    IF j.st = "paging"
    THEN \A i \in 1 .. Len(l) :
           i <= j.page * Chunk /\ l[i] \in Range(j.snap) => l[i] \in Range(Written(j, d))
    ELSE Cardinality(Missing(j.snap, Written(j, d))) <= j.added

SentExact(j) == j.sent # NoReport /\ j.spoil = {} /\ j.added = 0 => j.sent = Expected(j)

SentCovers(j) ==
  j.sent # NoReport /\ j.spoil = {} /\ j.kind # "consolidated"
    => Cardinality(Missing(j.snap, j.sent)) <= j.added

\* After the upload nothing is added to a report.
SentStays(j) == j.sent # NoReport => j.st \notin Waiting \union {"paging", "upload"}

RequestOK(j, d, l, m) ==
  /\ PhaseOK(j) /\ OwnedOK(j, d) /\ CommittedOK(j, d) /\ SilentOK(j, m) /\ ListedOK(j, l)
  /\ ExactOK(j, d) /\ CoveredOK(j, d, l)
  /\ SentExact(j) /\ SentCovers(j) /\ SentStays(j)

RInv ==
  /\ TInv /\ Exclusive
  /\ \A r \in Req : RequestOK(job[r], disk[job[r].kind], listing, mishaps)

--------------------------------------------------------------------------------
\* Types

LEMMA LinesOfOrders ==
  ASSUME NEW s \in Seq(Order)
  PROVE  s \in Seq(Line) /\ <<Header>> \in Seq(Line) /\ <<LimitLine>> \in Seq(Line)
<1>1. Order \subseteq Line /\ Header \in Line /\ LimitLine \in Line
  BY DEF Line
<1>2. s \in [1 .. Len(s) -> Line] /\ Len(s) \in Nat
  BY <1>1
<1>3. s \in Seq(Line)
  BY <1>2
<1>4. QED
  BY <1>1, <1>3

LEMMA FileOf ==
  ASSUME NEW f \in File, NEW rows \in Seq(Line)
  PROVE  /\ f # NoFile /\ f.rows \in Seq(Line)
         /\ [f EXCEPT !.rows = rows] \in File /\ [f EXCEPT !.rows = rows] # NoFile
         /\ [f EXCEPT !.rows = rows].rows = rows /\ [f EXCEPT !.rows = rows].by = f.by
BY FileAssumption DEF FileAssumption, File

LEMMA NewFile ==
  ASSUME NEW rows \in Seq(Line), NEW r \in Req
  PROVE  /\ [rows |-> rows, old |-> FALSE, by |-> r] \in File
         /\ [rows |-> rows, old |-> FALSE, by |-> r] # NoFile
<1>1. PICK S : S = Seq(Line) /\ rows \in S
  OBVIOUS
<1>2. [rows |-> rows, old |-> FALSE, by |-> r] \in [rows : S, old : BOOLEAN, by : Req]
  BY <1>1
<1>3. QED
  BY <1>1, <1>2, FileAssumption DEF FileAssumption, File

LEMMA AppendIs ==
  ASSUME NEW d \in File \union {NoFile}, NEW r \in Req, NEW lines \in Seq(Line)
  PROVE  /\ AppendTo(d, r, lines) \in File /\ AppendTo(d, r, lines) # NoFile
         /\ AppendTo(d, r, lines).rows = IF d = NoFile THEN lines ELSE d.rows \o lines
<1>1. CASE d = NoFile
  <2>1. AppendTo(d, r, lines) = [rows |-> lines, old |-> FALSE, by |-> r]
    BY <1>1 DEF AppendTo
  <2>2. QED
    BY <1>1, <2>1, NewFile
<1>2. CASE d # NoFile
  <2>1. PICK f \in File : f = d
    BY <1>2
  <2>2. f.rows \in Seq(Line)
    BY DEF File
  <2>3. PICK rows \in Seq(Line) : rows = f.rows \o lines
    BY <2>2, ConcatProperties
  <2>4. PICK g : g = [f EXCEPT !.rows = rows]
    OBVIOUS
  <2>5. g \in File /\ g # NoFile /\ g.rows = rows
    BY <2>4, FileOf
  <2>6. AppendTo(d, r, lines) = g
    BY <1>2, <2>1, <2>3, <2>4 DEF AppendTo
  <2>7. QED
    BY <1>2, <2>1, <2>3, <2>5, <2>6
<1>3. QED
  BY <1>1, <1>2

\* The file of an xlsx: cut to nothing by the first page, filled by the last.
XlsxFile(r, j, d) ==
  IF j.page > 0 THEN d
  ELSE IF d = NoFile THEN [rows |-> <<>>, old |-> FALSE, by |-> r]
  ELSE [d EXCEPT !.rows = <<>>]

LEMMA XlsxFileIs ==
  ASSUME NEW r \in Req, NEW j, NEW d \in File \union {NoFile}
  PROVE  /\ XlsxFile(r, j, d) \in File \union {NoFile}
         /\ ~(j.page > 0) => XlsxFile(r, j, d) # NoFile
         /\ j.page > 0 => XlsxFile(r, j, d) = d
<1>1. CASE j.page > 0
  BY <1>1 DEF XlsxFile
<1>2. CASE ~(j.page > 0) /\ d = NoFile
  <2>1. XlsxFile(r, j, d) = [rows |-> <<>>, old |-> FALSE, by |-> r]
    BY <1>2 DEF XlsxFile
  <2>2. <<>> \in Seq(Line)
    OBVIOUS
  <2>3. QED
    BY <1>2, <2>1, <2>2, NewFile
<1>3. CASE ~(j.page > 0) /\ d # NoFile
  <2>1. XlsxFile(r, j, d) = [d EXCEPT !.rows = <<>>] /\ d \in File
    BY <1>3 DEF XlsxFile
  <2>2. <<>> \in Seq(Line)
    OBVIOUS
  <2>3. QED
    BY <1>3, <2>1, <2>2, FileOf
<1>4. QED
  BY <1>1, <1>2, <1>3

LEMMA XlsxWritten ==
  ASSUME NEW r \in Req, NEW j, NEW k, k.rows \in Seq(Order),
         NEW d \in File \union {NoFile}, NEW e, WritesXlsx(r, j, k, d, e)
  PROVE  e \in File \union {NoFile}
<1>1. PICK file \in File \union {NoFile} : file = XlsxFile(r, j, d)
  BY XlsxFileIs
<1>2. e = IF j.page + 1 = j.pages /\ file # NoFile /\ file.by = k.fd
          THEN [file EXCEPT !.rows = k.rows] ELSE file
  BY <1>1 DEF WritesXlsx, XlsxFile
<1>3. k.rows \in Seq(Line)
  BY LinesOfOrders
<1>4. QED
  BY <1>1, <1>2, <1>3, FileOf

\* The lines that one round of getDataAsStream yields.
LinesOf(j, page) ==
  (IF j.page = 0 /\ page # <<>> THEN <<Header>> ELSE <<>>)
    \o page \o (IF page # <<>> /\ j.count + Len(page) >= ReportLimit THEN <<LimitLine>> ELSE <<>>)

LEMMA StreamWritten ==
  ASSUME TInv, NEW r \in Req,
         WritesStream(r, job[r], job'[r], disk[job[r].kind], disk'[job[r].kind])
  PROVE  LET j == job[r]
             d == disk[j.kind]
             e == disk'[j.kind]
         IN /\ e \in File \union {NoFile}
            /\ e = NoFile <=> d = NoFile
            /\ e # NoFile => e.by = d.by
            /\ d # NoFile /\ d.by = j.fd => e.rows = d.rows \o LinesOf(j, PageOf(j.page))
<1> DEFINE j == job[r]
           d == disk[j.kind]
           e == disk'[j.kind]
<1>0. j.page \in Nat /\ d \in File \union {NoFile}
  BY DEF TInv, JobTyped, Shaped
<1>1. PICK page \in Seq(Order) : page = PageOf(j.page)
  BY <1>0, PageLength DEF TInv, IInv
<1>2. PICK lines : lines = LinesOf(j, page)
  OBVIOUS
<1>3. lines \in Seq(Line)
  <2>1. page \in Seq(Line) /\ <<Header>> \in Seq(Line) /\ <<LimitLine>> \in Seq(Line)
        /\ <<>> \in Seq(Line)
    BY LinesOfOrders
  <2>2. QED
    BY <1>2, <2>1 DEF LinesOf
<1>4. e = IF d # NoFile /\ d.by = j.fd THEN [d EXCEPT !.rows = @ \o lines] ELSE d
  BY <1>1, <1>2 DEF WritesStream, LinesOf
<1>5. CASE d # NoFile /\ d.by = j.fd
  <2>1. PICK f \in File : f = d
    BY <1>0, <1>5
  <2>2. f.rows \in Seq(Line)
    BY DEF File
  <2>3. PICK rows \in Seq(Line) : rows = f.rows \o lines
    BY <1>3, <2>2, ConcatProperties
  <2>4. PICK g : g = [f EXCEPT !.rows = rows]
    OBVIOUS
  <2>5. g \in File /\ g # NoFile /\ g.rows = rows /\ g.by = f.by
    BY <2>4, FileOf
  <2>6. e = g
    BY <1>4, <1>5, <2>1, <2>3, <2>4
  <2>7. QED
    BY <1>1, <1>2, <1>5, <2>1, <2>3, <2>5, <2>6
<1>6. CASE ~(d # NoFile /\ d.by = j.fd)
  BY <1>0, <1>4, <1>6
<1>7. QED
  BY <1>5, <1>6

LEMMA TypedTurn ==
  ASSUME TInv, NEW r \in Req, Turn(r), Shaped(job'[r])
  PROVE  JobTyped(job'[r]) /\ disk'[job[r].kind] \in File \union {NoFile} /\ mishaps' \in Nat
<1> DEFINE j == job[r]
           k == job'[r]
           d == disk[j.kind]
           e == disk'[j.kind]
<1>0. JobTyped(j) /\ j.page \in Nat /\ j.pages \in Nat /\ d \in File \union {NoFile} /\ mishaps \in Nat
      /\ mishaps + 1 \in Nat /\ listing \in Seq(Order)
  BY DEF TInv, IInv, JobTyped, Shaped
<1>1. PICK page \in Seq(Order) : page = PageOf(j.page)
  BY <1>0, PageLength
<1>2. CASE WritesCsv(r, j, k, d, e)
  <2>1. JobTyped(k) /\ mishaps' \in Nat
    <3>1. k.st \in State
      BY <1>2 DEF WritesCsv, Pages, State
    <3>2. k.rows \in Seq(Order)
      BY <1>0, <1>2 DEF WritesCsv, JobTyped
    <3>3. QED
      BY <1>0, <1>2, <3>1, <3>2 DEF JobTyped, WritesCsv, Pages, Carries
  <2>2. PICK lines : lines = IF j.page > 0 THEN page ELSE <<Header>> \o page
    OBVIOUS
  <2>3. lines \in Seq(Line)
    <3>1. page \in Seq(Line) /\ <<Header>> \in Seq(Line)
      BY LinesOfOrders
    <3>2. QED
      BY <2>2, <3>1
  <2>4. e = AppendTo(d, r, lines)
    BY <1>1, <1>2, <2>2 DEF WritesCsv
  <2>5. QED
    BY <1>0, <2>1, <2>3, <2>4, AppendIs
<1>3. CASE WritesXlsx(r, j, k, d, e)
  <2>1. k.rows \in Seq(Order)
    BY <1>0, <1>1, <1>3 DEF WritesXlsx, JobTyped
  <2>2. JobTyped(k) /\ mishaps' \in Nat
    <3>1. k.st \in State
      BY <1>3 DEF WritesXlsx, Pages, State
    <3>2. QED
      BY <1>0, <1>3, <2>1, <3>1 DEF JobTyped, WritesXlsx, Pages, Carries
  <2>3. QED
    BY <1>0, <1>3, <2>1, <2>2, XlsxWritten
<1>4. CASE WritesStream(r, j, k, d, e)
  <2>1. k.st \in State
    BY <1>4 DEF WritesStream, State
  <2>2. k.rows = j.rows
    BY <1>4 DEF WritesStream
  <2>3. JobTyped(k) /\ mishaps' \in Nat
    BY <1>0, <1>4, <2>1, <2>2 DEF JobTyped, WritesStream, Carries
  <2>4. QED
    BY <1>0, <1>4, <2>3, StreamWritten
<1>5. CASE Streams(r, j, k, d, e)
  <2>1. JobTyped(k) /\ mishaps' \in Nat
    BY <1>0, <1>5 DEF JobTyped, Streams, State
  <2>2. e = IF d = NoFile THEN [rows |-> <<>>, old |-> FALSE, by |-> r] ELSE d
    BY <1>5 DEF Streams
  <2>3. <<>> \in Seq(Line)
    OBVIOUS
  <2>4. QED
    BY <1>0, <2>1, <2>2, <2>3, NewFile
<1>6. CASE \/ Asks(r, j, k) \/ Counts(r, j, k) \/ Tells(r, j, k) \/ Refused(r, j, k)
           \/ Uploads(r, j, k, d, e)
  BY <1>0, <1>6 DEF JobTyped, Asks, Counts, Uploads, Tells, Refused, Same, Carries, State
<1>7. CASE Removes(r, j, k, d, e) \/ Drops(r, j, k)
  <2>1. <<>> \in Seq(Order)
    OBVIOUS
  <2>2. QED
    BY <1>0, <1>7, <2>1 DEF JobTyped, Removes, Drops, Ends, State
<1>8. QED
  BY <1>2, <1>3, <1>4, <1>5, <1>6, <1>7 DEF Turn

LEMMA DiskShape ==
  ASSUME TInv, [Next]_vars
  PROVE  disk' = [c \in Kind |-> disk'[c]]
<1>0. disk = [c \in Kind |-> disk[c]]
  BY DEF TInv
<1>1. ASSUME NEW r \in Req, Work(r)
      PROVE  disk' = [c \in Kind |-> disk'[c]]
  BY <1>0, <1>1 DEF Work, Take, BeginExport, BeginConsolidated, CsvPage, XlsxPage, getDataAsStream,
     uploadFile, Notify, deleteFileLocally
<1>2. CASE Next
  BY <1>0, <1>1, <1>2 DEF Next, exportOrders, PageFails, DeliveryFails, InsertOrder, Crash, Day,
     clearTmpFolder, SweepStart, SweepStat, SweepUnlink
<1>3. QED
  BY <1>0, <1>2 DEF vars

LEMMA TypesNext ==
  ASSUME TInv, [Next]_vars
  PROVE  TInv'
<1>1. IInv'
  BY NextInv DEF TInv
<1>2. \A q \in Req : Shaped(job'[q])
  BY <1>1 DEF IInv, JobInv
<1>3. \A q \in Req : JobTyped(job[q])
  BY DEF TInv
<1>4. CASE \E r \in Req : Turn(r) /\ Others(r)
  <2>1. PICK r \in Req : Turn(r) /\ Others(r)
    BY <1>4
  <2>2. ASSUME NEW q \in Req
        PROVE  JobTyped(job'[q])
    <3>1. CASE q = r
      BY <1>2, <2>1, <3>1, TypedTurn
    <3>2. CASE q # r
      <4>1. Apart(job[q], job'[q])
        BY <2>1, <3>2, SameIsApart DEF Others, Marked
      <4>2. QED
        BY <1>2, <1>3, <4>1 DEF JobTyped, Apart
    <3>3. QED
      BY <3>1, <3>2
  <2>3. ASSUME NEW c \in Kind
        PROVE  disk'[c] \in File \union {NoFile}
    <3>1. CASE c = job[r].kind
      BY <1>2, <2>1, <3>1, TypedTurn
    <3>2. CASE c # job[r].kind
      BY <2>1, <3>2 DEF Others, TInv
    <3>3. QED
      BY <3>1, <3>2
  <2>4. mishaps' \in Nat
    BY <1>2, <2>1, TypedTurn
  <2>5. QED
    BY <1>1, <2>2, <2>3, <2>4, DiskShape DEF TInv
<1>5. CASE \E o \in Late : Stored(o)
  <2>1. ASSUME NEW q \in Req
        PROVE  JobTyped(job'[q])
    BY <1>2, <1>3, <1>5 DEF Stored, ApartFromInserts, JobTyped
  <2>2. QED
    BY <1>1, <1>5, <2>1 DEF Stored, TInv
<1>6. CASE Stopped
  <2>0. <<>> \in Seq(Order)
    OBVIOUS
  <2>1. ASSUME NEW q \in Req
        PROVE  JobTyped(job'[q])
    BY <1>2, <1>3, <1>6, <2>0 DEF Stopped, Drops, Ends, JobTyped, State
  <2>2. mishaps' \in Nat
    BY <1>6 DEF Stopped, TInv
  <2>3. QED
    BY <1>1, <1>6, <2>1, <2>2 DEF Stopped, TInv
<1>7. CASE Swept
  <2>1. ASSUME NEW q \in Req
        PROVE  JobTyped(job'[q])
    BY <1>2, <1>3, <1>7 DEF Swept, Apart, JobTyped
  <2>2. disk' \in [Kind -> File \union {NoFile}]
    <3>1. ASSUME NEW r \in Req, Work(r) \/ exportOrders(r) \/ PageFails(r) \/ DeliveryFails(r)
          PROVE  \A c \in Kind : disk'[c] \in File \union {NoFile}
      <4>1. Turn(r) /\ Others(r)
        BY <3>1, AskTurns, CountTurns, StreamTurns, CsvTurns, XlsxTurns, GetTurns, EndTurns DEF Work
      <4>2. QED
        BY <1>2, <4>1, TypedTurn DEF Others, TInv
    <3>2. CASE Day
      <4>1. ASSUME NEW f \in File
            PROVE  [f EXCEPT !.old = TRUE] \in File
        BY DEF File
      <4>2. QED
        BY <3>2, <4>1 DEF Day, TInv
    <3>3. CASE \/ \E o \in Late : InsertOrder(o)
               \/ Crash
               \/ UNCHANGED vars
               \/ clearTmpFolder
      BY <3>3 DEF InsertOrder, Crash, vars, clearTmpFolder, SweepStart, SweepStat, SweepUnlink, TInv
    <3>4. \A c \in Kind : disk'[c] \in File \union {NoFile}
      BY <3>1, <3>2, <3>3 DEF Next, TInv
    <3>5. QED
      BY <3>4, DiskShape
  <2>3. QED
    BY <1>1, <1>7, <2>1, <2>2 DEF Swept, TInv
<1>8. QED
  BY <1>4, <1>5, <1>6, <1>7, StepKinds

--------------------------------------------------------------------------------
\* Steps of others, and inserts

LEMMA FrameOK ==
  ASSUME NEW j, NEW k, NEW d, NEW e, NEW l, NEW m \in Nat, NEW n \in Nat, m <= n,
         j.page \in Nat, Apart(j, k), RequestOK(j, d, l, m),
         SameFile(d, e) \/ k.spoil \intersect Kept # {} \/ ~HasFile(j)
  PROVE  RequestOK(k, e, l, n)
<1>1. /\ k.st = j.st /\ k.kind = j.kind /\ k.page = j.page /\ k.pages = j.pages
      /\ k.count = j.count /\ k.rows = j.rows /\ k.fd = j.fd /\ k.snap = j.snap
      /\ k.added = j.added /\ k.sent = j.sent /\ k.told = j.told
      /\ j.spoil \subseteq k.spoil
  BY DEF Apart
<1>2. HasFile(k) <=> HasFile(j)
  BY <1>1 DEF HasFile
<1>3. PhaseOK(k)
  BY <1>1 DEF RequestOK, PhaseOK
<1>4. OwnedOK(k, e)
  BY <1>1, <1>2 DEF RequestOK, OwnedOK, SameFile
<1>5. CommittedOK(k, e)
  <2>1. OwnedOK(j, d) /\ CommittedOK(j, d)
    BY DEF RequestOK
  <2>2. QED
    BY <1>1, <1>2, <2>1 DEF OwnedOK, CommittedOK, SameFile
<1>6. SilentOK(k, n)
  BY <1>1 DEF RequestOK, SilentOK, Excused
<1>7. ListedOK(k, l)
  BY <1>1 DEF RequestOK, ListedOK
<1>8. ASSUME k.spoil = {}
      PROVE  /\ j.spoil = {}
             /\ HasFile(j) => e.rows = d.rows
  <2>1. OwnedOK(j, d)
    BY DEF RequestOK
  <2>2. QED
    BY <1>1, <1>8, <2>1 DEF OwnedOK, SameFile
<1>9. ExactOK(k, e)
  <2>1. ExactOK(j, d)
    BY DEF RequestOK
  <2>2. j.st \in Open /\ (j.kind = "consolidated" \/ j.page > 0) => HasFile(j)
    BY DEF HasFile, Open
  <2>3. QED
    BY <1>1, <1>8, <2>1, <2>2 DEF ExactOK
<1>10. CoveredOK(k, e, l)
  <2>1. CoveredOK(j, d, l)
    BY DEF RequestOK
  <2>2. j.st \in Open /\ j.page > 0 => HasFile(j)
    BY DEF HasFile, Open
  <2>3. k.spoil = {} /\ j.st \in Open /\ j.page > 0 => Written(k, e) = Written(j, d)
    BY <1>1, <1>8, <2>2 DEF Written
  <2>4. QED
    BY <1>1, <1>8, <2>1, <2>3 DEF CoveredOK
<1>11. SentExact(k) /\ SentStays(k)
  <2>1. Expected(k) = Expected(j)
    BY <1>1 DEF Expected
  <2>2. QED
    BY <1>1, <1>8, <2>1 DEF RequestOK, SentExact, SentStays
<1>12. SentCovers(k)
  BY <1>1, <1>8 DEF RequestOK, SentCovers
<1>13. QED
  BY <1>3, <1>4, <1>5, <1>6, <1>7, <1>9, <1>10, <1>11, <1>12 DEF RequestOK

LEMMA RangeIs ==
  ASSUME NEW S, NEW s \in Seq(S)
  PROVE  /\ \A x \in Range(s) : \E p \in 1 .. Len(s) : x = s[p]
         /\ \A p \in 1 .. Len(s) : s[p] \in Range(s)
<1>1. DOMAIN s = 1 .. Len(s)
  OBVIOUS
<1>2. QED
  BY <1>1, Zenon DEF Range

\* Where the orders of a listing are once one was put into it.
LEMMA InsertedAt ==
  ASSUME NEW l \in Seq(Order), NEW o \in Order, NEW i \in 1 .. Len(l) + 1
  PROVE  LET s == InsertAt(l, i, o)
         IN /\ s \in Seq(Order) /\ Len(s) = Len(l) + 1
            /\ \A p \in 1 .. Len(s) : s[p] = IF p < i THEN l[p] ELSE IF p = i THEN o ELSE l[p - 1]
<1> DEFINE s == InsertAt(l, i, o)
           before == SubSeq(l, 1, i - 1)
           after == SubSeq(l, i, Len(l))
<1>0. PICK n \in Nat : n = Len(l)
  OBVIOUS
<1>1. /\ before \in Seq(Order) /\ Len(before) = i - 1
      /\ \A p \in 1 .. i - 1 : before[p] = l[p]
  BY <1>0, SubSeqProperties
<1>2. /\ after \in Seq(Order) /\ Len(after) = n - i + 1
      /\ \A p \in 1 .. n - i + 1 : after[p] = l[i + p - 1]
  BY <1>0, SubSeqProperties
<1>3. s = before \o <<o>> \o after
  BY DEF InsertAt
<1> HIDE DEF before, after, s
<1>4. PICK b : b = before \o <<o>>
  OBVIOUS
<1>5. /\ b \in Seq(Order) /\ Len(b) = i
      /\ \A p \in 1 .. i : b[p] = IF p < i THEN l[p] ELSE o
  <2>1. <<o>> \in Seq(Order) /\ Len(<<o>>) = 1 /\ <<o>>[1] = o
    OBVIOUS
  <2>2. /\ b \in Seq(Order) /\ Len(b) = i
        /\ \A p \in 1 .. i : b[p] = IF p <= i - 1 THEN before[p] ELSE <<o>>[p - (i - 1)]
    BY <1>0, <1>1, <1>4, <2>1, ConcatProperties
  <2>3. QED
    BY <1>0, <1>1, <2>1, <2>2
<1>6. /\ s \in Seq(Order) /\ Len(s) = n + 1
      /\ \A p \in 1 .. n + 1 : s[p] = IF p <= i THEN b[p] ELSE after[p - i]
  <2>1. PICK c \in Nat : c = n - i + 1
    BY <1>0
  <2>2. s = b \o after /\ Len(after) = c
    BY <1>2, <1>3, <1>4, <2>1
  <2>0. b \in Seq(Order) /\ after \in Seq(Order) /\ Len(b) = i
    BY <1>2, <1>5
  <2>3. /\ s \in Seq(Order) /\ Len(s) = i + c
        /\ \A p \in 1 .. i + c : s[p] = IF p <= i THEN b[p] ELSE after[p - i]
    BY <2>0, <2>2, ConcatProperties
  <2>4. i + c = n + 1
    BY <1>0, <2>1
  <2>5. QED
    BY <2>3, <2>4
<1>8. ASSUME NEW p \in 1 .. n + 1
      PROVE  s[p] = IF p < i THEN l[p] ELSE IF p = i THEN o ELSE l[p - 1]
  <2>1. CASE p <= i
    BY <1>0, <1>5, <1>6, <2>1
  <2>2. CASE p > i
    <3>1. s[p] = after[p - i]
      BY <1>0, <1>6, <2>2
    <3>2. p - i \in 1 .. n - i + 1 /\ i + (p - i) - 1 = p - 1
      BY <1>0, <2>2
    <3>3. after[p - i] = l[i + (p - i) - 1]
      BY <1>2, <3>2
    <3>4. QED
      BY <1>0, <2>2, <3>1, <3>2, <3>3
  <2>3. QED
    BY <1>0, <2>1, <2>2
<1>9. QED
  BY <1>0, <1>6, <1>8 DEF s

LEMMA InsertOK ==
  ASSUME NEW j, NEW k, NEW d, NEW l \in Seq(Order), NEW m \in Nat,
         NEW o \in Order, o \notin Range(l), NEW i \in 1 .. Len(l) + 1, NEW s, s = InsertAt(l, i, o),
         j.page \in Nat, j.added \in Nat, j.snap \in Seq(Order),
         ApartFromInserts(j, k), RequestOK(j, d, l, m),
         k.added = IF j.st = "paging" THEN j.added + 1 ELSE j.added
  PROVE  RequestOK(k, d, s, m)
<1>1. /\ k.st = j.st /\ k.kind = j.kind /\ k.page = j.page /\ k.pages = j.pages
      /\ k.count = j.count /\ k.rows = j.rows /\ k.fd = j.fd /\ k.snap = j.snap
      /\ k.spoil = j.spoil /\ k.sent = j.sent /\ k.told = j.told
  BY DEF ApartFromInserts
<1>2. /\ s \in Seq(Order) /\ Len(s) = Len(l) + 1
      /\ \A p \in 1 .. Len(s) : s[p] = IF p < i THEN l[p] ELSE IF p = i THEN o ELSE l[p - 1]
  BY InsertedAt
<1>3. HasFile(k) <=> HasFile(j)
  BY <1>1 DEF HasFile
<1>4. /\ k.st # "paging" => k.added = j.added
      /\ k.st = "paging" => k.added = j.added + 1 /\ k.added # 0
  BY <1>1
<1>5. PhaseOK(k)
  BY <1>1, <1>4 DEF RequestOK, PhaseOK, Waiting
<1>6. OwnedOK(k, d) /\ CommittedOK(k, d)
  BY <1>1, <1>3 DEF RequestOK, OwnedOK, CommittedOK
<1>7. SilentOK(k, m)
  BY <1>1 DEF RequestOK, SilentOK, Excused
<1>8. PICK n \in Nat : n = Len(l)
  OBVIOUS
<1>9. ListedOK(k, s)
  <2>1. ASSUME k.st = "paging"
        PROVE  Len(s) = Len(k.snap) + k.added
    <3>1. n = Len(j.snap) + j.added /\ Len(j.snap) \in Nat
      BY <1>1, <1>8, <2>1 DEF RequestOK, ListedOK
    <3>2. QED
      BY <1>1, <1>2, <1>4, <1>8, <2>1, <3>1
  <2>2. ASSUME k.st = "paging"
        PROVE  Range(k.snap) \subseteq Range(s)
    <3>1. Range(k.snap) \subseteq Range(l)
      BY <1>1, <2>2 DEF RequestOK, ListedOK
    <3>2. ASSUME NEW p \in 1 .. n
          PROVE  l[p] \in Range(s)
      <4>1. CASE p < i
        <5>1. p \in 1 .. Len(s) /\ s[p] = l[p]
          BY <1>2, <1>8, <4>1
        <5>2. QED
          BY <1>2, <5>1, RangeIs
      <4>2. CASE ~(p < i)
        <5>1. p + 1 \in 1 .. Len(s) /\ s[p + 1] = l[p]
          BY <1>2, <1>8, <4>2
        <5>2. QED
          BY <1>2, <5>1, RangeIs
      <4>3. QED
        BY <4>1, <4>2
    <3>3. QED
      BY <1>8, <3>1, <3>2, RangeIs
  <2>3. QED
    BY <1>4, <2>1, <2>2 DEF ListedOK
<1>10. ExactOK(k, d)
  BY <1>1, <1>4 DEF RequestOK, ExactOK
<1>11. CoveredOK(k, d, s)
  <2>1. CoveredOK(j, d, l) /\ ListedOK(j, l)
    BY DEF RequestOK
  <2>2. Written(k, d) = Written(j, d)
    BY <1>1 DEF Written
  <2>3. ASSUME k.kind # "consolidated", k.st = "paging", k.spoil = {}, k.page > 0,
               NEW p \in 1 .. Len(s), p <= k.page * Chunk, s[p] \in Range(k.snap)
        PROVE  s[p] \in Range(Written(k, d))
    <3>1. Range(j.snap) \subseteq Range(l)
      BY <1>1, <2>1, <2>3 DEF ListedOK
    <3>2. p # i
      BY <1>1, <1>2, <2>3, <3>1
    <3>3. \A x \in 1 .. Len(l) : x <= j.page * Chunk /\ l[x] \in Range(j.snap) => l[x] \in Range(Written(j, d))
      BY <1>1, <2>1, <2>3 DEF CoveredOK, Open
    <3>4. PICK c \in Nat : c = j.page * Chunk
      BY SizeAssumption DEF SizeAssumption
    <3>5. CASE p < i
      <4>1. p \in 1 .. n /\ s[p] = l[p] /\ p <= c
        BY <1>1, <1>2, <1>8, <2>3, <3>4, <3>5
      <4>2. QED
        BY <1>1, <1>8, <2>2, <2>3, <3>3, <3>4, <4>1
    <3>6. CASE p > i
      <4>1. p - 1 \in 1 .. n /\ s[p] = l[p - 1] /\ p - 1 <= c
        BY <1>1, <1>2, <1>8, <2>3, <3>4, <3>6
      <4>2. QED
        BY <1>1, <1>8, <2>2, <2>3, <3>3, <3>4, <4>1
    <3>7. QED
      BY <1>2, <1>8, <3>2, <3>5, <3>6
  <2>4. QED
    BY <1>1, <1>4, <2>1, <2>2, <2>3 DEF CoveredOK
<1>12. SentExact(k) /\ SentStays(k)
  <2>1. Expected(k) = Expected(j)
    BY <1>1 DEF Expected
  <2>2. QED
    BY <1>1, <1>4, <2>1 DEF RequestOK, SentExact, SentStays
<1>13. SentCovers(k)
  <2>1. SentCovers(j) /\ SentStays(j)
    BY DEF RequestOK
  <2>2. k.sent # NoReport => k.added = j.added
    BY <1>1, <1>4, <2>1 DEF SentStays
  <2>3. QED
    BY <1>1, <2>1, <2>2 DEF SentCovers
<1>14. QED
  BY <1>5, <1>6, <1>7, <1>9, <1>10, <1>11, <1>12, <1>13 DEF RequestOK

--------------------------------------------------------------------------------
\* Pages

LEMMA UptoIs ==
  ASSUME NEW S, NEW s \in Seq(S), NEW a \in Nat
  PROVE  /\ Upto(s, a) \in Seq(S)
         /\ Len(Upto(s, a)) = IF a <= Len(s) THEN a ELSE Len(s)
         /\ Upto(s, 0) = <<>>
         /\ a >= Len(s) => Upto(s, a) = s
<1>1. PICK n \in Nat : n = Len(s)
  OBVIOUS
<1>2. PICK b \in Nat : b = IF a <= n THEN a ELSE n
  BY <1>1
<1>3. Upto(s, a) = SubSeq(s, 1, b) /\ b \in Int
  BY <1>1, <1>2 DEF Upto
<1>4. \A i \in 1 .. b : s[i] \in S
  BY <1>1, <1>2
<1>5. Upto(s, a) \in Seq(S) /\ Len(Upto(s, a)) = b
  BY <1>2, <1>3, <1>4, SubSeqProperties
<1>6. Upto(s, 0) = SubSeq(s, 1, 0)
  BY <1>1 DEF Upto
<1>7. Upto(s, 0) = <<>>
  BY <1>6, SubSeqEmpty
<1>8. ASSUME a >= n
      PROVE  Upto(s, a) = s
  BY <1>1, <1>2, <1>3, <1>8, SubSeqFull
<1>9. QED
  BY <1>1, <1>2, <1>5, <1>7, <1>8

\* The pages read so far and the next one are the pages read then.
LEMMA NextPage ==
  ASSUME listing \in Seq(Order), NEW p \in Nat
  PROVE  /\ Upto(listing, p * Chunk) \o PageOf(p) = Upto(listing, (p + 1) * Chunk)
         /\ PageOf(p) = <<>> <=> p * Chunk >= Len(listing)
         /\ p * Chunk \in Nat /\ (p + 1) * Chunk = p * Chunk + Chunk
<1>0. Chunk \in Nat \ {0}
  BY SizeAssumption DEF SizeAssumption
<1>1. PICK a \in Nat : a = p * Chunk
  BY <1>0
<1>2. (p + 1) * Chunk = a + Chunk
  BY <1>0, <1>1
<1>3. PICK n \in Nat : n = Len(listing)
  OBVIOUS
<1>4. PICK b : b \in Nat /\ b = IF a + Chunk <= n THEN a + Chunk ELSE n
  <2>1. a + Chunk \in Nat
    BY <1>0
  <2>2. QED
    BY <2>1
<1>5. PageOf(p) = SubSeq(listing, a + 1, b)
  BY <1>1, <1>2, <1>3, <1>4 DEF PageOf
<1>6. Upto(listing, a + Chunk) = SubSeq(listing, 1, b)
  BY <1>3, <1>4 DEF Upto
<1>7. CASE a < n
  <2>1. Upto(listing, a) = SubSeq(listing, 1, a)
    BY <1>3, <1>7 DEF Upto
  <2>2. 1 \in 1 .. Len(listing) + 1 /\ a \in 1 - 1 .. Len(listing) /\ b \in a .. Len(listing)
    BY <1>0, <1>3, <1>4, <1>7
  <2>3. SubSeq(listing, 1, a) \o SubSeq(listing, a + 1, b) = SubSeq(listing, 1, b)
    BY <2>2, ConcatAdjacentSubSeq
  <2>4. \A i \in a + 1 .. b : listing[i] \in Order
    BY <1>3, <2>2
  <2>5. a + 1 <= b /\ a + 1 \in Int /\ b \in Int
    BY <1>0, <1>4, <1>7
  <2>6. PageOf(p) # <<>>
    <3>1. Len(SubSeq(listing, a + 1, b)) = b - (a + 1) + 1
      BY <2>4, <2>5, SubSeqProperties
    <3>2. Len(PageOf(p)) > 0
      BY <1>5, <2>5, <3>1
    <3>3. QED
      BY <3>2
  <2>7. Upto(listing, p * Chunk) \o PageOf(p) = Upto(listing, (p + 1) * Chunk)
    BY <1>1, <1>2, <1>5, <1>6, <2>1, <2>3
  <2>8. ~(a >= n) /\ a \in Nat /\ (p + 1) * Chunk = a + Chunk
    BY <1>2, <1>7
  <2>9. QED
    BY <1>1, <1>3, <2>6, <2>7, <2>8
<1>8. CASE a >= n
  <2>1. b < a + 1 /\ b = n
    BY <1>0, <1>4, <1>8
  <2>2. PageOf(p) = <<>>
    BY <1>5, <2>1, SubSeqEmpty
  <2>3. Upto(listing, a) = listing /\ Upto(listing, a + Chunk) = listing
    BY <1>0, <1>3, <1>8, UptoIs
  <2>4. listing \o <<>> = listing
    BY ConcatEmptySeq
  <2>5. QED
    BY <1>1, <1>2, <1>3, <1>8, <2>2, <2>3, <2>4
<1>9. QED
  BY <1>3, <1>7, <1>8

\* There are enough pages.
LEMMA PageCountEnough ==
  ASSUME NEW n \in Nat
  PROVE  /\ PageCount(n) \in Nat /\ PageCount(n) * Chunk \in Nat
         /\ PageCount(n) * Chunk >= n
         /\ PageCount(n) = 0 => n = 0
<1>0. Chunk \in Nat \ {0}
  BY SizeAssumption DEF SizeAssumption
<1>1. PICK x \in Nat : x = n + Chunk - 1
  BY <1>0
<1>2. PICK p \in Int : p = x \div Chunk
  BY <1>0
<1>3. p * Chunk <= x /\ x < p * Chunk + Chunk /\ p >= 0
  BY <1>0, <1>1, <1>2
<1>4. PageCount(n) = p
  BY <1>1, <1>2 DEF PageCount
<1>5. PICK z \in Nat : z = p * Chunk
  BY <1>0, <1>3
<1>6. n <= z
  BY <1>0, <1>1, <1>3, <1>5
<1>7. p = 0 => z = 0
  BY <1>0, <1>5
<1>8. QED
  BY <1>3, <1>4, <1>5, <1>6, <1>7

\* It is the least number of pages that is enough.
LEMMA PageCountLeast ==
  ASSUME NEW n \in Nat, NEW p \in Nat, p * Chunk < n, n <= (p + 1) * Chunk
  PROVE  PageCount(n) = p + 1
<1>0. Chunk \in Nat \ {0}
  BY SizeAssumption DEF SizeAssumption
<1>1. PICK q \in Nat : q = PageCount(n)
  BY PageCountLemma
<1>2. q * Chunk >= n /\ (q > 0 => (q - 1) * Chunk < n)
  BY <1>1, PageCountLemma, PageCountEnough
<1>3. CASE q <= p
  <2>1. PICK x \in Nat : p = q + x
    BY <1>3
  <2>2. PICK y \in Nat : y = x * Chunk
    BY <1>0
  <2>3. PICK z \in Nat : z = q * Chunk
    BY <1>0
  <2>4. p * Chunk = z + y
    BY <1>0, <2>1, <2>2, <2>3
  <2>5. QED
    BY <1>2, <2>2, <2>3, <2>4
<1>4. CASE q > p + 1
  <2>1. PICK x \in Nat : q - 1 = (p + 1) + x
    BY <1>4
  <2>2. PICK y \in Nat : y = x * Chunk
    BY <1>0
  <2>3. PICK z \in Nat : z = (p + 1) * Chunk
    BY <1>0
  <2>4. (q - 1) * Chunk = z + y
    BY <1>0, <2>1, <2>2, <2>3
  <2>5. QED
    BY <1>2, <1>4, <2>2, <2>3, <2>4
<1>5. QED
  BY <1>1, <1>3, <1>4

\* What is missing from a report was pushed behind its last page.
LEMMA MissingBound ==
  ASSUME NEW l \in Seq(Order), NEW snap \in Seq(Order), NEW added \in Nat, NEW rows, NEW n \in Nat,
         Len(l) = Len(snap) + added, Range(snap) \subseteq Range(l), n >= Len(snap),
         \A i \in 1 .. Len(l) : i <= n /\ l[i] \in Range(snap) => l[i] \in Range(rows)
  PROVE  Cardinality(Missing(snap, rows)) <= added
<1>1. PICK a \in Nat : a = Len(snap)
  OBVIOUS
<1> DEFINE I == a + 1 .. a + added
           f == [i \in I |-> l[i]]
           S == {l[i] : i \in I}
<1>2. IsFiniteSet(I) /\ Cardinality(I) = added
  <2>1. PICK u \in Int, v \in Int : u = a + 1 /\ v = a + added
    BY <1>1
  <2>2. IsFiniteSet(u .. v) /\ Cardinality(u .. v) = IF u > v THEN 0 ELSE v - u + 1
    BY FS_Interval
  <2>3. (IF u > v THEN 0 ELSE v - u + 1) = added
    BY <2>1
  <2>4. QED
    BY <2>1, <2>2, <2>3
<1>3. f \in Surjection(I, S)
  BY DEF Surjection
<1>4. IsFiniteSet(S) /\ Cardinality(S) <= Cardinality(I)
  BY <1>2, <1>3, FS_Surjection
<1>5. Missing(snap, rows) \subseteq S
  <2>1. ASSUME NEW x \in Range(snap), x \notin Range(rows)
        PROVE  x \in S
    <3>1. x \in Range(l)
      BY <2>1
    <3>2. PICK i \in 1 .. Len(l) : x = l[i]
      BY <3>1, RangeIs
    <3>3. ~(i <= n)
      BY <2>1, <3>2
    <3>4. i \in I
      BY <1>1, <3>2, <3>3
    <3>5. QED
      BY <3>2, <3>4
  <2>2. QED
    BY <2>1 DEF Missing
<1> HIDE DEF S, I, f
<1>6. Missing(snap, rows) \in SUBSET S
  BY <1>5
<1>7. /\ IsFiniteSet(Missing(snap, rows))
      /\ Cardinality(Missing(snap, rows)) <= Cardinality(S)
  BY <1>4, <1>6, FS_Subset
<1>8. Cardinality(Missing(snap, rows)) \in Nat /\ Cardinality(S) \in Nat
  BY <1>4, <1>7, FS_CardinalityType
<1>9. QED
  BY <1>2, <1>4, <1>7, <1>8

--------------------------------------------------------------------------------
\* Turns that write no page

OfRequest(r) == RequestOK(job[r], disk[job[r].kind], listing, mishaps)

After(r) == RequestOK(job'[r], disk'[job[r].kind], listing, mishaps')

LEMMA AsksOK ==
  ASSUME TInv, NEW r \in Req, OfRequest(r), Asks(r, job[r], job'[r])
  PROVE  After(r)
<1> DEFINE j == job[r]
           k == job'[r]
           d == disk[j.kind]
<1>1. /\ RequestOK(j, d, listing, mishaps) /\ disk' = disk /\ mishaps' = mishaps
      /\ Same(j, k) /\ Carries(j, k) /\ k.sent = j.sent /\ k.told = j.told
  BY DEF OfRequest, Asks, Same
<1>2. j.st \in Waiting /\ k.st \in Waiting /\ k.st \notin {"paging", "upload", "notify", "cleanup", "done"}
  BY DEF Asks, Waiting
<1>3. PhaseOK(k) /\ OwnedOK(k, d) /\ CommittedOK(k, d) /\ SilentOK(k, mishaps) /\ ListedOK(k, listing)
  BY <1>1, <1>2 DEF RequestOK, PhaseOK, OwnedOK, CommittedOK, SilentOK, ListedOK, HasFile, Same,
     Carries, Open
<1>4. ExactOK(k, d) /\ CoveredOK(k, d, listing)
  BY <1>2 DEF ExactOK, CoveredOK, Open
<1>5. SentExact(k) /\ SentCovers(k) /\ SentStays(k)
  BY <1>1, <1>2 DEF RequestOK, SentStays, SentExact, SentCovers
<1>6. QED
  BY <1>1, <1>3, <1>4, <1>5 DEF After, RequestOK

\* A handler that has just begun has no report.
LEMMA Unsent ==
  ASSUME NEW j, SentStays(j), j.st \in Waiting \union {"paging", "upload"}, NEW k, k.sent = j.sent
  PROVE  SentExact(k) /\ SentCovers(k) /\ SentStays(k)
BY DEF SentStays, SentExact, SentCovers

LEMMA CountsOK ==
  ASSUME TInv, NEW r \in Req, OfRequest(r), Counts(r, job[r], job'[r])
  PROVE  After(r)
<1> DEFINE j == job[r]
           k == job'[r]
           d == disk[j.kind]
<1>1. /\ RequestOK(j, d, listing, mishaps) /\ disk' = disk /\ mishaps' = mishaps
      /\ j.st \in Waiting /\ k.sent = j.sent /\ listing \in Seq(Order)
  BY DEF OfRequest, Counts, Waiting, TInv, IInv
<1>2. j.page = 0 /\ j.count = 0
  BY <1>1 DEF TInv, IInv, JobInv, SizedAt
<1>3. j.added = 0 /\ j.rows = <<>>
  BY <1>1 DEF RequestOK, PhaseOK
<1>4. PICK n \in Nat : n = PageCount(Len(listing))
  BY <1>1, PageCountEnough
<1>5. /\ k.page = 0 /\ k.count = 0 /\ k.added = 0 /\ k.rows = <<>> /\ k.pages = n
      /\ k.snap = listing /\ k.st = IF n = 0 THEN "upload" ELSE "paging"
      /\ k.kind = j.kind /\ k.kind # "consolidated"
  BY <1>2, <1>3, <1>4 DEF Counts
<1>6. ~HasFile(k)
  BY <1>5 DEF HasFile
<1>7. PhaseOK(k)
  BY <1>4, <1>5 DEF PhaseOK, Waiting, Open
<1>8. OwnedOK(k, d) /\ CommittedOK(k, d) /\ SilentOK(k, mishaps)
  BY <1>5, <1>6 DEF OwnedOK, CommittedOK, SilentOK
<1>9. ListedOK(k, listing)
  BY <1>1, <1>5 DEF ListedOK
<1>10. ExactOK(k, d)
  <2>1. k.page * Chunk = 0
    BY <1>5, SizeAssumption DEF SizeAssumption
  <2>2. Upto(k.snap, k.page * Chunk) = <<>>
    BY <1>1, <1>5, <2>1, UptoIs
  <2>3. QED
    BY <1>5, <2>2 DEF ExactOK
<1>11. CoveredOK(k, d, listing)
  BY <1>5 DEF CoveredOK
<1>12. SentExact(k) /\ SentCovers(k) /\ SentStays(k)
  BY <1>1, Unsent DEF RequestOK
<1>13. QED
  BY <1>1, <1>7, <1>8, <1>9, <1>10, <1>11, <1>12 DEF After, RequestOK

LEMMA StreamsOK ==
  ASSUME TInv, NEW r \in Req, OfRequest(r),
         Streams(r, job[r], job'[r], disk[job[r].kind], disk'[job[r].kind])
  PROVE  After(r)
<1> DEFINE j == job[r]
           k == job'[r]
           d == disk[j.kind]
           e == disk'[j.kind]
<1>1. /\ RequestOK(j, d, listing, mishaps) /\ mishaps' = mishaps
      /\ j.st \in Waiting /\ k.sent = j.sent /\ listing \in Seq(Order)
  BY DEF OfRequest, Streams, Waiting, TInv, IInv
<1>2. j.page = 0 /\ j.count = 0
  BY <1>1 DEF TInv, IInv, JobInv, SizedAt
<1>3. j.added = 0 /\ j.rows = <<>>
  BY <1>1 DEF RequestOK, PhaseOK
<1>4. /\ k.page = 0 /\ k.count = 0 /\ k.added = 0 /\ k.rows = <<>>
      /\ k.snap = listing /\ k.st = "paging"
      /\ k.kind = j.kind /\ k.kind = "consolidated"
  BY <1>2, <1>3 DEF Streams
<1>5. /\ e # NoFile /\ e.by = k.fd
      /\ d = NoFile => e.rows = <<>>
  <2>1. e = IF d = NoFile THEN [rows |-> <<>>, old |-> FALSE, by |-> r] ELSE d
    BY DEF Streams
  <2>2. <<>> \in Seq(Line)
    OBVIOUS
  <2>3. k.fd = e.by
    BY DEF Streams
  <2>4. CASE d = NoFile
    <3>1. PICK f : f = [rows |-> <<>>, old |-> FALSE, by |-> r]
      OBVIOUS
    <3>2. f # NoFile /\ f.rows = <<>>
      BY <2>2, <3>1, NewFile
    <3>3. QED
      BY <2>1, <2>3, <2>4, <3>1, <3>2
  <2>5. CASE d # NoFile
    BY <2>1, <2>3, <2>5
  <2>6. QED
    BY <2>4, <2>5
<1>6. k.spoil = {} => d = NoFile
  <2>1. k.spoil = j.spoil \union SpoilOf(r)
    BY DEF Streams, Meets
  <2>2. d # NoFile => "left" \in SpoilOf(r)
    BY <1>4 DEF SpoilOf
  <2>3. QED
    BY <2>1, <2>2
<1>7. PhaseOK(k) /\ OwnedOK(k, e) /\ CommittedOK(k, e) /\ SilentOK(k, mishaps)
  BY <1>4, <1>5 DEF PhaseOK, OwnedOK, CommittedOK, SilentOK, Waiting
<1>8. ListedOK(k, listing)
  BY <1>1, <1>4 DEF ListedOK
<1>9. ExactOK(k, e)
  <2>1. k.page * Chunk = 0
    BY <1>4, SizeAssumption DEF SizeAssumption
  <2>2. Upto(k.snap, k.page * Chunk) = <<>>
    BY <1>1, <1>4, <2>1, UptoIs
  <2>3. k.count = Len(Upto(k.snap, k.page * Chunk)) /\ k.count < ReportLimit
    BY <1>4, <2>2, SizeAssumption DEF SizeAssumption
  <2>4. k.spoil = {} => e.rows = <<>> \o Upto(k.snap, k.page * Chunk)
    BY <1>5, <1>6, <2>2
  <2>5. QED
    BY <1>4, <2>3, <2>4 DEF ExactOK
<1>10. CoveredOK(k, e, listing)
  BY <1>4 DEF CoveredOK
<1>11. SentExact(k) /\ SentCovers(k) /\ SentStays(k)
  BY <1>1, Unsent DEF RequestOK
<1>12. QED
  BY <1>1, <1>7, <1>8, <1>9, <1>10, <1>11 DEF After, RequestOK

LEMMA EndsOK ==
  ASSUME TInv, NEW r \in Req, OfRequest(r),
         \/ Removes(r, job[r], job'[r], disk[job[r].kind], disk'[job[r].kind])
         \/ Drops(r, job[r], job'[r])
  PROVE  After(r)
<1> DEFINE j == job[r]
           k == job'[r]
           d == disk[j.kind]
           e == disk'[j.kind]
<1>1. /\ RequestOK(j, d, listing, mishaps) /\ Ends(j, k)
      /\ k.st \in {"done", "failed", "lost"}
      /\ k.st = "done" => j.st = "cleanup" /\ mishaps' = mishaps
  BY DEF OfRequest, Removes, Drops
<1>2. ~HasFile(k)
  BY <1>1 DEF HasFile
<1>3. PhaseOK(k) /\ OwnedOK(k, e) /\ CommittedOK(k, e) /\ ListedOK(k, listing)
  BY <1>1, <1>2 DEF PhaseOK, OwnedOK, CommittedOK, ListedOK, Waiting, Open
<1>4. SilentOK(k, mishaps')
  BY <1>1 DEF RequestOK, SilentOK, Excused, Ends
<1>5. ExactOK(k, e) /\ CoveredOK(k, e, listing)
  BY <1>1 DEF ExactOK, CoveredOK, Open
<1>6. SentExact(k) /\ SentCovers(k) /\ SentStays(k)
  <2>1. Expected(k) = Expected(j)
    BY <1>1 DEF Expected, Ends
  <2>2. SentStays(k)
    BY <1>1 DEF SentStays, Waiting
  <2>3. QED
    BY <1>1, <2>1, <2>2 DEF RequestOK, SentExact, SentCovers, Ends
<1>7. QED
  BY <1>3, <1>4, <1>5, <1>6 DEF After, RequestOK

LEMMA TellsOK ==
  ASSUME TInv, NEW r \in Req, OfRequest(r),
         Tells(r, job[r], job'[r]) \/ Refused(r, job[r], job'[r])
  PROVE  After(r)
<1> DEFINE j == job[r]
           k == job'[r]
           d == disk[j.kind]
<1>0. disk' = disk
  BY DEF Tells, Refused
<1>1. /\ RequestOK(j, d, listing, mishaps) /\ Same(j, k) /\ Carries(j, k) /\ k.sent = j.sent
      /\ j.st \in {"upload", "notify"} /\ k.st = "cleanup"
      /\ k.told = TRUE \/ mishaps' = mishaps + 1
  BY DEF OfRequest, Tells, Refused, Same
<1>2. HasFile(k) <=> HasFile(j)
  BY <1>1 DEF HasFile, Same, Carries
<1>3. PhaseOK(k) /\ OwnedOK(k, d) /\ CommittedOK(k, d) /\ ListedOK(k, listing)
  BY <1>1, <1>2 DEF RequestOK, PhaseOK, OwnedOK, CommittedOK, ListedOK, Waiting, Open, Same, Carries
<1>4. SilentOK(k, mishaps')
  <2>1. mishaps + 1 > 0
    BY DEF TInv
  <2>2. QED
    BY <1>1, <2>1 DEF SilentOK, Excused
<1>5. ExactOK(k, d) /\ CoveredOK(k, d, listing)
  BY <1>1 DEF RequestOK, ExactOK, CoveredOK, Written, Open, Same, Carries
<1>6. SentExact(k) /\ SentCovers(k) /\ SentStays(k)
  <2>1. Expected(k) = Expected(j)
    BY <1>1 DEF Expected, Same, Carries
  <2>2. SentStays(k)
    BY <1>1 DEF SentStays, Waiting
  <2>3. QED
    BY <1>1, <2>1, <2>2 DEF RequestOK, SentExact, SentCovers, Same, Carries
<1>7. QED
  BY <1>0, <1>3, <1>4, <1>5, <1>6 DEF After, RequestOK

--------------------------------------------------------------------------------
\* The upload

LEMMA AllPages ==
  ASSUME NEW j, PhaseOK(j), j.kind # "consolidated", j.st \in Open \ {"paging"}, j.snap \in Seq(Order)
  PROVE  /\ j.page = j.pages /\ Upto(j.snap, j.page * Chunk) = j.snap
         /\ j.pages = 0 => j.snap = <<>>
<1>1. j.page = j.pages /\ j.pages = PageCount(Len(j.snap))
  BY DEF PhaseOK
<1>2. PICK n \in Nat : n = Len(j.snap)
  OBVIOUS
<1>3. PICK a \in Nat : a = j.page * Chunk /\ a >= n
  BY <1>1, <1>2, PageCountEnough
<1>4. Upto(j.snap, a) = j.snap
  BY <1>2, <1>3, UptoIs
<1>5. j.pages = 0 => n = 0
  BY <1>1, <1>2, PageCountEnough
<1>6. QED
  BY <1>1, <1>2, <1>3, <1>4, <1>5

LEMMA UploadsOK ==
  ASSUME TInv, NEW r \in Req, OfRequest(r),
         Uploads(r, job[r], job'[r], disk[job[r].kind], disk'[job[r].kind])
  PROVE  After(r)
<1> DEFINE j == job[r]
           k == job'[r]
           d == disk[j.kind]
           there == d # NoFile /\ (j.kind = "consolidated" \/ j.pages > 0)
<1>1. /\ RequestOK(j, d, listing, mishaps) /\ Same(j, k) /\ Carries(j, k) /\ k.told = j.told
      /\ j.st = "upload" /\ mishaps' = mishaps /\ disk' = disk
      /\ IF there THEN k.st = "notify" /\ k.sent = IF j.spoil = {} THEN d.rows ELSE NoReport
         ELSE k.st = "cleanup" /\ k.sent = j.sent
  BY DEF OfRequest, Uploads, Same
<1>2. /\ k.kind = j.kind /\ k.snap = j.snap /\ k.added = j.added /\ k.pages = j.pages
      /\ k.page = j.page /\ k.count = j.count /\ k.rows = j.rows /\ k.fd = j.fd /\ k.spoil = j.spoil
  BY <1>1 DEF Same, Carries
<1>3. k.st \in {"notify", "cleanup"} /\ j.snap \in Seq(Order) /\ j.pages \in Nat /\ j.page \in Nat
      /\ j.kind \in Kind
  BY <1>1 DEF TInv, JobTyped, Shaped
<1>4. HasFile(k) <=> HasFile(j)
  BY <1>1, <1>2, <1>3 DEF HasFile
<1>5. j.kind # "consolidated" =>
        /\ j.page = j.pages /\ Upto(j.snap, j.page * Chunk) = j.snap
        /\ j.pages = 0 => j.snap = <<>>
  BY <1>1, <1>3, AllPages DEF RequestOK, Open
<1>6. PhaseOK(k) /\ OwnedOK(k, d) /\ CommittedOK(k, d) /\ ListedOK(k, listing)
  BY <1>1, <1>2, <1>3, <1>4 DEF RequestOK, PhaseOK, OwnedOK, CommittedOK, ListedOK, Waiting, Open
<1>7. ExactOK(k, d) /\ CoveredOK(k, d, listing)
  BY <1>1, <1>2, <1>3 DEF RequestOK, ExactOK, CoveredOK, Written, Open
<1>8. SilentOK(k, mishaps)
  <2>1. ASSUME k.st = "cleanup"
        PROVE  j.snap = <<>> \/ j.spoil \intersect Kept # {}
    <3>1. ~there
      BY <1>1, <2>1
    <3>2. CASE HasFile(j)
      <4>1. j.kind = "consolidated" \/ j.pages > 0
        BY <1>3, <1>5, <3>2 DEF HasFile
      <4>2. QED
        BY <1>1, <3>1, <3>2, <4>1 DEF RequestOK, OwnedOK
    <3>3. CASE ~HasFile(j)
      BY <1>1, <1>3, <1>5, <3>3 DEF HasFile
    <3>4. QED
      BY <3>2, <3>3
  <2>2. QED
    BY <1>2, <1>3, <2>1 DEF SilentOK, Excused
<1>9. CASE there
  <2>1. HasFile(j)
    BY <1>1, <1>5, <1>9 DEF HasFile
  <2>2. j.kind = "xlsx" /\ j.spoil = {} => d.rows = j.rows
    BY <1>1, <2>1 DEF RequestOK, CommittedOK, Open
  <2>3. k.sent = IF j.spoil = {} THEN d.rows ELSE NoReport
    BY <1>1, <1>9
  <2>4. SentExact(k)
    <3>1. ASSUME j.spoil = {}, j.added = 0
          PROVE  d.rows = Expected(k)
      <4>1. ExactOK(j, d)
        BY <1>1 DEF RequestOK
      <4>2. CASE j.kind = "csv"
        BY <1>1, <1>2, <1>5, <2>1, <3>1, <4>1, <4>2 DEF ExactOK, Expected, HasFile, Open
      <4>3. CASE j.kind = "xlsx"
        BY <1>1, <1>2, <1>5, <2>2, <3>1, <4>1, <4>3 DEF ExactOK, Expected, Open
      <4>4. CASE j.kind = "consolidated"
        BY <1>1, <1>2, <3>1, <4>1, <4>4 DEF ExactOK, Expected, Open
      <4>5. QED
        BY <1>3, <4>2, <4>3, <4>4 DEF Kind
    <3>2. QED
      BY <1>2, <2>3, <3>1 DEF SentExact
  <2>5. SentCovers(k)
    <3>1. ASSUME j.spoil = {}, j.kind # "consolidated"
          PROVE  Cardinality(Missing(j.snap, d.rows)) <= j.added
      <4>1. j.page > 0
        BY <2>1, <3>1 DEF HasFile
      <4>2. Cardinality(Missing(j.snap, Written(j, d))) <= j.added
        BY <1>1, <3>1, <4>1 DEF RequestOK, CoveredOK, Open
      <4>3. Written(j, d) = d.rows
        BY <2>2, <3>1 DEF Written
      <4>4. QED
        BY <4>2, <4>3
    <3>2. QED
      BY <1>2, <2>3, <3>1 DEF SentCovers
  <2>6. SentStays(k)
    BY <1>3 DEF SentStays, Waiting
  <2>7. QED
    BY <2>4, <2>5, <2>6, <1>1, <1>6, <1>7, <1>8 DEF After, RequestOK
<1>10. CASE ~there
  <2>1. k.sent = j.sent
    BY <1>1, <1>10
  <2>2. SentExact(k) /\ SentCovers(k) /\ SentStays(k)
    BY <1>1, <2>1, Unsent DEF RequestOK
  <2>3. QED
    BY <2>2, <1>1, <1>6, <1>7, <1>8 DEF After, RequestOK
<1>11. QED
  BY <1>9, <1>10

--------------------------------------------------------------------------------
\* A page of an export

\* What a page does whatever its kind.
LEMMA PagePhase ==
  ASSUME TInv, NEW r \in Req, OfRequest(r), Pages(r, job[r], job'[r]), job[r].kind # "consolidated"
  PROVE  LET j == job[r]
             k == job'[r]
         IN /\ j.page \in Nat /\ k.page = j.page + 1 /\ k.page > 0 /\ k.st \in {"paging", "upload"}
            /\ j.snap \in Seq(Order) /\ j.added \in Nat /\ j.rows \in Seq(Order)
            /\ k.kind = j.kind /\ k.snap = j.snap /\ k.added = j.added /\ k.pages = j.pages
            /\ k.spoil = {} => j.spoil = {} /\ (j.page = 0 /\ j.kind # "xlsx" => disk[j.kind] = NoFile)
            /\ HasFile(k) /\ (HasFile(j) <=> j.page > 0)
            /\ j.page > 0 => j.spoil = k.spoil
            /\ PhaseOK(k) /\ SilentOK(k, mishaps) /\ ListedOK(j, listing) /\ ListedOK(k, listing)
            /\ SentExact(k) /\ SentCovers(k) /\ SentStays(k)
            /\ k.st = "upload" => k.page * Chunk >= Len(k.snap)
            /\ k.page * Chunk \in Nat
            /\ listing \in Seq(Order) /\ mishaps' = mishaps
<1> DEFINE j == job[r]
           k == job'[r]
<1>1. /\ RequestOK(j, disk[j.kind], listing, mishaps)
      /\ j.st = "paging" /\ k.st = IF j.page + 1 = j.pages THEN "upload" ELSE "paging"
      /\ Carries(j, k) /\ k.page = j.page + 1 /\ k.sent = j.sent /\ k.told = j.told
      /\ IF j.page = 0 THEN Meets(r, k) ELSE k.spoil = j.spoil
      /\ mishaps' = mishaps
  BY DEF OfRequest, Pages
<1>2. /\ JobTyped(j) /\ j.page \in Nat /\ j.pages \in Nat /\ listing \in Seq(Order)
      /\ j.snap \in Seq(Order) /\ j.added \in Nat /\ j.rows \in Seq(Order)
  BY DEF TInv, IInv, JobTyped, Shaped
<1>3. k.kind = j.kind /\ k.snap = j.snap /\ k.added = j.added /\ k.pages = j.pages
  BY <1>1 DEF Carries
<1>4. k.spoil = {} => j.spoil = {} /\ (j.page = 0 /\ j.kind # "xlsx" => disk[j.kind] = NoFile)
  <2>1. disk[j.kind] # NoFile /\ j.kind # "xlsx" => "left" \in SpoilOf(r)
    BY DEF SpoilOf
  <2>2. QED
    BY <1>1, <2>1 DEF Meets
<1>5. HasFile(k) /\ (HasFile(j) <=> j.page > 0)
  BY <1>1, <1>2, <1>3 DEF HasFile
<1>6. PICK n : n = PageCount(Len(j.snap)) /\ j.pages = n /\ j.page < n
  BY <1>1 DEF RequestOK, PhaseOK, Open
<1>7. PhaseOK(k)
  <2>1. k.page < k.pages \/ k.page = k.pages
    BY <1>1, <1>2, <1>3, <1>6
  <2>2. k.st = IF k.page = k.pages THEN "upload" ELSE "paging"
    BY <1>1, <1>3
  <2>3. k.page # 0
    BY <1>1, <1>2
  <2>4. QED
    BY <1>3, <1>6, <2>1, <2>2, <2>3 DEF PhaseOK, Waiting, Open
<1>8. k.st = "upload" => k.page * Chunk >= Len(k.snap)
  <2>0. Len(j.snap) \in Nat
    BY <1>2
  <2>1. PageCount(Len(j.snap)) * Chunk >= Len(j.snap)
    BY <2>0, PageCountEnough
  <2>2. k.st = "upload" => k.page = PageCount(Len(j.snap))
    BY <1>1, <1>6
  <2>3. QED
    BY <1>3, <2>1, <2>2
<1>9. SilentOK(k, mishaps) /\ ListedOK(j, listing) /\ ListedOK(k, listing)
  BY <1>1, <1>3 DEF RequestOK, SilentOK, ListedOK
<1>10. SentExact(k) /\ SentCovers(k) /\ SentStays(k)
  BY <1>1, Unsent DEF RequestOK
<1>11. k.page * Chunk \in Nat
  <2>1. PICK p \in Nat : p = j.page + 1
    BY <1>2
  <2>2. p * Chunk \in Nat
    BY SizeAssumption DEF SizeAssumption
  <2>3. QED
    BY <1>1, <2>1, <2>2
<1>12. k.st \in {"paging", "upload"} /\ k.page > 0 /\ (j.page > 0 => j.spoil = k.spoil)
  BY <1>1, <1>2
<1>13. QED
  BY <1>1, <1>2, <1>3, <1>4, <1>5, <1>7, <1>8, <1>9, <1>10, <1>11, <1>12

\* Every order that was counted and is still to be found in the pages read
\* has been written.
LEMMA PageCovers ==
  ASSUME TInv, NEW r \in Req, OfRequest(r), Pages(r, job[r], job'[r]), job[r].kind # "consolidated",
         job'[r].spoil = {}, NEW d, NEW e,
         job[r].page > 0 => d = disk[job[r].kind],
         job[r].page > 0 => Range(Written(job[r], d)) \subseteq Range(Written(job'[r], e)),
         Range(PageOf(job[r].page)) \subseteq Range(Written(job'[r], e))
  PROVE  CoveredOK(job'[r], e, listing)
<1> DEFINE j == job[r]
           k == job'[r]
<1>1. /\ j.page \in Nat /\ k.page = j.page + 1 /\ k.st \in {"paging", "upload"}
      /\ j.snap \in Seq(Order) /\ j.added \in Nat /\ j.st = "paging"
      /\ k.kind = j.kind /\ k.snap = j.snap /\ k.added = j.added
      /\ j.spoil = {} /\ ListedOK(j, listing)
      /\ k.st = "upload" => k.page * Chunk >= Len(k.snap)
      /\ k.page * Chunk \in Nat /\ listing \in Seq(Order)
  BY PagePhase DEF Pages
<1>2. PICK a \in Nat : a = j.page * Chunk
  BY <1>1, NextPage
<1>3. k.page * Chunk = a + Chunk /\ Chunk \in Nat \ {0}
  BY <1>1, <1>2, NextPage, SizeAssumption DEF SizeAssumption
<1>4. ASSUME NEW i \in 1 .. Len(listing), i <= k.page * Chunk, listing[i] \in Range(j.snap)
      PROVE  listing[i] \in Range(Written(k, e))
  <2>1. CASE i <= a
    <3>1. j.page > 0
      BY <1>1, <1>2, <1>3, <2>1
    <3>2. CoveredOK(j, d, listing)
      BY <3>1 DEF OfRequest, RequestOK
    <3>3. listing[i] \in Range(Written(j, d))
      BY <1>1, <1>2, <1>4, <2>1, <3>1, <3>2 DEF CoveredOK, Open
    <3>4. QED
      BY <3>1, <3>3
  <2>2. CASE i > a
    <3>1. PICK n \in Nat : n = Len(listing)
      BY <1>1
    <3>0. a + Chunk \in Nat
      BY <1>3
    <3>2. PICK b \in Nat : b = IF a + Chunk <= n THEN a + Chunk ELSE n
      BY <3>0
    <3>3. PageOf(j.page) = SubSeq(listing, a + 1, b)
      BY <1>1, <1>2, <1>3, <3>1, <3>2 DEF PageOf
    <3>4. \A p \in a + 1 .. b : listing[p] \in Order
      BY <1>1, <3>1, <3>2
    <3>5. i - a \in 1 .. b - (a + 1) + 1 /\ (a + 1) + (i - a) - 1 = i
      BY <1>3, <1>4, <2>2, <3>1, <3>2
    <3>6. /\ PageOf(j.page) \in Seq(Order)
          /\ PageOf(j.page)[i - a] = listing[(a + 1) + (i - a) - 1]
          /\ Len(PageOf(j.page)) = b - (a + 1) + 1
      BY <3>3, <3>4, <3>5, SubSeqProperties
    <3>7. listing[i] \in Range(PageOf(j.page))
      BY <3>5, <3>6, RangeIs
    <3>8. QED
      BY <3>7
  <2>3. QED
    BY <1>2, <2>1, <2>2
<1>5. ASSUME k.st = "upload"
      PROVE  Cardinality(Missing(k.snap, Written(k, e))) <= k.added
  <2>1. Len(listing) = Len(j.snap) + j.added /\ Range(j.snap) \subseteq Range(listing)
    BY <1>1 DEF ListedOK
  <2>2. QED
    BY <1>1, <1>4, <1>5, <2>1, MissingBound
<1>6. QED
  BY <1>1, <1>4, <1>5 DEF CoveredOK

LEMMA CsvOK ==
  ASSUME TInv, NEW r \in Req, OfRequest(r),
         WritesCsv(r, job[r], job'[r], disk[job[r].kind], disk'[job[r].kind])
  PROVE  After(r)
<1> DEFINE j == job[r]
           k == job'[r]
           d == disk[j.kind]
           e == disk'[j.kind]
<1>0. j.kind = "csv" /\ j.kind # "consolidated" /\ Pages(r, j, k) /\ RequestOK(j, d, listing, mishaps) /\ k.rows = j.rows
  BY DEF WritesCsv, OfRequest
<1>1. /\ j.page \in Nat /\ k.page = j.page + 1 /\ k.page > 0 /\ k.st \in {"paging", "upload"}
      /\ j.snap \in Seq(Order) /\ j.added \in Nat
      /\ k.kind = j.kind /\ k.snap = j.snap /\ k.added = j.added
      /\ k.spoil = {} => j.spoil = {} /\ (j.page = 0 /\ j.kind # "xlsx" => d = NoFile)
      /\ (HasFile(j) <=> j.page > 0)
      /\ PhaseOK(k) /\ SilentOK(k, mishaps') /\ ListedOK(j, listing) /\ ListedOK(k, listing)
      /\ SentExact(k) /\ SentCovers(k) /\ SentStays(k)
      /\ listing \in Seq(Order) /\ j.st = "paging"
  <2>1. mishaps' = mishaps /\ j.st = "paging"
    BY <1>0 DEF Pages
  <2>2. QED
    BY <1>0, <2>1, PagePhase
<1>2. d \in File \union {NoFile}
  BY DEF TInv, JobTyped
<1>3. PICK page \in Seq(Order) : page = PageOf(j.page)
  BY <1>1, PageLength
<1>4. page \in Seq(Line) /\ <<Header>> \in Seq(Line)
  BY LinesOfOrders
<1>5. PICK lines : lines = IF j.page > 0 THEN page ELSE <<Header>> \o page
  OBVIOUS
<1>6. lines \in Seq(Line) /\ Range(page) \subseteq Range(lines)
  <2>1. PICK h \in Seq(Line) : h = <<Header>>
    BY <1>4
  <2>2. h \o page \in Seq(Line) /\ Range(h \o page) = Range(h) \union Range(page)
    BY <1>4, ConcatProperties, RangeConcatenation
  <2>3. QED
    BY <1>4, <1>5, <2>1, <2>2
<1>7. e # NoFile /\ e.rows = IF d = NoFile THEN lines ELSE d.rows \o lines
  <2>1. e = AppendTo(d, r, lines)
    BY <1>3, <1>5 DEF WritesCsv
  <2>2. PICK x \in File \union {NoFile} : x = d
    BY <1>2
  <2>3. /\ AppendTo(x, r, lines) # NoFile
        /\ AppendTo(x, r, lines).rows = IF x = NoFile THEN lines ELSE x.rows \o lines
    BY <1>6, AppendIs
  <2>4. QED
    BY <2>1, <2>2, <2>3
<1>8. ASSUME d # NoFile
      PROVE  d.rows \in Seq(Line) /\ Range(e.rows) = Range(d.rows) \union Range(lines)
  <2>1. d.rows \in Seq(Line)
    BY <1>2, <1>8 DEF File
  <2>2. QED
    BY <1>6, <1>7, <1>8, <2>1, RangeConcatenation
<1>9. ASSUME k.spoil = {}, j.page > 0
      PROVE  d # NoFile /\ j.spoil = {}
  BY <1>0, <1>1, <1>9 DEF RequestOK, OwnedOK
<1>10. OwnedOK(k, e) /\ CommittedOK(k, e)
  BY <1>0, <1>1, <1>7 DEF OwnedOK, CommittedOK
<1>11. ExactOK(k, e)
  <2>1. ASSUME k.spoil = {}, k.added = 0
        PROVE  e.rows = <<Header>> \o Upto(k.snap, k.page * Chunk)
    <3>1. k.snap = listing
      BY <1>1, <2>1 DEF ListedOK
    <3>2. Upto(listing, j.page * Chunk) \o page = Upto(listing, k.page * Chunk)
      BY <1>1, <1>3, NextPage
    <3>3. Upto(listing, j.page * Chunk) \in Seq(Order)
      BY <1>1, NextPage, UptoIs
    <3>4. CASE j.page = 0
      <4>0. d = NoFile /\ lines = <<Header>> \o page
        BY <1>0, <1>1, <1>5, <2>1, <3>4
      <4>1. e.rows = <<Header>> \o page
        BY <1>7, <4>0
      <4>2. j.page * Chunk = 0
        BY <3>4, SizeAssumption DEF SizeAssumption
      <4>3. Upto(listing, j.page * Chunk) = <<>>
        BY <1>1, <4>2, UptoIs
      <4>4. <<>> \o page = page
        BY ConcatEmptySeq
      <4>5. QED
        BY <3>1, <3>2, <4>1, <4>3, <4>4
    <3>5. CASE j.page > 0
      <4>1. d # NoFile /\ j.spoil = {}
        BY <1>9, <2>1, <3>5
      <4>2. d.rows = <<Header>> \o Upto(listing, j.page * Chunk)
        BY <1>0, <1>1, <2>1, <3>1, <3>5, <4>1 DEF RequestOK, ExactOK, Open
      <4>3. e.rows = d.rows \o page
        BY <1>5, <1>7, <3>5, <4>1
      <4>4. Upto(listing, j.page * Chunk) \in Seq(Line)
        BY <3>3, LinesOfOrders
      <4>5. PICK h \in Seq(Line) : h = <<Header>>
        BY <1>4
      <4>6. PICK u \in Seq(Line) : u = Upto(listing, j.page * Chunk)
        BY <4>4
      <4>7. (h \o u) \o page = h \o (u \o page)
        BY <1>4, ConcatAssociative
      <4>8. QED
        BY <3>1, <3>2, <4>2, <4>3, <4>5, <4>6, <4>7
    <3>6. QED
      BY <1>1, <3>4, <3>5
  <2>2. QED
    BY <1>0, <1>1, <2>1 DEF ExactOK
<1>12. CoveredOK(k, e, listing)
  <2>1. ASSUME k.spoil = {}
        PROVE  CoveredOK(k, e, listing)
    <3>1. Written(j, d) = d.rows /\ Written(k, e) = e.rows
      BY <1>0, <1>1 DEF Written
    <3>2. Range(page) \subseteq Range(e.rows)
      BY <1>6, <1>7, <1>8
    <3>3. j.page > 0 => Range(d.rows) \subseteq Range(e.rows)
      BY <1>8, <1>9, <2>1
    <3>4. QED
      BY <1>0, <1>3, <2>1, <3>1, <3>2, <3>3, PageCovers
  <2>2. QED
    BY <2>1 DEF CoveredOK
<1>13. QED
  BY <1>1, <1>10, <1>11, <1>12 DEF After, RequestOK

LEMMA XlsxOK ==
  ASSUME TInv, NEW r \in Req, OfRequest(r), Shaped(job'[r]),
         WritesXlsx(r, job[r], job'[r], disk[job[r].kind], disk'[job[r].kind])
  PROVE  After(r)
<1> DEFINE j == job[r]
           k == job'[r]
           d == disk[j.kind]
           e == disk'[j.kind]
<1>0. j.kind = "xlsx" /\ j.kind # "consolidated" /\ Pages(r, j, k) /\ RequestOK(j, d, listing, mishaps)
  BY DEF WritesXlsx, OfRequest
<1>1. /\ j.page \in Nat /\ k.page = j.page + 1 /\ k.page > 0 /\ k.st \in {"paging", "upload"}
      /\ j.snap \in Seq(Order) /\ j.added \in Nat /\ j.rows \in Seq(Order)
      /\ k.kind = j.kind /\ k.snap = j.snap /\ k.added = j.added
      /\ k.spoil = {} => j.spoil = {}
      /\ (HasFile(j) <=> j.page > 0)
      /\ j.page > 0 => j.spoil = k.spoil
      /\ PhaseOK(k) /\ SilentOK(k, mishaps') /\ ListedOK(j, listing) /\ ListedOK(k, listing)
      /\ SentExact(k) /\ SentCovers(k) /\ SentStays(k)
      /\ listing \in Seq(Order) /\ j.st = "paging"
  <2>1. mishaps' = mishaps /\ j.st = "paging"
    BY <1>0 DEF Pages
  <2>2. QED
    BY <1>0, <2>1, PagePhase
<1>2. d \in File \union {NoFile}
  BY DEF TInv, JobTyped
<1>3. PICK page \in Seq(Order) : page = PageOf(j.page)
  BY <1>1, PageLength
<1>4. k.rows = j.rows \o page /\ k.rows \in Seq(Order)
  BY <1>1, <1>3, ConcatProperties DEF WritesXlsx
<1>5. PICK file \in File \union {NoFile} :
        /\ ~(j.page > 0) => file # NoFile
        /\ j.page > 0 => file = d
        /\ (e = NoFile <=> file = NoFile)
        /\ e # NoFile => e.by = file.by
        /\ k.fd = IF j.page = 0 THEN file.by ELSE j.fd
        /\ j.page + 1 = j.pages /\ e # NoFile /\ e.by = k.fd => e.rows = k.rows
  <2>1. PICK file \in File \union {NoFile} : file = XlsxFile(r, j, d)
    BY <1>2, XlsxFileIs
  <2>2. (~(j.page > 0) => file # NoFile) /\ (j.page > 0 => file = d)
    BY <1>2, <2>1, XlsxFileIs
  <2>3. /\ k.fd = IF j.page = 0 THEN file.by ELSE j.fd
        /\ e = IF j.page + 1 = j.pages /\ file # NoFile /\ file.by = k.fd
               THEN [file EXCEPT !.rows = k.rows] ELSE file
    BY <2>1 DEF WritesXlsx, XlsxFile
  <2>4. k.rows \in Seq(Line)
    BY <1>4, LinesOfOrders
  <2>5. CASE j.page + 1 = j.pages /\ file # NoFile /\ file.by = k.fd
    <3>1. e = [file EXCEPT !.rows = k.rows] /\ file \in File
      BY <2>3, <2>5
    <3>2. e # NoFile /\ e.rows = k.rows /\ e.by = file.by
      BY <2>4, <3>1, FileOf
    <3>3. QED
      BY <2>2, <2>3, <2>5, <3>2
  <2>6. CASE ~(j.page + 1 = j.pages /\ file # NoFile /\ file.by = k.fd)
    BY <2>2, <2>3, <2>6
  <2>7. QED
    BY <2>5, <2>6
<1>6. OwnedOK(k, e)
  <2>1. CASE j.page = 0
    BY <1>1, <1>5, <2>1 DEF OwnedOK
  <2>2. CASE j.page > 0
    BY <1>0, <1>1, <1>5, <2>2 DEF RequestOK, OwnedOK
  <2>3. QED
    BY <1>1, <2>1, <2>2
<1>7. CommittedOK(k, e)
  <2>1. k.st # "paging" => j.page + 1 = j.pages
    BY <1>0 DEF Pages
  <2>2. QED
    BY <1>1, <1>5, <1>6, <2>1 DEF OwnedOK, CommittedOK
<1>8. ExactOK(k, e)
  <2>1. ASSUME k.spoil = {}, k.added = 0
        PROVE  k.rows = Upto(k.snap, k.page * Chunk)
    <3>1. k.snap = listing
      BY <1>1, <2>1 DEF ListedOK
    <3>2. Upto(listing, j.page * Chunk) \o page = Upto(listing, k.page * Chunk)
      BY <1>1, <1>3, NextPage
    <3>3. j.rows = Upto(listing, j.page * Chunk)
      BY <1>0, <1>1, <2>1, <3>1 DEF RequestOK, ExactOK, Open
    <3>4. QED
      BY <1>4, <3>1, <3>2, <3>3
  <2>2. QED
    BY <1>0, <1>1, <2>1 DEF ExactOK
<1>9. CoveredOK(k, e, listing)
  <2>1. ASSUME k.spoil = {}
        PROVE  CoveredOK(k, e, listing)
    <3>1. Written(j, d) = j.rows /\ Written(k, e) = k.rows
      BY <1>0, <1>1 DEF Written
    <3>2. Range(k.rows) = Range(j.rows) \union Range(page)
      BY <1>1, <1>4, RangeConcatenation
    <3>3. QED
      BY <1>0, <1>3, <2>1, <3>1, <3>2, PageCovers
  <2>2. QED
    BY <2>1 DEF CoveredOK
<1>10. QED
  BY <1>1, <1>6, <1>7, <1>8, <1>9 DEF After, RequestOK

\* Concatenation, with the parts of a nested one kept apart.
Cat(a, b) == a \o b

LEMMA CatIs ==
  ASSUME NEW a \in Seq(Line), NEW b \in Seq(Line)
  PROVE  Cat(a, b) \in Seq(Line) /\ Cat(<<>>, a) = a /\ Cat(a, <<>>) = a
BY ConcatProperties, ConcatEmptySeq DEF Cat

LEMMA CatAssociative ==
  ASSUME NEW a \in Seq(Line), NEW b \in Seq(Line), NEW c \in Seq(Line)
  PROVE  Cat(Cat(a, b), c) = Cat(a, Cat(b, c))
BY ConcatAssociative DEF Cat

LEMMA StreamExact ==
  ASSUME TInv, NEW r \in Req, OfRequest(r),
         WritesStream(r, job[r], job'[r], disk[job[r].kind], disk'[job[r].kind])
  PROVE  ExactOK(job'[r], disk'[job[r].kind])
<1> DEFINE j == job[r]
           k == job'[r]
           d == disk[j.kind]
           e == disk'[j.kind]
<1>1. SUFFICES ASSUME k.spoil = {}, k.added = 0
               PROVE  IF k.st = "paging"
                      THEN /\ k.count = Len(Upto(k.snap, k.page * Chunk)) /\ k.count < ReportLimit
                           /\ e.rows = (IF k.page = 0 THEN <<>> ELSE <<Header>>)
                                         \o Upto(k.snap, k.page * Chunk)
                           /\ k.page > 0 => k.snap # <<>>
                      ELSE e.rows = Consolidated(k.snap)
  BY DEF ExactOK, WritesStream, Carries
<1>2. PICK page : page = PageOf(j.page)
  OBVIOUS
<1> DEFINE atLimit == page # <<>> /\ j.count + Len(page) >= ReportLimit
<1>3. /\ j.st = "paging" /\ j.kind = "consolidated"
      /\ k.kind = j.kind /\ k.snap = j.snap /\ k.added = j.added /\ k.spoil = j.spoil
      /\ k.page = j.page + 1 /\ k.count = j.count + Len(page)
      /\ k.st = IF page = <<>> \/ atLimit THEN "upload" ELSE "paging"
  BY <1>2 DEF WritesStream, Carries
<1>4. /\ RequestOK(j, d, listing, mishaps) /\ j.page \in Nat /\ listing \in Seq(Order)
      /\ d \in File \union {NoFile}
  BY DEF OfRequest, TInv, IInv, JobTyped, Shaped
<1>5. d # NoFile /\ d.by = j.fd /\ j.snap = listing /\ Len(listing) \in Nat
  BY <1>1, <1>3, <1>4 DEF RequestOK, OwnedOK, ListedOK, HasFile
<1>6. e.rows = d.rows \o LinesOf(j, page)
  BY <1>2, <1>4, <1>5, StreamWritten
<1>7. /\ j.count = Len(Upto(listing, j.page * Chunk)) /\ j.count < ReportLimit
      /\ d.rows = (IF j.page = 0 THEN <<>> ELSE <<Header>>) \o Upto(listing, j.page * Chunk)
      /\ j.page > 0 => listing # <<>>
  BY <1>1, <1>3, <1>4, <1>5 DEF RequestOK, ExactOK, Open
<1>8. /\ Upto(listing, j.page * Chunk) \o page = Upto(listing, k.page * Chunk)
      /\ page = <<>> <=> j.page * Chunk >= Len(listing)
      /\ j.page * Chunk \in Nat /\ (j.page + 1) * Chunk = j.page * Chunk + Chunk
      /\ page \in Seq(Order)
  BY <1>2, <1>3, <1>4, NextPage, PageLength
<1>9. PICK a \in Nat, b \in Nat : a = j.page * Chunk /\ b = (j.page + 1) * Chunk /\ b = a + Chunk
                                  /\ Chunk \in Nat \ {0} /\ ReportLimit \in Nat
  <2>1. Chunk \in Nat \ {0} /\ ReportLimit \in Nat
    BY SizeAssumption DEF SizeAssumption
  <2>2. PICK a \in Nat : a = j.page * Chunk
    BY <1>8
  <2>3. PICK b \in Nat : b = a + Chunk
    BY <2>1
  <2>4. (j.page + 1) * Chunk = b
    BY <1>8, <2>2, <2>3
  <2>5. QED
    BY <2>1, <2>2, <2>3, <2>4
<1>10. PICK U \in Seq(Order) : U = Upto(listing, a) /\ Len(U) = IF a <= Len(listing) THEN a ELSE Len(listing)
  BY <1>4, UptoIs
<1>11. /\ Upto(listing, b) \in Seq(Order)
       /\ Len(Upto(listing, b)) = IF b <= Len(listing) THEN b ELSE Len(listing)
       /\ b >= Len(listing) => Upto(listing, b) = listing
       /\ a >= Len(listing) => U = listing
       /\ U \o page = Upto(listing, b) /\ k.page * Chunk = b
  BY <1>3, <1>4, <1>8, <1>9, <1>10, UptoIs
<1>12. Len(page) \in Nat /\ Len(Upto(listing, b)) = Len(U) + Len(page) /\ Len(U) \in Nat
  <2>1. Len(U \o page) = Len(U) + Len(page)
    BY <1>8, <1>10, ConcatProperties
  <2>2. Len(page) \in Nat /\ Len(U) \in Nat
    BY <1>8
  <2>3. QED
    BY <1>11, <2>1, <2>2
<1>13. PICK h \in Seq(Line), t \in Seq(Line) :
         h = <<Header>> /\ t = IF atLimit THEN <<LimitLine>> ELSE <<>>
  BY LinesOfOrders, EmptySeq
<1>14. PICK lines \in Seq(Line), u \in Seq(Line) : lines = page /\ u = U
  BY <1>8, <1>10, LinesOfOrders
<1>15. CASE page = <<>>
  <2>1. LinesOf(j, page) = <<>>
    <3>1. <<>> \o <<>> = <<>>
      BY ConcatEmptySeq
    <3>2. QED
      BY <1>15, <3>1 DEF LinesOf
  <2>2. e.rows = d.rows
    <3>1. d.rows \in Seq(Line)
      BY <1>4, <1>5 DEF File
    <3>2. QED
      BY <1>6, <2>1, <3>1, ConcatEmptySeq
  <2>3. U = listing /\ k.st = "upload" /\ Len(listing) < ReportLimit
    BY <1>3, <1>7, <1>8, <1>9, <1>10, <1>11, <1>15
  <2>4. CASE listing = <<>>
    <3>1. j.page = 0
      BY <1>4, <1>7, <2>4
    <3>2. d.rows = <<>>
      <4>1. d.rows = <<>> \o <<>>
        BY <1>7, <1>9, <1>10, <2>3, <2>4, <3>1
      <4>2. QED
        BY <4>1, ConcatEmptySeq
    <3>3. QED
      BY <1>3, <1>5, <2>2, <2>3, <2>4, <3>2 DEF Consolidated
  <2>5. CASE listing # <<>>
    <3>1. j.page # 0
      <4>1. Len(listing) > 0
        BY <1>4, <2>5, EmptySeq
      <4>2. a # 0
        BY <1>8, <1>9, <1>15, <4>1, <1>5
      <4>3. QED
        BY <1>9, <4>2
    <3>2. d.rows = <<Header>> \o listing
      BY <1>7, <1>9, <1>10, <2>3, <3>1
    <3>3. QED
      BY <1>3, <1>5, <2>2, <2>3, <2>5, <3>2 DEF Consolidated
  <2>6. QED
    BY <2>4, <2>5
<1>16. CASE page # <<>>
  <2>1. a < Len(listing) /\ j.count = a /\ a < ReportLimit
    <3>1. ~(a >= Len(listing))
      BY <1>8, <1>9, <1>16
    <3>2. a < Len(listing)
      BY <1>5, <3>1
    <3>3. j.count = Len(U) /\ j.count < ReportLimit
      BY <1>7, <1>9, <1>10
    <3>4. Len(U) = a
      BY <1>5, <1>10, <3>2
    <3>5. QED
      BY <3>2, <3>3, <3>4
  <2>2. listing # <<>> /\ k.page # 0 /\ k.page > 0
    BY <1>3, <1>4, <1>5, <2>1
  <2>3. k.count = Len(Upto(listing, b))
    BY <1>3, <1>12, <1>10, <2>1
  <2>4. e.rows = Cat(Cat(h, Cat(u, lines)), t)
    <3>0. j.page = 0 => u = <<>>
      <4>1. j.page = 0 => a = 0
        BY <1>9
      <4>2. QED
        BY <1>4, <1>10, <1>14, <4>1, UptoIs
    <3>1. d.rows = (IF j.page = 0 THEN <<>> ELSE h) \o u
      BY <1>7, <1>9, <1>10, <1>13, <1>14
    <3>2. LinesOf(j, page) = (IF j.page = 0 THEN h ELSE <<>>) \o lines \o t
      BY <1>13, <1>14, <1>16 DEF LinesOf
    <3>3. e.rows = d.rows \o ((IF j.page = 0 THEN h ELSE <<>>) \o lines \o t)
      BY <1>6, <3>2
    <3>4. PICK p, x, y : p = j.page /\ x = d.rows /\ y = e.rows
      OBVIOUS
    <3>5. /\ p = 0 => u = <<>>
          /\ x = Cat(IF p = 0 THEN <<>> ELSE h, u)
          /\ y = Cat(x, Cat(Cat(IF p = 0 THEN h ELSE <<>>, lines), t))
      BY <3>0, <3>1, <3>3, <3>4 DEF Cat
    <3>6. y = Cat(Cat(h, Cat(u, lines)), t)
      <4>0. <<>> \in Seq(Line)
        OBVIOUS
      <4>1. CASE p = 0
        BY <3>5, <4>0, <4>1, CatIs
      <4>2. CASE p # 0
        BY <3>5, <4>0, <4>2, CatIs, CatAssociative
      <4>3. QED
        BY <4>1, <4>2
    <3>7. QED
      BY <3>4, <3>6
  <2>5. e.rows = (<<Header>> \o Upto(listing, b)) \o t
    BY <1>11, <1>13, <1>14, <2>4 DEF Cat
  <2>6. CASE atLimit
    <3>1. k.st = "upload" /\ t = <<LimitLine>>
      BY <1>3, <1>13, <2>6
    <3>2. Len(Upto(listing, b)) >= ReportLimit
      <4>1. j.count + Len(page) >= ReportLimit
        BY <2>6
      <4>2. k.count >= ReportLimit
        BY <1>3, <4>1
      <4>3. QED
        BY <2>3, <4>2
    <3>3. ReportLimit <= b /\ ~(Len(listing) < ReportLimit)
      <4>1. PICK m \in Nat, n \in Nat : m = Len(Upto(listing, b)) /\ n = Len(listing)
        BY <1>5, <1>11
      <4>2. m = (IF b <= n THEN b ELSE n) /\ m >= ReportLimit /\ b \in Nat /\ ReportLimit \in Nat
        BY <1>9, <1>11, <3>2, <4>1
      <4>3. QED
        BY <4>1, <4>2
    <3>4. PageCount(ReportLimit) = j.page + 1
      BY <1>4, <1>9, <2>1, <3>3, PageCountLeast
    <3>5. Consolidated(listing) = <<Header>> \o Upto(listing, b) \o <<LimitLine>>
      BY <1>9, <2>2, <3>3, <3>4 DEF Consolidated, Upto
    <3>6. QED
      BY <1>3, <1>5, <2>5, <3>1, <3>5
  <2>7. CASE ~atLimit
    <3>1. k.st = "paging" /\ t = <<>>
      BY <1>3, <1>13, <1>16, <2>7
    <3>2. k.count < ReportLimit
      <4>1. ~(j.count + Len(page) >= ReportLimit)
        BY <1>16, <2>7
      <4>2. k.count = a + Len(page) /\ ~(a + Len(page) >= ReportLimit)
        BY <1>3, <2>1, <4>1
      <4>3. a \in Nat /\ ReportLimit \in Nat
        BY <1>9
      <4>4. QED
        BY <1>12, <4>2, <4>3
    <3>3. e.rows = <<Header>> \o Upto(listing, b)
      <4>1. Upto(listing, b) \in Seq(Line)
        BY <1>11, LinesOfOrders
      <4>2. PICK v \in Seq(Line) : v = Upto(listing, b)
        BY <4>1
      <4>3. h \o v \in Seq(Line)
        BY ConcatProperties
      <4>4. (h \o v) \o <<>> = h \o v
        BY <4>3, ConcatEmptySeq
      <4>5. QED
        BY <1>13, <2>5, <3>1, <4>2, <4>4
    <3>4. QED
      BY <1>3, <1>5, <1>11, <2>2, <2>3, <3>1, <3>2, <3>3
  <2>8. QED
    BY <2>6, <2>7
<1>17. QED
  BY <1>15, <1>16

LEMMA StreamOK ==
  ASSUME TInv, NEW r \in Req, OfRequest(r),
         WritesStream(r, job[r], job'[r], disk[job[r].kind], disk'[job[r].kind])
  PROVE  After(r)
<1> DEFINE j == job[r]
           k == job'[r]
           d == disk[j.kind]
           e == disk'[j.kind]
<1>1. /\ j.st = "paging" /\ j.kind = "consolidated" /\ Carries(j, k) /\ k.st \in {"upload", "paging"}
      /\ k.kind = j.kind /\ k.snap = j.snap /\ k.added = j.added /\ k.spoil = j.spoil
      /\ k.page = j.page + 1 /\ k.fd = j.fd /\ k.rows = j.rows /\ k.sent = j.sent
      /\ mishaps' = mishaps
  BY DEF WritesStream, Carries, OfRequest
<1>2. /\ RequestOK(j, d, listing, mishaps) /\ j.page \in Nat /\ d \in File \union {NoFile}
  BY DEF OfRequest, TInv, JobTyped, Shaped
<1>3. PhaseOK(k)
  BY <1>1, <1>2 DEF PhaseOK, Waiting
<1>4. OwnedOK(k, e)
  <2>1. (e = NoFile <=> d = NoFile) /\ (e # NoFile => e.by = d.by)
    BY <1>2, StreamWritten
  <2>2. QED
    BY <1>1, <1>2, <2>1 DEF RequestOK, OwnedOK, HasFile
<1>5. CommittedOK(k, e) /\ SilentOK(k, mishaps) /\ CoveredOK(k, e, listing)
  BY <1>1 DEF CommittedOK, SilentOK, CoveredOK
<1>6. ListedOK(k, listing)
  BY <1>1, <1>2 DEF RequestOK, ListedOK
<1>7. ExactOK(k, e)
  BY StreamExact
<1>8. SentExact(k) /\ SentCovers(k) /\ SentStays(k)
  BY <1>1, <1>2, Unsent DEF RequestOK
<1>9. QED
  BY <1>1, <1>3, <1>4, <1>5, <1>6, <1>7, <1>8 DEF After, RequestOK

--------------------------------------------------------------------------------
\* Every step

LEMMA TurnOK ==
  ASSUME TInv, NEW r \in Req, OfRequest(r), Shaped(job'[r]), Turn(r)
  PROVE  After(r)
<1> DEFINE j == job[r]
           k == job'[r]
           d == disk[j.kind]
           e == disk'[j.kind]
<1>1. CASE Asks(r, j, k) \/ Counts(r, j, k) \/ Streams(r, j, k, d, e)
  BY <1>1, AsksOK, CountsOK, StreamsOK
<1>2. CASE WritesCsv(r, j, k, d, e) \/ WritesXlsx(r, j, k, d, e) \/ WritesStream(r, j, k, d, e)
  BY <1>2, CsvOK, XlsxOK, StreamOK
<1>3. CASE Uploads(r, j, k, d, e) \/ Tells(r, j, k) \/ Refused(r, j, k)
  BY <1>3, UploadsOK, TellsOK
<1>4. CASE Removes(r, j, k, d, e) \/ Drops(r, j, k)
  BY <1>4, EndsOK
<1>5. QED
  BY <1>1, <1>2, <1>3, <1>4 DEF Turn

\* Why a file is there: a handler has it, or ended without removing it.
Reason(j) == HasFile(j) \/ j.st \in {"failed", "lost"}

\* What a turn does to the file of its request, and to the count of mishaps.
LEMMA TurnFile ==
  ASSUME TInv, NEW r \in Req, Turn(r)
  PROVE  LET j == job[r]
             k == job'[r]
         IN /\ k.kind = j.kind
            /\ HasFile(k) => (HasFile(j) /\ j.spoil \subseteq k.spoil) \/ Meets(r, k)
            /\ disk'[j.kind] # NoFile => Reason(k) \/ (disk[j.kind] # NoFile /\ ~Reason(j))
            /\ mishaps' \in {mishaps, mishaps + 1}
<1> DEFINE j == job[r]
           k == job'[r]
           d == disk[j.kind]
           e == disk'[j.kind]
<1>0. j.page \in Nat /\ (j.st \in Waiting => j.page = 0)
  BY DEF TInv, IInv, JobInv, SizedAt, Shaped
<1>1. CASE Asks(r, j, k) \/ Counts(r, j, k)
  <2>1. j.st \in Waiting /\ k.kind = j.kind /\ k.page = j.page /\ k.kind = j.kind /\ disk' = disk
        /\ mishaps' = mishaps
    BY <1>1 DEF Asks, Counts, Same, Carries, Waiting
  <2>2. ~HasFile(k)
    <3>1. CASE Asks(r, j, k)
      BY <3>1 DEF Asks, HasFile
    <3>2. CASE Counts(r, j, k)
      BY <1>0, <2>1, <3>2 DEF Counts, HasFile
    <3>3. QED
      BY <1>1, <3>1, <3>2
  <2>3. ~Reason(j)
    BY <2>1 DEF Reason, HasFile, Waiting
  <2>4. QED
    BY <2>1, <2>2, <2>3
<1>2. CASE Streams(r, j, k, d, e)
  BY <1>2 DEF Streams, Reason, HasFile
<1>3. CASE WritesCsv(r, j, k, d, e) \/ WritesXlsx(r, j, k, d, e)
  <2>1. Pages(r, j, k)
    BY <1>3 DEF WritesCsv, WritesXlsx
  <2>2. k.kind = j.kind /\ k.page > 0 /\ k.st \in {"paging", "upload"} /\ j.st = "paging"
        /\ mishaps' = mishaps
    BY <1>0, <2>1 DEF Pages, Carries
  <2>3. Meets(r, k) \/ (HasFile(j) /\ k.spoil = j.spoil)
    BY <1>0, <2>1 DEF Pages, HasFile
  <2>4. HasFile(k)
    BY <2>2 DEF HasFile
  <2>5. QED
    BY <2>2, <2>3, <2>4 DEF Reason
<1>4. CASE WritesStream(r, j, k, d, e)
  BY <1>4 DEF WritesStream, Carries, Reason, HasFile
<1>5. CASE Uploads(r, j, k, d, e) \/ Tells(r, j, k) \/ Refused(r, j, k)
  <2>1. /\ k.kind = j.kind /\ k.page = j.page /\ k.spoil = j.spoil /\ disk' = disk
        /\ mishaps' \in {mishaps, mishaps + 1}
        /\ j.st \in {"upload", "notify"} /\ k.st \in {"notify", "cleanup"}
    BY <1>5 DEF Uploads, Tells, Refused, Same, Carries
  <2>2. HasFile(k) <=> HasFile(j)
    BY <2>1 DEF HasFile
  <2>3. QED
    BY <2>1, <2>2 DEF Reason
<1>6. CASE Removes(r, j, k, d, e)
  BY <1>6 DEF Removes, Ends, Reason, HasFile
<1>7. CASE Drops(r, j, k)
  BY <1>7 DEF Drops, Ends, Reason, HasFile
<1>8. QED
  BY <1>1, <1>2, <1>3, <1>4, <1>5, <1>6, <1>7 DEF Turn

LEMMA ApartHas ==
  ASSUME NEW j, NEW k, Apart(j, k) \/ ApartFromInserts(j, k)
  PROVE  /\ k.kind = j.kind /\ (HasFile(k) <=> HasFile(j)) /\ (Reason(k) <=> Reason(j))
         /\ j.spoil \subseteq k.spoil
BY DEF Apart, ApartFromInserts, HasFile, Reason

\* The other requests, in a step of r.
LEMMA OthersApart ==
  ASSUME NEW r \in Req, Others(r), NEW q \in Req \ {r}
  PROVE  Apart(job[q], job'[q])
BY SameIsApart DEF Others, Marked

LEMMA DropsHas ==
  ASSUME NEW r \in Req, Drops(r, job[r], job'[r])
  PROVE  job'[r].kind = job[r].kind /\ ~HasFile(job'[r]) /\ Reason(job'[r])
BY DEF Drops, Ends, HasFile, Reason

LEMMA StoppedHas ==
  ASSUME Stopped, NEW q \in Req
  PROVE  job'[q].kind = job[q].kind /\ ~HasFile(job'[q]) /\ (Reason(job[q]) => Reason(job'[q]))
<1>1. CASE Drops(q, job[q], job'[q])
  BY <1>1, DropsHas
<1>2. CASE job'[q] = job[q] /\ job[q].st \notin Taken
  BY <1>2 DEF HasFile, Taken
<1>3. QED
  BY <1>1, <1>2 DEF Stopped

LEMMA ExclusiveNext ==
  ASSUME TInv, Exclusive, [Next]_vars
  PROVE  Exclusive'
<1>1. SUFFICES ASSUME NEW q \in Req, NEW r \in Req, q # r, job'[q].kind = job'[r].kind,
                      HasFile(job'[q]), HasFile(job'[r])
               PROVE  "shared" \in job'[q].spoil
  BY DEF Exclusive
<1>2. ASSUME Apart(job[q], job'[q]) \/ ApartFromInserts(job[q], job'[q]),
             Apart(job[r], job'[r]) \/ ApartFromInserts(job[r], job'[r])
      PROVE  "shared" \in job'[q].spoil
  <2>1. job[q].kind = job[r].kind /\ HasFile(job[q]) /\ HasFile(job[r]) /\ job[q].spoil \subseteq job'[q].spoil
    BY <1>1, <1>2, ApartHas
  <2>2. QED
    BY <1>1, <2>1 DEF Exclusive
<1>3. ASSUME NEW s \in Req, Turn(s), Others(s)
      PROVE  "shared" \in job'[q].spoil
  <2>1. CASE q # s /\ r # s
    <3>1. Apart(job[q], job'[q]) /\ Apart(job[r], job'[r])
      BY <1>3, <2>1, OthersApart
    <3>2. QED
      BY <1>2, <3>1
  <2>2. CASE q = s
    <3>1. Apart(job[r], job'[r])
      BY <1>1, <1>3, <2>2, OthersApart
    <3>2. HasFile(job[r]) /\ job'[r].kind = job[r].kind /\ job'[q].kind = job[q].kind
      BY <1>1, <1>3, <2>2, <3>1, ApartHas, TurnFile
    <3>3. CASE HasFile(job[q]) /\ job[q].spoil \subseteq job'[q].spoil
      BY <1>1, <3>2, <3>3 DEF Exclusive
    <3>4. CASE Meets(q, job'[q])
      <4>1. r \in Sharing(q)
        BY <1>1, <3>2 DEF Sharing
      <4>2. "shared" \in SpoilOf(q)
        BY <4>1 DEF SpoilOf
      <4>3. QED
        BY <3>4, <4>2 DEF Meets
    <3>5. QED
      BY <1>1, <1>3, <2>2, <3>3, <3>4, TurnFile
  <2>3. CASE r = s
    <3>1. Apart(job[q], job'[q])
      BY <1>1, <1>3, <2>3, OthersApart
    <3>2. HasFile(job[q]) /\ job'[r].kind = job[r].kind /\ job'[q].kind = job[q].kind
          /\ job[q].spoil \subseteq job'[q].spoil
      BY <1>1, <1>3, <2>3, <3>1, ApartHas, TurnFile
    <3>3. CASE HasFile(job[r])
      BY <1>1, <3>2, <3>3 DEF Exclusive
    <3>4. CASE Meets(r, job'[r])
      <4>1. q \in Sharing(r)
        BY <1>1, <3>2 DEF Sharing
      <4>2. QED
        BY <3>4, <4>1 DEF Meets
    <3>5. QED
      BY <1>1, <1>3, <2>3, <3>3, <3>4, TurnFile
  <2>4. QED
    BY <2>1, <2>2, <2>3
<1>4. ASSUME NEW o \in Late, Stored(o)
      PROVE  "shared" \in job'[q].spoil
  BY <1>2, <1>4 DEF Stored
<1>5. CASE Stopped
  BY <1>1, <1>5, StoppedHas
<1>6. CASE Swept
  BY <1>2, <1>6 DEF Swept
<1>7. QED
  BY <1>3, <1>4, <1>5, <1>6, StepKinds

LEMMA RequestNext ==
  ASSUME RInv, [Next]_vars, TInv', NEW q \in Req
  PROVE  RequestOK(job'[q], disk'[job'[q].kind], listing', mishaps')
<1>0. /\ TInv /\ Exclusive /\ RequestOK(job[q], disk[job[q].kind], listing, mishaps)
      /\ mishaps \in Nat /\ mishaps' \in Nat /\ job[q].page \in Nat /\ Shaped(job'[q])
      /\ listing \in Seq(Order) /\ job[q].added \in Nat /\ job[q].snap \in Seq(Order)
      /\ job[q].kind \in Kind
  BY DEF RInv, TInv, IInv, JobTyped, Shaped
<1>1. ASSUME Frame(q), listing' = listing, mishaps <= mishaps'
      PROVE  RequestOK(job'[q], disk'[job'[q].kind], listing', mishaps')
  <2>1. job'[q].kind = job[q].kind /\ Apart(job[q], job'[q])
    BY <1>1 DEF Frame, Apart
  <2>2. PICK j, k, d, e, l, m, n : /\ j = job[q] /\ k = job'[q] /\ d = disk[job[q].kind]
                                   /\ e = disk'[job[q].kind] /\ l = listing /\ m = mishaps /\ n = mishaps'
    OBVIOUS
  <2>3. /\ m \in Nat /\ n \in Nat /\ m <= n /\ j.page \in Nat /\ Apart(j, k) /\ RequestOK(j, d, l, m)
        /\ SameFile(d, e) \/ k.spoil \intersect Kept # {} \/ ~HasFile(j)
    BY <1>0, <1>1, <2>1, <2>2 DEF Frame
  <2>4. RequestOK(k, e, l, n)
    BY <2>3, FrameOK
  <2>5. QED
    BY <1>1, <2>1, <2>2, <2>4
<1>2. ASSUME NEW r \in Req, Turn(r), Others(r)
      PROVE  RequestOK(job'[q], disk'[job'[q].kind], listing', mishaps')
  <2>1. listing' = listing /\ mishaps' \in {mishaps, mishaps + 1}
    BY <1>0, <1>2, TurnFile DEF Others
  <2>2. CASE q = r
    <3>1. After(q) /\ job'[q].kind = job[q].kind
      BY <1>0, <1>2, <2>2, TurnOK, TurnFile DEF OfRequest
    <3>2. QED
      BY <2>1, <3>1 DEF After
  <2>3. CASE q # r
    <3>1. Frame(q)
      BY <1>0, <1>2, <2>3, Foreign
    <3>2. mishaps <= mishaps'
      BY <1>0, <2>1
    <3>3. QED
      BY <1>1, <2>1, <3>1, <3>2
  <2>4. QED
    BY <2>2, <2>3
<1>3. ASSUME NEW o \in Late, Stored(o)
      PROVE  RequestOK(job'[q], disk'[job'[q].kind], listing', mishaps')
  <2>1. PICK i \in 1 .. Len(listing) + 1 : listing' = InsertAt(listing, i, o)
    BY <1>3 DEF Stored
  <2>2. /\ ApartFromInserts(job[q], job'[q]) /\ disk' = disk /\ mishaps' = mishaps
        /\ job'[q].added = IF job[q].st = "paging" THEN job[q].added + 1 ELSE job[q].added
        /\ o \in Order /\ o \notin Range(listing)
    BY <1>3 DEF Stored
  <2>3. job'[q].kind = job[q].kind
    BY <2>2 DEF ApartFromInserts
  <2>4. PICK j, k, d, l, m, s :
           /\ j = job[q] /\ k = job'[q] /\ d = disk[job[q].kind] /\ l = listing /\ m = mishaps /\ s = listing'
    OBVIOUS
  <2>5. /\ l \in Seq(Order) /\ m \in Nat /\ o \in Order /\ o \notin Range(l) /\ i \in 1 .. Len(l) + 1
        /\ s = InsertAt(l, i, o)
        /\ j.page \in Nat /\ j.added \in Nat /\ j.snap \in Seq(Order)
        /\ ApartFromInserts(j, k) /\ RequestOK(j, d, l, m)
        /\ k.added = IF j.st = "paging" THEN j.added + 1 ELSE j.added
    BY <1>0, <2>1, <2>2, <2>4
  <2>6. RequestOK(k, d, s, m)
    BY <2>5, InsertOK
  <2>7. QED
    BY <2>2, <2>3, <2>4, <2>6
<1>4. CASE Stopped
  <2>1. listing' = listing /\ disk' = disk /\ mishaps' = mishaps + 1
    BY <1>4 DEF Stopped
  <2>2. CASE job'[q] = job[q]
    <3>1. Frame(q)
      BY <2>1, <2>2, SameIsApart DEF Frame, SameFile
    <3>2. mishaps <= mishaps'
      BY <1>0, <2>1
    <3>3. QED
      BY <1>1, <2>1, <3>1, <3>2
  <2>3. CASE Drops(q, job[q], job'[q])
    <3>1. After(q) /\ job'[q].kind = job[q].kind
      BY <1>0, <2>3, EndsOK, DropsHas DEF OfRequest
    <3>2. QED
      BY <2>1, <3>1 DEF After
  <2>4. QED
    BY <1>4, <2>2, <2>3 DEF Stopped
<1>5. CASE Swept
  <2>1. Frame(q) /\ listing' = listing /\ mishaps <= mishaps'
    BY <1>0, <1>5 DEF Swept
  <2>2. QED
    BY <1>1, <2>1
<1>6. QED
  BY <1>0, <1>2, <1>3, <1>4, <1>5, StepKinds

LEMMA RNext == RInv /\ [Next]_vars => RInv'
<1>1. SUFFICES ASSUME RInv, [Next]_vars
               PROVE  RInv'
  OBVIOUS
<1>2. TInv'
  BY <1>1, TypesNext DEF RInv
<1>3. Exclusive'
  BY <1>1, ExclusiveNext DEF RInv
<1>4. \A r \in Req : RequestOK(job'[r], disk'[job'[r].kind], listing', mishaps')
  BY <1>1, <1>2, RequestNext
<1>5. QED
  BY <1>2, <1>3, <1>4 DEF RInv

LEMMA RInit == Init => RInv
<1>1. SUFFICES ASSUME Init
               PROVE  RInv
  OBVIOUS
<1>2. PICK kinds \in Requests : job = [r \in Req |-> [Idle EXCEPT !.kind = kinds[r]]]
  BY <1>1 DEF Init
<1>3. ASSUME NEW r \in Req
      PROVE  /\ DOMAIN job[r] = Fields /\ job[r].kind \in Kind /\ job[r].st = "new"
             /\ job[r].page = 0 /\ job[r].pages = 0 /\ job[r].count = 0 /\ job[r].rows = <<>>
             /\ job[r].snap = <<>> /\ job[r].added = 0 /\ job[r].sent = NoReport /\ job[r].told = FALSE
             /\ job[r].sheets = <<>>
  <2>1. kinds[r] \in Kind
    BY <1>2, InputAssumption DEF InputAssumption
  <2>2. job[r] = [Idle EXCEPT !.kind = kinds[r]]
    BY <1>2
  <2>3. QED
    BY <2>1, <2>2 DEF Idle, Fields
<1>4. TInv
  <2>1. IInv
    BY <1>1, InitInv
  <2>2. ASSUME NEW r \in Req
        PROVE  JobTyped(job[r])
    <3>1. <<>> \in Seq(Order) /\ <<>> \in Seq(Nat)
      OBVIOUS
    <3>2. Shaped(job[r])
      <4>1. DOMAIN job[r] = Fields
        BY <1>3
      <4>2. job[r].page = 0 /\ job[r].pages = 0 /\ job[r].count = 0
        BY <1>3
      <4>3. PICK none \in Seq(Nat) : none = <<>>
        BY <3>1
      <4>4. job[r].sheets \in Seq(Nat)
        BY <1>3, <4>3
      <4>5. QED
        BY <4>1, <4>2, <4>4 DEF Shaped
    <3>3. job[r].st \in State /\ job[r].added \in Nat
      <4>1. job[r].st = "new" /\ job[r].added = 0
        BY <1>3
      <4>2. QED
        BY <4>1 DEF State
    <3>5. job[r].told \in BOOLEAN
      BY <1>3
    <3>4. QED
      BY <1>3, <3>1, <3>2, <3>3, <3>5 DEF JobTyped
  <2>3. disk \in [Kind -> File \union {NoFile}] /\ mishaps \in Nat
    BY <1>1 DEF Init
  <2>4. QED
    BY <2>1, <2>2, <2>3 DEF TInv
<1>5. Exclusive
  BY <1>3 DEF Exclusive, HasFile
<1>6. ASSUME NEW r \in Req
      PROVE  RequestOK(job[r], disk[job[r].kind], listing, mishaps)
  BY <1>3, <1>6 DEF RequestOK, PhaseOK, OwnedOK, CommittedOK, SilentOK, ListedOK, ExactOK, CoveredOK,
     SentExact, SentCovers, SentStays, HasFile, Open
<1>7. QED
  BY <1>4, <1>5, <1>6 DEF RInv

LEMMA ReportsFrom == RInv => ExactReport /\ MissedOnlyByInserts /\ SilenceExplained
<1>1. SUFFICES ASSUME RInv
               PROVE  ExactReport /\ MissedOnlyByInserts /\ SilenceExplained
  OBVIOUS
<1>2. ASSUME NEW r \in Req
      PROVE  SentExact(job[r]) /\ SentCovers(job[r]) /\ SilentOK(job[r], mishaps)
  BY <1>1 DEF RInv, RequestOK
<1>3. ExactReport
  BY <1>2 DEF ExactReport, SentExact
<1>4. MissedOnlyByInserts
  BY <1>2 DEF MissedOnlyByInserts, SentCovers, Missing
<1>5. SilenceExplained
  BY <1>2 DEF SilenceExplained, SilentOK, Excused, Kept
<1>6. QED
  BY <1>3, <1>4, <1>5

LEMMA ReasonNext ==
  ASSUME TInv, FileHasReason, [Next]_vars
  PROVE  FileHasReason'
<1>1. \A c \in Kind : disk[c] # NoFile => \E r \in Req : job[r].kind = c /\ Reason(job[r])
  BY DEF FileHasReason, Reason
<1>2. SUFFICES ASSUME NEW c \in Kind, disk'[c] # NoFile
               PROVE  \E r \in Req : job'[r].kind = c /\ Reason(job'[r])
  BY DEF FileHasReason, Reason
<1>3. ASSUME disk[c] # NoFile,
             \A q \in Req : /\ job'[q].kind = job[q].kind
                            /\ Reason(job[q]) => Reason(job'[q])
      PROVE  \E r \in Req : job'[r].kind = c /\ Reason(job'[r])
  BY <1>1, <1>3
<1>4. ASSUME NEW s \in Req, Turn(s), Others(s)
      PROVE  \E r \in Req : job'[r].kind = c /\ Reason(job'[r])
  <2>1. /\ job'[s].kind = job[s].kind
        /\ disk'[job[s].kind] # NoFile
             => Reason(job'[s]) \/ (disk[job[s].kind] # NoFile /\ ~Reason(job[s]))
    BY <1>4, TurnFile
  <2>2. \A q \in Req \ {s} : job'[q].kind = job[q].kind /\ (Reason(job'[q]) <=> Reason(job[q]))
    BY <1>4, OthersApart, ApartHas
  <2>3. CASE c = job[s].kind
    <3>1. CASE Reason(job'[s])
      BY <2>1, <2>3, <3>1
    <3>2. CASE disk[c] # NoFile /\ ~Reason(job[s])
      <4>1. PICK r \in Req : job[r].kind = c /\ Reason(job[r])
        BY <1>1, <3>2
      <4>2. r # s
        BY <3>2, <4>1
      <4>3. QED
        BY <2>2, <4>1, <4>2
    <3>3. QED
      BY <1>2, <2>1, <2>3, <3>1, <3>2
  <2>4. CASE c # job[s].kind
    <3>1. disk[c] # NoFile
      BY <1>2, <1>4, <2>4 DEF Others
    <3>2. PICK r \in Req : job[r].kind = c /\ Reason(job[r])
      BY <1>1, <3>1
    <3>3. r # s
      BY <2>4, <3>2
    <3>4. QED
      BY <2>2, <3>2, <3>3
  <2>5. QED
    BY <2>3, <2>4
<1>5. ASSUME NEW o \in Late, Stored(o)
      PROVE  \E r \in Req : job'[r].kind = c /\ Reason(job'[r])
  BY <1>2, <1>3, <1>5, ApartHas DEF Stored
<1>6. CASE Stopped
  BY <1>2, <1>3, <1>6, StoppedHas DEF Stopped
<1>7. CASE Swept
  BY <1>2, <1>3, <1>7, ApartHas DEF Swept, SameFile
<1>8. QED
  BY <1>4, <1>5, <1>6, <1>7, StepKinds

LEMMA ReasonInit == Init => FileHasReason
BY DEF Init, FileHasReason

--------------------------------------------------------------------------------
\* Theorems

(* A report whose file met no other request, no leftover and no sweep, and  *)
(* during whose pages no order was inserted, lists each order of the store  *)
(* once, in order, under one header (exportData), or stops at the limit of  *)
(* getDataAsStream and says so: for every store, size of page and limit,    *)
(* with any number of requests, failures and restarts.                      *)
THEOREM ReportsExact == Spec => []ExactReport
<1>1. QED
  BY RInit, RNext, ReportsFrom, PTL DEF Spec

(* An export read with skip and limit while orders are inserted leaves out  *)
(* at most as many orders of those it counted as were inserted.             *)
THEOREM FewMissed == Spec => []MissedOnlyByInserts
<1>1. QED
  BY RInit, RNext, ReportsFrom, PTL DEF Spec

(* A consumer that ends without a message to its user met a failure, an     *)
(* empty store, or lost its file to another request or to the sweep.        *)
THEOREM SilenceAlwaysExplained == Spec => []SilenceExplained
<1>1. QED
  BY RInit, RNext, ReportsFrom, PTL DEF Spec

(* A file under tmp belongs to a handler at work or to one that failed or   *)
(* was stopped: no other path leaves one behind.                            *)
THEOREM FilesHaveReason == Spec => []FileHasReason
<1>1. RInv => TInv
  BY DEF RInv
<1>2. TInv /\ FileHasReason /\ [Next]_vars => FileHasReason'
  BY ReasonNext
<1>3. QED
  BY <1>1, <1>2, RInit, RNext, ReasonInit, PTL DEF Spec
==============================================================================
