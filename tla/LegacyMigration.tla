--------------------------- MODULE LegacyMigration ---------------------------
(* The three scripts under order/scripts that bring orders stored before    *)
(* the status code existed into the present shape.  Nothing in the          *)
(* repository calls them: they are providers a developer runs by hand, one  *)
(* at a time, while the consumers keep creating and updating orders.        *)
(*                                                                          *)
(* A document keeps its sale, the invoice key of its first billing datum,   *)
(* its own invoice key, the invoice keys it is listed under, its status     *)
(* code, its status and last wording, when it was last updated and its      *)
(* history.  The customer, delivery and totals the scripts also fill in are *)
(* left out.                                                                *)
EXTENDS LegacyStatus, FiniteSets, FiniteSetsExt, SequencesExt, Functions

CONSTANTS
  Doc,         \* the documents, numbered in the order a find returns them
  Scenarios,   \* the states of the collection from which the scripts are run
  Consumer,    \* handlers of messages at work beside the script
  Messages,    \* the messages they may get
  Finishers,   \* LIST_MICRO_STATUS_FINISHER of the environment
  Size, Chunk, \* orders in a page and in a chunk of updateStructureOrders
  Limit,       \* orders in a batch of the history script
  Rounds,      \* batches in one run of it
  MaxRuns, MaxLive, MaxMishaps  \* bounds: runs of scripts, messages, failures

ASSUME MigrationAssumption ==
  /\ Doc \subseteq Nat /\ IsFiniteSet(Doc)
  /\ {Size, Chunk, Limit, Rounds} \subseteq Nat \ {0}
  /\ {MaxRuns, MaxLive, MaxMishaps} \subseteq Nat

\* No status code, an absent invoice (or no sale, or no billing datum), the
\* empty key the scripts put into an invoice when there is no billing datum to
\* take one from, and a document without the list of its invoice keys.
NoCode == [micro |-> "null", macro |-> "null"]
NoKey == "null"
NoSale == "null"
Blank == ""
NoKeys == {NoKey}

Code == [micro : STRING, macro : STRING]
Entry == [at : Nat, phrase : STRING, code : Code]
Order ==
  [place : {"stored", "free", "deleted"}, sale : STRING, bill : STRING, key : STRING,
   keys : SUBSET STRING, code : Code, status : STRING, micro : STRING,
   history : Seq(Entry), updated : Nat]

\* Nothing is deleted yet.
ASSUME ScenarioAssumption ==
  \A s \in Scenarios :
    /\ s.docs \in [Doc -> Order] /\ s.indexed \in BOOLEAN
    /\ \A d \in Doc : s.docs[d].place # "deleted"

Origin == {"IHUB", "INTELIPOST", "DELIVERY_HUB"}

\* Every message brings a status code.
ASSUME MessageAssumption ==
  /\ Messages \subseteq [origin : Origin, sale : STRING, bill : STRING, key : STRING,
                         keys : SUBSET STRING, code : Code, status : STRING,
                         phrase : STRING, at : Nat]
  /\ \A m \in Messages : m.code # NoCode /\ m.key \notin {NoKey, Blank}

VARIABLES
  docs,      \* the documents, with their place: stored, free or deleted
  indexed,   \* whether the unique index on invoice.key could be built
  script,    \* the script that runs, and how far it is
  jobs,      \* what it is doing for each order of the chunk in hand
  consumers, \* what each consumer read and is about to write
  runs, live, mishaps,
  known,     \* <<sale, key>> of every package that was ever stored
  billed,    \* <<sale, bill>> of every order that was ever stored
  events,    \* <<sale, at>> of every occurrence that was ever recorded
  excused,   \* those of them that went for a reason EventsKept names
  displaced, \* packages that went with a write by who had not read them
  crossed,   \* sales of which a merge deleted what another saves
  cut        \* sales of which a merge was cut off before its save

ledger == <<known, billed, events, excused, displaced>>
bounds == <<runs, live, mishaps>>
vars == <<docs, indexed, script, jobs, consumers, bounds, ledger, crossed, cut>>

NoScript == [kind |-> "none", page |-> 0, pages |-> 0, queue |-> <<>>,
             seen |-> <<>>, counted |-> {}, failed |-> {}, groups |-> {},
             aborted |-> FALSE]

NoJob == [st |-> "idle", ids |-> {}, read |-> {}, to |-> <<>>, delete |-> {}, survivor |-> 0]

Free == [st |-> "free", msg |-> <<>>, seen |-> <<>>]

Stored(ds) == {d \in Doc : ds[d].place = "stored"}
Codeless(ds) == {d \in Stored(ds) : ds[d].code = NoCode}
OfSale(ds, s) == {d \in Stored(ds) : ds[d].sale = s}
Package(doc) == <<doc.sale, doc.key>>
Packages(ds) == {Package(ds[d]) : d \in {e \in Stored(ds) : ds[e].key \notin {NoKey, Blank}}}
Bills(ds) == {<<ds[d].sale, ds[d].bill>> : d \in Stored(ds)}
Occurrences(doc) == {<<doc.sale, e.at>> : e \in Range(doc.history)}
Recorded(ds, d) == Occurrences(ds[d])
AllRecorded(ds) == UNION {Recorded(ds, d) : d \in Stored(ds)}

\* A write of document d that gives it this key is refused by the index.
Refused(ds, d, key) ==
  indexed /\ \E e \in Stored(ds) \ {d} : ds[e].key = key

\* The collection becomes ds, by a write that was computed from the documents
\* in read.
Write(ds, read) ==
  /\ docs' = ds
  /\ known' = known \cup Packages(ds)
  /\ billed' = billed \cup Bills(ds)
  /\ events' = events \cup AllRecorded(ds)
  /\ excused' = excused \cup ((AllRecorded(docs) \ AllRecorded(ds)) \ UNION {Occurrences(r) : r \in read})
  /\ displaced' = displaced \cup ((Packages(docs) \ Packages(ds)) \ {Package(r) : r \in read})

----------------------------------------------------------------------------
(* handleDuplicateKeys: one document made of the copies                     *)

\* Broken variant: the test for billing data is the wrong way round.
InvoiceKey_blank(doc) == IF doc.bill = NoKey THEN doc.bill ELSE Blank

\* The invoice is made from the first billing datum, and blank without one.
InvoiceKey(doc) == IF doc.bill = NoKey THEN Blank ELSE doc.bill

Recode(entry, stat) == [entry EXCEPT !.code = getStatusCode(entry.phrase, stat)]
RecodeAll(history, stat) == [i \in DOMAIN history |-> Recode(history[i], stat)]

\* The elements of a finite set, each after those below it.
Arranged(below) ==
  [i \in 1 .. Cardinality(DOMAIN below) |->
     CHOOSE x \in DOMAIN below : Cardinality(below[x]) = i - 1]

\* By date; at one date as the copies come, the one updated last first.
Before(copies, p, q) ==
  LET at(r) == copies[r[1]].history[r[2]].at
      newer(d, e) == copies[e].updated < copies[d].updated
      comes(d, e) == newer(d, e) \/ (~newer(e, d) /\ d < e)
  IN  \/ at(p) < at(q)
      \/ at(p) = at(q) /\ (comes(p[1], q[1]) \/ (p[1] = q[1] /\ p[2] < q[2]))

Places(copies, from) == UNION {{<<d, i>> : i \in DOMAIN copies[d].history} : d \in from}

MergedFrom(copies, from) ==
  LET places == Places(copies, from)
      order == Arranged([p \in places |-> {q \in places : Before(copies, q, p)}])
  IN  [n \in DOMAIN order |-> Recode(copies[order[n][1]].history[order[n][2]], "")]

\* Broken variant: a copy without status code brings no history.
MergedHistory_coded(copies) ==
  MergedFrom(copies, {d \in DOMAIN copies : copies[d].code # NoCode})

\* The histories of all the copies, by date.
MergedHistory(copies) == MergedFrom(copies, DOMAIN copies)

Latest(copies) == {d \in DOMAIN copies : \A e \in DOMAIN copies : copies[e].updated <= copies[d].updated}
Oldest(copies, ids) == {d \in ids : \A e \in ids : copies[d].updated <= copies[e].updated}

\* The latest copy keeps its fields; one that it lacks comes from the oldest.
\* Lists are never lacking: mongoose makes an empty one.
Over(latest, oldest) == IF latest = "" THEN oldest ELSE latest

handleDuplicateKeys(copies, latest) ==
  LET rest == DOMAIN copies \ {latest}
      old == IF rest = {} THEN latest ELSE CHOOSE d \in Oldest(copies, rest) : TRUE
      micro == Over(copies[latest].micro, copies[old].micro)
      status == Over(copies[latest].status, copies[old].status)
  IN [copies[latest] EXCEPT
        !.key = InvoiceKey(copies[latest]), !.keys = @ \ NoKeys,
        !.micro = micro, !.status = status,
        !.code = getStatusCode(micro, status),
        !.history = MergedHistory(copies)]

----------------------------------------------------------------------------
(* update-order-structure-json: updateStructureOrders                       *)

Init ==
  /\ \E s \in Scenarios : docs = s.docs /\ indexed = s.indexed
  /\ script = NoScript /\ jobs = [d \in Doc |-> NoJob]
  /\ consumers = [c \in Consumer |-> Free]
  /\ runs = 0 /\ live = 0 /\ mishaps = 0
  /\ known = Packages(docs) /\ billed = Bills(docs) /\ events = AllRecorded(docs)
  /\ excused = {} /\ displaced = {} /\ crossed = {} /\ cut = {}

Quiet == \A d \in Doc : jobs[d] = NoJob

Merging(d) == jobs[d].st \in {"delete", "save"}

Job(d, job) == jobs' = [jobs EXCEPT ![d] = job]

CeilDiv(a, b) == (a + b - 1) \div b

updateStructureOrders ==
  /\ script.kind = "none" /\ runs < MaxRuns
  /\ LET n == Cardinality(Codeless(docs))
     IN script' = [NoScript EXCEPT !.kind = "structure", !.pages = CeilDiv(n, Size),
                                   !.counted = Codeless(docs)]
  /\ runs' = runs + 1
  /\ UNCHANGED <<docs, indexed, jobs, consumers, live, mishaps, ledger, crossed, cut>>

InOrder(ids) == Arranged([d \in ids |-> {e \in ids : e < d}])
Slice(seq, from, count) == SubSeq(seq, from + 1, IF from + count < Len(seq) THEN from + count ELSE Len(seq))

\* Broken variant: the pages are counted from one.
ReadPage_from_one ==
  /\ script.kind = "structure" /\ Quiet /\ script.queue = <<>>
  /\ script.page < script.pages /\ ~script.aborted
  /\ LET page == Slice(InOrder(Codeless(docs)), (script.page + 1) * Size, Size)
     IN script' = [script EXCEPT !.page = @ + 1, !.queue = page,
                                 !.seen = [d \in Range(page) |-> docs[d]]]
  /\ UNCHANGED <<docs, indexed, jobs, consumers, bounds, ledger, crossed, cut>>

\* The page is cut out of what matches the filter now: the orders that
\* earlier pages migrated are gone from it, and the skip counts the others.
ReadPage ==
  /\ script.kind = "structure" /\ Quiet /\ script.queue = <<>>
  /\ script.page < script.pages /\ ~script.aborted
  /\ LET page == Slice(InOrder(Codeless(docs)), script.page * Size, Size)
     IN script' = [script EXCEPT !.page = @ + 1, !.queue = page,
                                 !.seen = [d \in Range(page) |-> docs[d]]]
  /\ UNCHANGED <<docs, indexed, jobs, consumers, bounds, ledger, crossed, cut>>

\* The orders of a chunk are processed together, the chunks in turn.
NextChunk ==
  /\ script.kind = "structure" /\ Quiet /\ script.queue # <<>> /\ ~script.aborted
  /\ LET chunk == Range(Slice(script.queue, 0, Chunk))
     IN jobs' = [d \in Doc |-> IF d \in chunk THEN [NoJob EXCEPT !.st = "update"] ELSE NoJob]
  /\ script' = [script EXCEPT !.queue = SubSeq(@, Chunk + 1, Len(@))]
  /\ UNCHANGED <<docs, indexed, consumers, bounds, ledger, crossed, cut>>

\* What the validation of an order by newOrderSchema finds missing: always
\* the status code (the filter's condition), the invoice and the history
\* when they lack a required part, and possibly when they have it: a date
\* is not the string the schema asks for.
Invalid(doc) ==
  {errors \in SUBSET {"invoice", "history"} :
     /\ doc.key = NoKey => "invoice" \in errors
     /\ (\E e \in Range(doc.history) : e.code = NoCode) => "history" \in errors}

\* An order without occurrences gets one made of its own fields.
NewHistory(doc) ==
  IF doc.history # <<>> THEN RecodeAll(doc.history, doc.status)
  ELSE <<[at |-> doc.updated, phrase |-> doc.micro, code |-> getStatusCode(doc.micro, doc.status)]>>

\* The missing data are computed from the document as the page had it and put
\* into the one stored now.
Completed(doc, seen, errors) ==
  [doc EXCEPT !.key = IF "invoice" \in errors THEN InvoiceKey(seen) ELSE @,
              !.history = IF "history" \in errors THEN NewHistory(seen) ELSE @,
              !.code = getStatusCode(seen.micro, seen.status)]

\* A refused write starts a merge; one of a document that is gone does nothing.
checkAndUpdateOrder(d) ==
  /\ jobs[d].st = "update"
  /\ \E errors \in Invalid(script.seen[d]) :
       LET order == Completed(docs[d], script.seen[d], errors)
       IN IF docs[d].place = "stored" /\ Refused(docs, d, order.key)
          THEN /\ Job(d, [NoJob EXCEPT !.st = "find"])
               /\ UNCHANGED <<docs, ledger>>
          ELSE /\ Job(d, NoJob)
               /\ Write(IF docs[d].place # "stored" THEN docs ELSE [docs EXCEPT ![d] = order],
                        {script.seen[d]})
  /\ UNCHANGED <<indexed, script, consumers, bounds, crossed, cut>>

\* A write that fails for any other reason is logged and counted as a success.
UpdateFails(d) ==
  /\ jobs[d].st = "update" /\ mishaps < MaxMishaps
  /\ Job(d, NoJob)
  /\ script' = [script EXCEPT !.failed = @ \cup {d}]
  /\ mishaps' = mishaps + 1
  /\ UNCHANGED <<docs, indexed, consumers, runs, live, ledger, crossed, cut>>

\* What a merge has deleted and not saved.
Unsaved(d) == IF jobs[d].st = "save" THEN Occurrences(jobs[d].to) ELSE {}

\* The copies: every document of the sale, or of the group in hand.  That none
\* is left is an error that nobody catches.
FindCopies(d) ==
  /\ jobs[d].st = "find"
  /\ LET ids == IF script.kind = "structure" THEN OfSale(docs, docs[d].sale)
                ELSE jobs[d].ids \cap Stored(docs)
         copies == [e \in ids |-> docs[e]]
     IN IF ids = {}
        THEN Job(d, NoJob) /\ script' = [script EXCEPT !.aborted = TRUE]
        ELSE /\ \E latest \in Latest(copies) :
                  Job(d, [st |-> "delete", ids |-> ids, read |-> Range(copies),
                          delete |-> ids \ {latest}, survivor |-> latest,
                          to |-> handleDuplicateKeys(copies, latest)])
             /\ UNCHANGED script
  /\ UNCHANGED <<docs, indexed, consumers, bounds, ledger, crossed, cut>>

Deleted(ds, ids) == [d \in Doc |-> IF d \in ids THEN [ds[d] EXCEPT !.place = "deleted"] ELSE ds[d]]

\* Broken variant: the survivor is among the deleted.
DeleteCopies_all(d) ==
  /\ jobs[d].st = "delete"
  /\ Write(Deleted(docs, jobs[d].ids), jobs[d].read)
  /\ Job(d, [jobs[d] EXCEPT !.st = "save"])
  /\ UNCHANGED <<indexed, script, consumers, bounds, crossed, cut>>

\* Two merges of a sale cross when an occurrence recorded between their finds
\* makes another document the latest: each then deletes what the other saves.
Crossed(d) == \E e \in Doc \ {d} : Merging(e) /\ jobs[e].survivor \in jobs[d].delete

\* deleteMany comes first, the save after it.
DeleteCopies(d) ==
  /\ jobs[d].st = "delete"
  /\ crossed' = crossed \cup IF Crossed(d) THEN {docs[jobs[d].survivor].sale} ELSE {}
  /\ Write(Deleted(docs, jobs[d].delete), jobs[d].read)
  /\ Job(d, [jobs[d] EXCEPT !.st = "save"])
  /\ UNCHANGED <<indexed, script, consumers, bounds, cut>>

\* What the merges of ids have deleted is not saved any more.
Interrupt(ids) ==
  /\ cut' = cut \cup {docs[jobs[d].survivor].sale : d \in ids}
  /\ excused' = excused \cup UNION {Unsaved(d) : d \in ids}
  /\ UNCHANGED <<known, billed, events, displaced>>

\* A survivor that is gone, by a merge that crossed this one, is not written.
\* A second refusal is not caught: it ends the script.
SaveMerged(d) ==
  /\ jobs[d].st = "save"
  /\ LET e == jobs[d].survivor
     IN \/ /\ docs[e].place = "stored" /\ ~Refused(docs, e, jobs[d].to.key)
           /\ Write([docs EXCEPT ![e] = jobs[d].to], jobs[d].read)
           /\ UNCHANGED <<script, cut>>
        \/ /\ docs[e].place # "stored"
           /\ excused' = excused \cup Unsaved(d)
           /\ UNCHANGED <<docs, script, known, billed, events, displaced, cut>>
        \/ /\ docs[e].place = "stored" /\ Refused(docs, e, jobs[d].to.key)
           /\ script' = [script EXCEPT !.aborted = TRUE]
           /\ Interrupt({d})
           /\ UNCHANGED docs
  /\ Job(d, NoJob)
  /\ UNCHANGED <<indexed, consumers, bounds, crossed>>

\* A call of the merge that fails in any other way is not caught either.
MergeFails(d) ==
  /\ jobs[d].st \in {"find", "delete", "save"} /\ mishaps < MaxMishaps
  /\ script' = [script EXCEPT !.aborted = TRUE]
  /\ Interrupt({d} \cap {e \in Doc : jobs[e].st = "save"})
  /\ Job(d, NoJob)
  /\ mishaps' = mishaps + 1
  /\ UNCHANGED <<docs, indexed, consumers, runs, live, crossed>>

----------------------------------------------------------------------------
(* update-duplicated-orders and update-history-orders                       *)

SameOrder(d, e) == docs[d].sale = docs[e].sale /\ docs[d].key = docs[e].key

\* The groups of copies are computed once and then worked through.
updateDuplicateOrders ==
  /\ script.kind = "none" /\ runs < MaxRuns
  /\ LET group(d) == {e \in Stored(docs) : SameOrder(d, e)}
     IN script' = [NoScript EXCEPT !.kind = "duplicates",
                     !.groups = {g \in {group(d) : d \in Stored(docs)} : Cardinality(g) > 1}]
  /\ runs' = runs + 1
  /\ UNCHANGED <<docs, indexed, jobs, consumers, live, mishaps, ledger, crossed, cut>>

NextGroup ==
  /\ script.kind = "duplicates" /\ Quiet /\ ~script.aborted
  /\ \E g \in script.groups :
       /\ script' = [script EXCEPT !.groups = @ \ {g}]
       /\ Job(Min(g), [NoJob EXCEPT !.st = "find", !.ids = g])
  /\ UNCHANGED <<docs, indexed, consumers, bounds, ledger, crossed, cut>>

pag ==
  /\ script.kind = "none" /\ runs < MaxRuns
  /\ script' = [NoScript EXCEPT !.kind = "history", !.pages = Rounds]
  /\ runs' = runs + 1
  /\ UNCHANGED <<docs, indexed, jobs, consumers, live, mishaps, ledger, crossed, cut>>

\* Documents with an occurrence that has no code; one without a history
\* matches too and one with an empty history does not, here both are <<>>.
Uncoded(ds) ==
  {S \in SUBSET Stored(ds) :
     \A d \in Stored(ds) \ {e \in Stored(ds) : ds[e].history = <<>>} :
       d \in S <=> \E o \in Range(ds[d].history) : o.code = NoCode}

\* A batch (of one store, the only one kept here) is read whole and then
\* written order by order; publishing each as it was read is left out.
ReadBatch ==
  /\ script.kind = "history" /\ script.queue = <<>> /\ script.page < script.pages
  /\ ~script.aborted
  /\ \E matching \in Uncoded(docs) :
       LET batch == Slice(InOrder(matching), 0, Limit)
       IN script' = [script EXCEPT !.page = @ + 1, !.queue = batch,
                                   !.seen = [d \in Range(batch) |-> docs[d]]]
  /\ UNCHANGED <<docs, indexed, jobs, consumers, bounds, ledger, crossed, cut>>

\* The occurrences that have no code get one.
Coded(history) ==
  [i \in DOMAIN history |-> IF history[i].code = NoCode THEN Recode(history[i], "") ELSE history[i]]

\* The document is written back as it was read, the fields that it lacked then
\* left alone, with the code of its last occurrence; without occurrences with
\* the code it had.
WrittenBack(doc, seen) ==
  LET code == IF seen.history = <<>> THEN seen.code ELSE Last(Coded(seen.history)).code
  IN [seen EXCEPT !.history = Coded(@), !.code = code,
                  !.key = IF @ = NoKey THEN doc.key ELSE @,
                  !.keys = IF @ = NoKeys THEN doc.keys ELSE @,
                  !.status = IF code.micro = "delivered-success" THEN "delivered" ELSE @]

\* An order with neither a code nor an occurrence, or a refused write, is an
\* error that nobody catches.
WriteBack ==
  /\ script.kind = "history" /\ script.queue # <<>> /\ ~script.aborted
  /\ LET d == Head(script.queue)
         order == WrittenBack(docs[d], script.seen[d])
     IN IF order.code = NoCode \/ (docs[d].place = "stored" /\ Refused(docs, d, order.key))
        THEN /\ script' = [script EXCEPT !.aborted = TRUE]
             /\ UNCHANGED <<docs, ledger>>
        ELSE /\ Write(IF docs[d].place = "stored" THEN [docs EXCEPT ![d] = order] ELSE docs,
                      {script.seen[d]})
             /\ script' = [script EXCEPT !.queue = Tail(@)]
  /\ UNCHANGED <<indexed, jobs, consumers, bounds, crossed, cut>>

Done ==
  \/ script.aborted
  \/ script.page = script.pages /\ script.queue = <<>> /\ script.groups = {}

Finish ==
  /\ script.kind # "none" /\ Quiet /\ Done
  /\ script' = NoScript
  /\ UNCHANGED <<docs, indexed, jobs, consumers, bounds, ledger, crossed, cut>>

\* The script is stopped, its process dies, or a page or batch cannot be read.
Stop ==
  /\ script.kind # "none" /\ mishaps < MaxMishaps
  /\ Interrupt({d \in Doc : jobs[d].st = "save"})
  /\ script' = NoScript /\ jobs' = [d \in Doc |-> NoJob] /\ mishaps' = mishaps + 1
  /\ UNCHANGED <<docs, indexed, consumers, runs, live, crossed>>

----------------------------------------------------------------------------
(* What the consumers do meanwhile                                          *)

Status == INSTANCE OrderStatus WITH
  Micro <- STRING, MicroFinisher <- Finishers, StatusId <- STRING, Instant <- Nat, Key <- STRING

Scale(code) == Status!getStatusScale(code)

\* What merge looks the message's order up by.
Matching(ds, m) ==
  {d \in Stored(ds) :
     \/ m.origin = "IHUB" /\ ds[d].sale = m.sale /\ ds[d].key = m.key
     \/ m.origin = "INTELIPOST" /\ ds[d].sale = m.sale /\ m.key \in ds[d].keys
     \/ m.origin = "DELIVERY_HUB" /\ ds[d].key = m.key}

\* Among several the one with the message's key is updated.
Found(ds, m) ==
  LET matching == Matching(ds, m)
  IN IF Cardinality(matching) = 1 THEN matching ELSE {d \in matching : ds[d].key = m.key}

\* An order that is finished is left as it is; one without status code, or
\* without the list of its keys, is a TypeError.
Updatable(doc) == doc.code.micro \notin Finishers /\ doc.code # NoCode /\ doc.keys # NoKeys

\* The message's orders are read; what is written of them comes later.
merge(c) ==
  /\ consumers[c] = Free /\ live < MaxLive
  /\ \E m \in Messages :
       LET found == Found(docs, m)
           reading ==
             IF Matching(docs, m) = {} THEN [st |-> "create", msg |-> m, seen |-> <<>>]
             ELSE IF found = {} \/ ~Updatable(docs[Min(found)]) THEN Free
             ELSE [st |-> IF Cardinality(Matching(docs, m)) = 1 THEN "update" ELSE "updateMany",
                   msg |-> m, seen |-> docs[Min(found)]]
       IN consumers' = [consumers EXCEPT ![c] = reading]
  /\ live' = live + 1
  /\ UNCHANGED <<docs, indexed, script, jobs, runs, mishaps, ledger, crossed, cut>>

Occurrence(m) == [at |-> m.at, phrase |-> m.phrase, code |-> m.code]

\* sortHistory: by how far along the statuses are, else as they were.
Sorted(entries) ==
  LET places == Arranged([i \in DOMAIN entries |->
                  {j \in DOMAIN entries :
                     \/ Scale(entries[j].code) < Scale(entries[i].code)
                     \/ Scale(entries[j].code) = Scale(entries[i].code) /\ j < i}])
  IN [n \in DOMAIN places |-> entries[places[n]]]

\* The history to write; an IHub message brings no occurrence, and one that
\* the document as read has already is ignored: there is nothing to write.
Recording(m, seen) ==
  m.origin # "IHUB" /\ ~\E e \in Range(seen.history) : e.at = m.at /\ e.phrase = m.phrase

Forward(m, seen) == Scale(seen.code) <= Scale(m.code)

\* The invoice read goes over the message's.
KeptKey(m, seen) == IF seen.key = NoKey THEN m.key ELSE seen.key

\* The status moves on if the message's is at least as far along as the one
\* read.  The invoice, the other keys and the history are those read.
Revised(doc, m, seen) ==
  [doc EXCEPT
     !.code = IF Forward(m, seen) THEN m.code ELSE @,
     !.updated = IF Forward(m, seen) THEN m.at ELSE @,
     !.micro = IF Forward(m, seen) /\ m.origin # "IHUB" THEN m.phrase ELSE @,
     !.status = IF m.status # "" /\ (Forward(m, seen) \/ seen.status = "") THEN m.status ELSE @,
     !.key = KeptKey(m, seen),
     !.keys = m.keys \cup seen.keys,
     !.history = IF Recording(m, seen) THEN Sorted(Append(seen.history, Occurrence(m))) ELSE @]

\* IHub's data are written even when its status is behind: over them goes the
\* status that was read.
Resent(doc, m, seen) ==
  [Revised(doc, m, seen) EXCEPT
     !.bill = m.bill,
     !.code = IF Forward(m, seen) THEN m.code ELSE seen.code,
     !.updated = IF Forward(m, seen) THEN m.at ELSE seen.updated,
     !.status = IF Forward(m, seen) \/ seen.status = "" THEN m.status ELSE seen.status]

\* updateMany names every field: one that the message lacks is emptied.
Overwritten(doc, m, seen) ==
  [Revised(doc, m, seen) EXCEPT
     !.micro = IF Forward(m, seen) THEN m.phrase ELSE doc.micro,
     !.status = IF Forward(m, seen) THEN m.status ELSE doc.status]

First(ids) == {d \in ids : \A e \in ids : d <= e}

\* The first document that the filter matches now, unless the index refuses
\* it the key.
Target(m, seen) == {d \in First(Matching(docs, m)) : ~Refused(docs, d, KeptKey(m, seen))}

updateOrder(c) ==
  /\ consumers[c].st = "update"
  /\ LET m == consumers[c].msg
         seen == consumers[c].seen
     IN Write([d \in Doc |-> IF d \notin Target(m, seen) THEN docs[d]
                             ELSE IF m.origin = "IHUB" THEN Resent(docs[d], m, seen)
                             ELSE Revised(docs[d], m, seen)],
              {seen})
  /\ consumers' = [consumers EXCEPT ![c] = Free]
  /\ UNCHANGED <<indexed, script, jobs, bounds, crossed, cut>>

\* updateMany writes one history and one invoice to all that match; the index
\* lets it write the first of them at most.
updateOrdersWithMultipleInvoices(c) ==
  /\ consumers[c].st = "updateMany"
  /\ LET m == consumers[c].msg
         seen == consumers[c].seen
         targets == IF indexed THEN Target(m, seen) ELSE Matching(docs, m)
     IN Write([d \in Doc |-> IF d \in targets THEN Overwritten(docs[d], m, seen) ELSE docs[d]],
              {seen})
  /\ consumers' = [consumers EXCEPT ![c] = Free]
  /\ UNCHANGED <<indexed, script, jobs, bounds, crossed, cut>>

\* The other orders of the sale are listed under the new key, one for each key
\* they have, up to one that has no invoice: that is a TypeError.
Listed(ds, m) ==
  LET others == OfSale(ds, m.sale)
      push == {d \in others : \A e \in others : /\ e <= d => ds[e].key # NoKey
                                                /\ e < d => ds[e].key # ds[d].key}
  IN [d \in Doc |-> IF d \in push THEN [ds[d] EXCEPT !.keys = (@ \ NoKeys) \cup {m.key}] ELSE ds[d]]

Created(ds, m) ==
  [place |-> "stored", sale |-> m.sale, bill |-> m.bill, key |-> m.key,
   keys |-> m.keys \cup UNION {ds[d].keys \ NoKeys : d \in First(OfSale(ds, m.sale))},
   code |-> m.code, status |-> m.status, micro |-> m.phrase, updated |-> m.at,
   history |-> IF m.origin = "IHUB" THEN <<>> ELSE <<Occurrence(m)>>]

\* The order is created, unless its key is refused.  OrderMerge takes the
\* steps of it apart.
createOrder(c) ==
  /\ consumers[c].st = "create"
  /\ LET m == consumers[c].msg
         listed == Listed(docs, m)
     IN \E d \in Doc :
          /\ docs[d].place = "free"
          /\ Write(IF Refused(docs, d, m.key) \/ \E e \in OfSale(docs, m.sale) : docs[e].key = NoKey
                   THEN listed ELSE [listed EXCEPT ![d] = Created(docs, m)], {})
  /\ consumers' = [consumers EXCEPT ![c] = Free]
  /\ UNCHANGED <<indexed, script, jobs, bounds, crossed, cut>>

----------------------------------------------------------------------------

Work(d) ==
  \/ checkAndUpdateOrder(d) \/ UpdateFails(d)
  \/ FindCopies(d) \/ DeleteCopies(d) \/ SaveMerged(d) \/ MergeFails(d)

Handle(c) ==
  merge(c) \/ updateOrder(c) \/ updateOrdersWithMultipleInvoices(c) \/ createOrder(c)

Next ==
  \/ updateStructureOrders \/ ReadPage \/ NextChunk
  \/ updateDuplicateOrders \/ NextGroup
  \/ pag \/ ReadBatch \/ WriteBack
  \/ Finish \/ Stop
  \/ \E d \in Doc : Work(d)
  \/ \E c \in Consumer : Handle(c)

Spec == Init /\ [][Next]_vars

----------------------------------------------------------------------------
(* Properties                                                               *)

\* An occurrence once recorded stays in the collection.  It goes only with a
\* write by who had not read it (a page, a batch, a merge or a consumer holds
\* an older reading of the document, or writes what it read of another one), or
\* when the merge that holds it is cut off between its deleteMany and its save,
\* or its survivor is deleted by one that crosses it.
EventsKept ==
  events \subseteq AllRecorded(docs) \cup excused \cup UNION {Unsaved(d) : d \in Doc}

\* A package keeps a document with its invoice key, unless an order of its sale
\* bills another package first (a merge takes the key from there), it goes with
\* a write by who had not read it (a consumer puts the key back that it read), or
\* a merge of the sale was cut off or crossed.
PackagesKept ==
  (\A d \in Doc : jobs[d].st # "save") =>
    \A p \in known \ Packages(docs) :
      \/ p \in displaced \/ p[1] \in crossed \cup cut
      \/ \E b \in billed : b[1] = p[1] /\ b[2] # p[2]

\* A run of updateStructureOrders that comes to its end has coded at least a
\* page of the orders it counted, less those whose write failed.  With more
\* than one page it leaves some behind, for the next run.
RunAdvances ==
  LET counted == Cardinality(script.counted)
  IN (script.kind = "structure" /\ Quiet /\ ~script.aborted /\ Done) =>
       Cardinality((script.counted \cap Codeless(docs)) \ script.failed)
         <= counted - (IF counted < Size THEN counted ELSE Size)

\* An order never vanishes: while documents of a sale are merged away one of
\* them stays, unless two merges of the sale cross.
SaleKept ==
  \A d \in Doc : docs[d].place = "deleted" =>
                   OfSale(docs, docs[d].sale) # {} \/ docs[d].sale \in crossed
==============================================================================
