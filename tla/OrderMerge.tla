----------------------------- MODULE OrderMerge ------------------------------
(* OrderService.merge and the handlers that call it: the IHub order message *)
(* (RabbitMQ), the Intelipost event (Kafka, and the answer of the           *)
(* integration), the tracking of a freight connector (Kafka) and the status *)
(* update of the delivery hub (HTTP).  Every handler reads the documents it *)
(* is about, computes the new content from what it read, and writes it      *)
(* later: between two database calls of one handler any other handler may   *)
(* run.  No lock or version is involved; the only protection is the unique  *)
(* index on invoice.key, which makes the invoice key the identity of a      *)
(* document here.                                                           *)
EXTENDS OrderStatus, FiniteSets

CONSTANTS
  Handler,       \* invocations that may be in flight at the same time
  Sale,          \* orderSale values
  NoSale,        \* a document without orderSale
  Pod,           \* proof-of-delivery attachments, by their original url
  Message,       \* the messages that may be delivered
  MaxDeliveries, \* bound: deliveries of messages, redeliveries included
  SyntheticId,   \* the micro state id "69" of the dispatch the service makes up
  NoOrder,       \* no document with this invoice key
  NoCall         \* the handler is not working on anything

VARIABLES
  orders,        \* the collection, by invoice.key
  pc,            \* the next database or broker call of a handler
  call,          \* the data a handler is merging
  seen,          \* the documents merge() found, as they were when it found them
  left,          \* createOrder: documents of the sale not linked yet
  reply,         \* the merged order a handler announces
  outer,         \* the reply of the intelipost() call that a nested one is in
  deliveries,    \* bookkeeping of the bound
  noticed,       \* last status sent to ORDER_NOTIFIED, by invoice
  told           \* last status published to IHub, by invoice

vars == <<orders, pc, call, seen, left, reply, outer, deliveries, noticed, told>>

Origin == {"IHUB", "INTELIPOST", "FREIGHT_CONNECTOR", "DELIVERY_HUB"}
Tracking == {"FREIGHT_CONNECTOR", "DELIVERY_HUB"}

\* The field "status" of a document; "" when it is not set.
Status == {"", "invoiced", "dispatched", "delivered"}

Order == [sale : Sale \union {NoSale}, store : BOOLEAN, code : StatusCode,
          status : Status, history : Seq(Entry), keys : SUBSET Key,
          pods : SUBSET Pod]

MessageType ==
  [origin : Origin, key : Key, sale : Sale \union {NoSale}, store : BOOLEAN,
   code : StatusCode, id : StatusId, at : Instant, keys : SUBSET Key,
   pods : SUBSET Pod]

Call ==
  [origin : Origin, key : Key, sale : Sale \union {NoSale}, store : BOOLEAN,
   code : StatusCode, id : StatusId, at : Instant, keys : SUBSET Key,
   pods : SUBSET Pod, status : Status]

Reply == [key : Key, order : Order]

\* Where a handler may be: "idle", or the database or broker call it makes next.
Place == {"idle", "create", "insert", "update", "updateMany", "reread",
          "notify", "dispatch", "publish"}

\* A collection, or what a find returned of it, by invoice.
Documents == [Key -> Order \union {NoOrder}]
Nothing == [k \in Key |-> NoOrder]

(* What the mappers guarantee about a message: a tracking event knows its   *)
(* invoice and nothing of the order, an Intelipost event names one invoice  *)
(* of a sale, an IHub order lists all the invoices of the sale.  "store"    *)
(* stands for storeId, storeCode and a numeric internalOrderId, which come  *)
(* together.                                                                *)
ASSUME MessageAssumption ==
  /\ Message \subseteq MessageType
  /\ \A m \in Message :
       /\ m.key \in m.keys
       /\ m.origin \in Tracking =>
            m.sale = NoSale /\ ~m.store /\ m.keys = {m.key} /\ m.pods = {}
       /\ m.origin = "INTELIPOST" => m.sale \in Sale /\ m.keys = {m.key}
       /\ m.origin = "IHUB" =>
            /\ m.sale \in Sale /\ m.store /\ m.pods = {}
            /\ m.code.micro \in {"invoiced", "dispatched"}
            /\ m.code.macro = IF m.code.micro = "invoiced"
                                THEN "order-created" ELSE "order-dispatched"

ASSUME ConstantAssumption ==
  /\ NoSale \notin Sale /\ NoOrder \notin Order /\ NoCall \notin Call \union Reply
  /\ SyntheticId \in StatusId /\ MaxDeliveries \in Nat

------------------------------------------------------------------------------
(* Data in, data out: the pure part of the handlers.                        *)

\* changeDispatchStatus: what Intelipost calls dispatched is, for the service,
\* an order that waits for collection.
changeDispatchStatus(code) ==
  [macro |-> IF code.macro = "order-dispatched" THEN "order-created" ELSE code.macro,
   micro |-> IF code.micro = "dispatched" THEN "waiting-for-collection" ELSE code.micro]

\* Mutants: the macro status is copied; a delivery does not set the field.
StatusOf_copied(code) == code.macro
StatusOf_noDelivery(code) == IF code.macro = "order-dispatched" THEN "dispatched" ELSE ""

\* The field "status" that goes with a tracking status; it is left out of the
\* data ("") unless the status says delivered or dispatched.
StatusOf(code) ==
  IF code.macro = "delivered" THEN "delivered"
  ELSE IF code.macro = "order-dispatched" THEN "dispatched" ELSE ""

WithCode(m, code, status) ==
  [origin |-> m.origin, key |-> m.key, sale |-> m.sale, store |-> m.store,
   code |-> code, id |-> m.id, at |-> m.at, keys |-> m.keys, pods |-> m.pods,
   status |-> status]

\* The data a handler hands to merge for a message.
DataOf(m) ==
  IF m.origin = "IHUB" THEN WithCode(m, m.code, m.code.micro)
  ELSE IF m.origin = "INTELIPOST"
    THEN LET code == changeDispatchStatus(m.code)
         IN  WithCode(m, code, StatusOf(code))
    ELSE WithCode(m, m.code, StatusOf(m.code))

\* The event intelipost() makes up: same payload, micro state 69, macro state 9.
Synthetic(c) ==
  LET code == [macro |-> "order-dispatched", micro |-> "dispatched"]
  IN  [WithCode(c, code, "dispatched") EXCEPT !.id = SyntheticId]

EntryOf(c) == [id |-> c.id, at |-> c.at, code |-> c.code, about |-> c.key]

KeepsHistory(c) == c.origin # "IHUB"

\* Mutants: a known event is added again; the new event goes last.
NewHistory_noDedupe(c, old, current) ==
  IF KeepsHistory(c) THEN Sorted(old.history, EntryOf(c)) ELSE current.history
NewHistory_unsorted(c, old, current) ==
  IF KeepsHistory(c) /\ ~Knows(old.history, EntryOf(c))
    THEN Append(old.history, EntryOf(c)) ELSE current.history

\* generateHistory on an update: what the document's history becomes.
NewHistory(c, old, current) ==
  IF KeepsHistory(c) /\ ~Knows(old.history, EntryOf(c))
    THEN Sorted(old.history, EntryOf(c)) ELSE current.history

\* Mutant: an update of Intelipost stores the new files only.
NewPods_forgets(c, copied, old) == IF c.origin = "INTELIPOST" THEN copied ELSE {}

\* generateAttachments: Intelipost keeps the old ones and adds the files that
\* could be copied; every other origin stores an empty list.
NewPods(c, copied, old) == IF c.origin = "INTELIPOST" THEN old.pods \union copied ELSE {}

\* createOrder: the document of an invoice that had none.
Created(c, copied) ==
  [sale |-> c.sale, store |-> c.store, code |-> c.code, status |-> c.status,
   history |-> IF KeepsHistory(c) THEN <<EntryOf(c)>> ELSE <<>>,
   keys |-> c.keys, pods |-> NewPods(c, copied, [pods |-> {}])]

\* The keys of the message and those that were read.
NewKeys_replaced(c, old) == c.keys  \* mutant: the message's keys alone
NewKeys(c, old) == c.keys \union old.keys

\* The status an update leaves.  An IHub message that is behind writes the one
\* it read; the mutant lets it write its own.
NewCode_ihubWins(c, old, current) ==
  IF shouldUpdateSourceOfOrder(c.code, old.code) \/ c.origin = "IHUB" THEN c.code
  ELSE current.code
NewCode(c, old, current) ==
  IF shouldUpdateSourceOfOrder(c.code, old.code) THEN c.code
  ELSE IF c.origin = "IHUB" THEN old.code ELSE current.code

\* updateOrder: "old" is the document as it was read, "current" as it is now.
\* An IHub message that is behind still writes the rest of its data.
Updated(c, copied, old, current) ==
  LET should == shouldUpdateSourceOfOrder(c.code, old.code)
      writes == should \/ c.origin = "IHUB"
      status == IF ~should /\ c.origin = "IHUB" /\ old.status # ""
                  THEN old.status ELSE c.status
  IN  [current EXCEPT
         !.store = @ \/ (writes /\ c.store),
         !.code = NewCode(c, old, current),
         !.status = IF status # "" /\ (writes \/ old.status = "") THEN status ELSE @,
         !.keys = NewKeys(c, old),
         !.history = NewHistory(c, old, current),
         !.pods = NewPods(c, copied, old)]

\* updateOrdersWithMultipleInvoices: status is overwritten even by nothing.
UpdatedAmongMany(c, copied, old, current) ==
  LET should == shouldUpdateSourceOfOrder(c.code, old.code)
  IN  [current EXCEPT
         !.code = IF should THEN c.code ELSE @,
         !.status = IF should THEN c.status ELSE @,
         !.keys = NewKeys(c, old),
         !.history = NewHistory(c, old, current),
         !.pods = NewPods(c, copied, old)]

Stored == {k \in Key : orders[k] # NoOrder}

\* The documents that merge() of a handler found.
Read(h) == {k \in Key : seen[h][k] # NoOrder}

OfSale(sale) == {k \in Stored : orders[k].sale = sale}

\* Mutant: Intelipost events look for documents of exactly their invoice.
Found_exact(c) ==
  CASE c.origin = "IHUB"       -> OfSale(c.sale) \intersect {c.key}
    [] c.origin = "INTELIPOST" -> {k \in OfSale(c.sale) : {c.key} = orders[k].keys}
    [] OTHER                   -> Stored \intersect {c.key}

\* The documents that the filter of the handler matches now.
Found(c) ==
  CASE c.origin = "IHUB"       -> OfSale(c.sale) \intersect {c.key}
    [] c.origin = "INTELIPOST" -> {k \in OfSale(c.sale) : c.key \in orders[k].keys}
    [] OTHER                   -> Stored \intersect {c.key}

\* Files that mapAttachment manages to copy: any of those that are new.
Copies(c, old) == SUBSET (c.pods \ old.pods)

\* The micro statuses of a history say created and waiting for collection.
Collectable(history) ==
  {"created", "waiting-for-collection"} \subseteq {history[i].code.micro : i \in DOMAIN history}

\* Mutant: at least three entries.
NeedsDispatch_atLeast(order) ==
  Len(order.history) >= 3 /\ Collectable(order.history) /\ order.code.macro # "canceled"

\* intelipost(): the third entry of a history that was created and waits for
\* collection makes the service dispatch the order itself.  (partnerStatus
\* "cancelled" goes with the macro status canceled.)
NeedsDispatch(order) ==
  /\ Len(order.history) = 3 /\ Collectable(order.history)
  /\ order.code.macro # "canceled"

------------------------------------------------------------------------------
(* The handlers.                                                            *)

NoReply == NoCall

Init ==
  /\ orders = Nothing
  /\ pc = [h \in Handler |-> "idle"]
  /\ call = [h \in Handler |-> NoCall]
  /\ seen = [h \in Handler |-> Nothing]
  /\ left = [h \in Handler |-> {}]
  /\ reply = [h \in Handler |-> NoReply]
  /\ outer = [h \in Handler |-> NoReply]
  /\ deliveries = 0
  /\ noticed = [k \in Key |-> NoCall]
  /\ told = [k \in Key |-> NoCall]

\* Mutant: finished orders are updated like any other.
Path_open(c) ==
  IF Found(c) = {} THEN "create"
  ELSE IF \E k \in Found(c) : Found(c) = {k} THEN "update"
  ELSE IF c.key \notin Found(c) THEN "ignored" ELSE "updateMany"

\* merge() has the documents it asked for: create, update one, update many,
\* or leave a finished order (or an invoice that is not among the many) alone.
Path(c) ==
  IF Found(c) = {} THEN "create"
  ELSE IF \E k \in Found(c) : Found(c) = {k}
    THEN IF \A k \in Found(c) : checkIfOrderAlreadyFinished(orders[k].code)
           THEN "ignored" ELSE "update"
    ELSE IF c.key \notin Found(c) \/ checkIfOrderAlreadyFinished(orders[c.key].code)
           THEN "ignored" ELSE "updateMany"

\* The handler starts merging c; "after" is where it goes when merge declines.
Merge(h, c, after) ==
  LET path == Path(c)
  IN  IF path = "ignored"
        THEN /\ pc' = [pc EXCEPT ![h] = after]
             /\ call' = [call EXCEPT ![h] = IF after = "idle" THEN NoCall ELSE c]
             /\ seen' = [seen EXCEPT ![h] = Nothing]
        ELSE /\ pc' = [pc EXCEPT ![h] = path]
             /\ call' = [call EXCEPT ![h] = c]
             /\ seen' = [seen EXCEPT ![h] =
                           [k \in Key |-> IF k \in Found(c) THEN orders[k] ELSE NoOrder]]

\* A message arrives, for the first time or again, and merge() reads.
Receive(h) ==
  /\ pc[h] = "idle"
  /\ deliveries < MaxDeliveries
  /\ deliveries' = deliveries + 1
  /\ \E m \in Message : Merge(h, DataOf(m), "idle")
  /\ UNCHANGED <<orders, left, reply, outer, noticed, told>>

Stop(h) ==
  /\ pc' = [pc EXCEPT ![h] = "idle"]
  /\ call' = [call EXCEPT ![h] = NoCall]
  /\ seen' = [seen EXCEPT ![h] = Nothing]
  /\ left' = [left EXCEPT ![h] = {}]
  /\ reply' = [reply EXCEPT ![h] = NoReply]
  /\ outer' = [outer EXCEPT ![h] = NoReply]

\* The end of a handler, by its last step or by an error that it catches and
\* logs.  A nested intelipost() returns to the one that called it, which goes
\* on to publish its own reply.
Leave(h) ==
  IF outer[h] = NoReply THEN Stop(h)
  ELSE /\ pc' = [pc EXCEPT ![h] = "publish"]
       /\ reply' = [reply EXCEPT ![h] = outer[h]]
       /\ outer' = [outer EXCEPT ![h] = NoReply]
       /\ seen' = [seen EXCEPT ![h] = Nothing]
       /\ left' = [left EXCEPT ![h] = {}]
       /\ UNCHANGED call

\* merge() wrote the document of invoice k; it goes on to announce it.
Write(h, k, order) ==
  /\ orders' = [orders EXCEPT ![k] = order]
  /\ reply' = [reply EXCEPT ![h] = [key |-> k, order |-> order]]
  /\ pc' = [pc EXCEPT ![h] = "notify"]
  /\ seen' = [seen EXCEPT ![h] = Nothing]
  /\ UNCHANGED <<call, left, outer, deliveries, noticed, told>>

\* createOrder: find the other documents of the sale.  Without a sale the
\* filter matches the documents that have none.  The keys of whichever document
\* comes first are added to the data.
FindSiblings(h) ==
  /\ pc[h] = "create"
  /\ LET siblings == OfSale(call[h].sale)
     IN  /\ left' = [left EXCEPT ![h] = siblings]
         /\ \E keys \in IF siblings = {} THEN {{}} ELSE {orders[k].keys : k \in siblings} :
              call' = [call EXCEPT ![h].keys = @ \union keys]
  /\ pc' = [pc EXCEPT ![h] = "insert"]
  /\ UNCHANGED <<orders, seen, reply, outer, deliveries, noticed, told>>

\* createOrder: $push the new key on one of them.
LinkSibling(h) ==
  /\ pc[h] = "insert"
  /\ \E k \in left[h] :
       /\ orders' = [orders EXCEPT ![k].keys = @ \union {call[h].key}]
       /\ left' = [left EXCEPT ![h] = @ \ {k}]
  /\ UNCHANGED <<pc, call, seen, reply, outer, deliveries, noticed, told>>

\* Mutant: no unique index on invoice.key.
CreateOrder_noIndex(h) ==
  /\ pc[h] = "insert" /\ left[h] = {}
  /\ \E copied \in SUBSET call[h].pods :
       Write(h, call[h].key, Created(call[h], copied))

CreateOrder(h) ==
  /\ pc[h] = "insert" /\ left[h] = {}
  /\ orders[call[h].key] = NoOrder
  /\ \E copied \in SUBSET call[h].pods :
       Write(h, call[h].key, Created(call[h], copied))

\* The unique index refuses a second document: E11000, the message is dropped.
CreateRefused(h) ==
  /\ pc[h] = "insert" /\ left[h] = {}
  /\ orders[call[h].key] # NoOrder
  /\ Leave(h)
  /\ UNCHANGED <<orders, deliveries, noticed, told>>

\* updateOrder: findOneAndUpdate(configPK) picks a document that matches now.
UpdateOrder(h) ==
  /\ pc[h] = "update"
  /\ \E k \in Found(call[h]) \intersect Read(h) :
       \E copied \in Copies(call[h], seen[h][k]) :
         Write(h, k, Updated(call[h], copied, seen[h][k], orders[k]))

\* It picks another one than was read, on which the key that was read is
\* refused by the index; or none, and the handler fails on the empty answer.
UpdateRefused(h) ==
  /\ pc[h] = "update"
  /\ Found(call[h]) \ Read(h) # {} \/ Found(call[h]) = {}
  /\ Leave(h)
  /\ UNCHANGED <<orders, deliveries, noticed, told>>

\* updateMany writes the invoice of one document to all that match.
UpdateMany(h) ==
  LET c == call[h]
  IN  /\ pc[h] = "updateMany"
      /\ Found(c) = {c.key}
      /\ \E copied \in Copies(c, seen[h][c.key]) :
           orders' = [orders EXCEPT ![c.key] =
                        UpdatedAmongMany(c, copied, seen[h][c.key], @)]
      /\ pc' = [pc EXCEPT ![h] = "reread"]
      /\ seen' = [seen EXCEPT ![h] = Nothing]
      /\ UNCHANGED <<call, left, reply, outer, deliveries, noticed, told>>

\* With more than one match the index refuses the second: the update stops
\* there, after the right document or before it, as the scan happens to go.
UpdateManyRefused(h) ==
  LET c == call[h]
  IN  /\ pc[h] = "updateMany"
      /\ Found(c) # {c.key}
      /\ \/ UNCHANGED orders
         \/ /\ c.key \in Found(c)
            /\ \E copied \in Copies(c, seen[h][c.key]) :
                 orders' = [orders EXCEPT ![c.key] =
                              UpdatedAmongMany(c, copied, seen[h][c.key], @)]
      /\ Leave(h)
      /\ UNCHANGED <<deliveries, noticed, told>>

\* updateOrdersWithMultipleInvoices reads the document it returns.
Reread(h) ==
  /\ pc[h] = "reread"
  /\ reply' = [reply EXCEPT ![h] = [key |-> call[h].key, order |-> orders[call[h].key]]]
  /\ pc' = [pc EXCEPT ![h] = "notify"]
  /\ UNCHANGED <<orders, call, seen, left, outer, deliveries, noticed, told>>

\* The end of merge(): ORDER_NOTIFIED.  An IHub message ends here.
Notify(h) ==
  /\ pc[h] = "notify"
  /\ LET r == reply[h]
     IN  /\ noticed' = IF r.order.store
                         THEN [noticed EXCEPT ![r.key] = r.order.code] ELSE noticed
         /\ IF call[h].origin = "IHUB" THEN Stop(h)
            ELSE /\ pc' = [pc EXCEPT ![h] =
                             IF /\ call[h].origin = "INTELIPOST"
                                /\ outer[h] = NoReply
                                /\ NeedsDispatch(r.order)
                               THEN "dispatch" ELSE "publish"]
                 /\ UNCHANGED <<call, seen, left, reply, outer>>
  /\ UNCHANGED <<orders, deliveries, told>>

\* intelipost() calls itself with the dispatch it made up.
Dispatch(h) ==
  /\ pc[h] = "dispatch"
  /\ LET c == Synthetic(call[h])
         ignored == Path(c) = "ignored"
     IN  /\ Merge(h, c, "publish")
         /\ outer' = IF ignored THEN outer ELSE [outer EXCEPT ![h] = reply[h]]
         /\ reply' = IF ignored THEN reply ELSE [reply EXCEPT ![h] = NoReply]
  /\ UNCHANGED <<orders, left, deliveries, noticed, told>>

\* Mutant: the status of the event is told, not that of the merged order.
Publish_event(h) ==
  /\ pc[h] = "publish"
  /\ told' = IF reply[h].order.store
               THEN [told EXCEPT ![reply[h].key] = call[h].code] ELSE told
  /\ Leave(h)
  /\ UNCHANGED <<orders, deliveries, noticed>>

\* sendStatusTrackingToIHub.  The made-up dispatch is told as a dispatch even
\* when the order is further along.
Publish(h) ==
  /\ pc[h] = "publish"
  /\ LET r == reply[h]
         code == IF outer[h] # NoReply THEN call[h].code ELSE r.order.code
     IN  told' = IF r.order.store THEN [told EXCEPT ![r.key] = code] ELSE told
  /\ Leave(h)
  /\ UNCHANGED <<orders, deliveries, noticed>>

\* A database or broker call fails and the handler catches the error.
Fail(h) ==
  /\ pc[h] # "idle"
  /\ Leave(h)
  /\ UNCHANGED <<orders, deliveries, noticed, told>>

\* The process stops in the middle of a handler.
Crash(h) ==
  /\ pc[h] # "idle"
  /\ Stop(h)
  /\ UNCHANGED <<orders, deliveries, noticed, told>>

Next ==
  \E h \in Handler :
    \/ Receive(h)
    \/ FindSiblings(h) \/ LinkSibling(h) \/ CreateOrder(h) \/ CreateRefused(h)
    \/ UpdateOrder(h) \/ UpdateRefused(h)
    \/ UpdateMany(h) \/ UpdateManyRefused(h) \/ Reread(h)
    \/ Notify(h) \/ Dispatch(h) \/ Publish(h)
    \/ Fail(h) \/ Crash(h)

Spec == Init /\ [][Next]_vars

------------------------------------------------------------------------------
(* Properties that hold whatever runs at the same time.                     *)

\* Every variable keeps to the values the code can put in it.
TypeOK ==
  /\ orders \in Documents
  /\ pc \in [Handler -> Place]
  /\ call \in [Handler -> Call \union {NoCall}]
  /\ seen \in [Handler -> Documents]
  /\ left \in [Handler -> SUBSET Key]
  /\ reply \in [Handler -> Reply \union {NoReply}]
  /\ outer \in [Handler -> Reply \union {NoReply}]
  /\ deliveries \in 0 .. MaxDeliveries
  /\ noticed \in [Key -> StatusCode \union {NoCall}]
  /\ told \in [Key -> StatusCode \union {NoCall}]

\* What a handler holds at each of its steps: the strengthening of TypeOK that
\* makes it inductive.
HandlerOK ==
  \A h \in Handler :
    /\ pc[h] # "idle" => call[h] \in Call
    /\ pc[h] = "updateMany" => call[h].key \in Read(h)
    /\ pc[h] = "reread" => orders[call[h].key] \in Order
    /\ pc[h] \in {"notify", "dispatch", "publish"} => reply[h] \in Reply
    /\ left[h] \subseteq Stored

GoodHistory(history) == Ordered(history) /\ AllDifferent(history)

\* The strengthening of HistoryDistinct and HistorySorted: what a handler read
\* is as good as what is stored, so writing back an old read does no harm here.
HistoryOK ==
  /\ \A k \in Key : orders[k] # NoOrder => GoodHistory(orders[k].history)
  /\ \A h \in Handler : \A k \in Read(h) : GoodHistory(seen[h][k].history)

\* generateHistory recognises a redelivered event: however handlers overlap,
\* no history holds the same event twice.
HistoryDistinct == \A k \in Stored : AllDifferent(orders[k].history)

\* A history is in the order of getStatusScale, which getOrderDetails and the
\* reports read it in, even when events arrive out of order.
HistorySorted == \A k \in Stored : Ordered(orders[k].history)

\* A document stays, and stays with its sale: a message of another sale, or a
\* late order message for an invoice that a tracking created, never takes it.
NoTakeover ==
  [][\A k \in Stored : orders'[k] # NoOrder /\ orders'[k].sale = orders[k].sale]_vars

Loses(old, new) ==
  \/ getStatusScale(new.code) < getStatusScale(old.code)
  \/ checkIfOrderAlreadyFinished(old.code) /\ new.code # old.code
  \/ \E i \in DOMAIN old.history : ~Knows(new.history, old.history[i])
  \/ ~(old.keys \subseteq new.keys)

\* A status falls back, a finished order opens again, or an event or a key
\* disappears only by the write of a handler whose read is out of date: the
\* missing lock is the only way a document loses anything.
OnlyStaleWritesLose ==
  [][\A k \in Stored : Loses(orders[k], orders'[k]) =>
       \E h \in Handler :
         /\ pc[h] \in {"update", "updateMany"} /\ pc'[h] # pc[h]
         /\ k \in Read(h) /\ seen[h][k] # orders[k]]_vars

------------------------------------------------------------------------------
(* Properties of one handler at a time (Handler is a single value).         *)

\* The collection is a ledger: see OrderLedger.
Ledger == INSTANCE OrderLedger WITH
  Invoice <- Key, Event <- StatusId \X Instant, Rank <- 0 .. 6, Absent <- NoOrder,
  ledger <- [k \in Key |->
    IF orders[k] = NoOrder THEN NoOrder
    ELSE [rank |-> getStatusScale(orders[k].code),
          closed |-> checkIfOrderAlreadyFinished(orders[k].code),
          events |-> {<<orders[k].history[i].id, orders[k].history[i].at>> :
                        i \in DOMAIN orders[k].history}]]

\* A line is never mistaken for the mark of a missing document.
ASSUME LedgerAssumption == NoOrder \notin Ledger!Line

LedgerSpec == Ledger!Spec

\* The status of an order is at least as far along as every event in its
\* history: late events are filed, they do not show.
CodeCoversHistory ==
  \A k \in Stored : \A i \in DOMAIN orders[k].history :
    Scale(orders[k].history[i]) <= getStatusScale(orders[k].code)

\* An event is on the document of its own invoice or on one that lists the
\* invoice among its invoiceKeys: it can be found by the key it came with.
EntriesListed ==
  \A k \in Stored : \A i \in DOMAIN orders[k].history :
    orders[k].history[i].about \in orders[k].keys

\* createOrder is refused by the unique index only when a tracking event came
\* first and made a document without a sale for the invoice.  (This is about
\* inserts; an update of several documents is refused without any such one.)
RefusedOnlyByStray ==
  \A h \in Handler :
    pc[h] = "insert" /\ orders[call[h].key] # NoOrder => orders[call[h].key].sale = NoSale

\* A delivered order says so in "status" too, whichever origin delivered it
\* and whatever arrived before and after.
DeliveredHasStatus ==
  \A k \in Stored : orders[k].code.macro = "delivered" => orders[k].status = "delivered"

\* The dispatch that the service makes up is entered once, although the
\* events around it may be delivered again.
DispatchedOnce ==
  \A k \in Stored : \A i, j \in DOMAIN orders[k].history :
    /\ orders[k].history[i].code = orders[k].history[j].code
    /\ orders[k].history[i].id = SyntheticId /\ orders[k].history[j].id = SyntheticId
    /\ orders[k].history[i].code.macro = "order-dispatched"
    => i = j

\* The consumers of ORDER_NOTIFIED never see an order go back.
NoticesNeverRegress ==
  [][\A k \in Key : noticed[k] # NoCall =>
       getStatusScale(noticed'[k]) >= getStatusScale(noticed[k])]_vars

\* A proof of delivery that was filed goes away only by an update of another
\* origin than Intelipost, which stores an empty list of attachments.
PodsLostOnlyToOthers ==
  [][\A k \in Stored : ~(orders[k].pods \subseteq orders'[k].pods) =>
       \E h \in Handler : pc[h] \in {"update", "updateMany"} /\ call[h].origin # "INTELIPOST"]_vars

\* The dispatch that intelipost() made up: what Intelipost itself calls
\* dispatched never keeps that macro status (changeDispatchStatus).
MadeUp(c) == c.origin = "INTELIPOST" /\ c.code.macro = "order-dispatched"

\* IHub sees an order go back only from an intelipost() that made up a dispatch:
\* by that dispatch, or by the caller's own reply, which is told after it.
OnlyMadeUpDispatchTellsBack ==
  [][\A k \in Key : told[k] # NoCall /\ getStatusScale(told'[k]) < getStatusScale(told[k])
       => \E h \in Handler : pc[h] = "publish" /\ MadeUp(call[h])]_vars

------------------------------------------------------------------------------
(* A statement of the repository that the code does not keep.               *)

\* order.service.ts logs "already finished ..., request update ... will be
\* ignored": a finished order keeps its status.
FinishedIsFinal ==
  [][\A k \in Stored : checkIfOrderAlreadyFinished(orders[k].code) =>
       orders'[k].code = orders[k].code]_vars
==============================================================================
