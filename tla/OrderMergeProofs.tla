--------------------------- MODULE OrderMergeProofs --------------------------
(* Proofs about OrderMerge for any set of invoices, sales, messages and     *)
(* handlers that overlap in any way.                                        *)
EXTENDS OrderMerge, OrderStatusProofs

USE MicroAssumption, MessageAssumption, ConstantAssumption

------------------------------------------------------------------------------
(* What the pure operators return.                                          *)

\* Every message is merged as well-formed data.
LEMMA DataOfType == ASSUME NEW m \in Message PROVE DataOf(m) \in Call
<1>1. m \in MessageType
  OBVIOUS
<1>2. changeDispatchStatus(m.code) \in StatusCode
  BY <1>1 DEF MessageType, changeDispatchStatus, StatusCode, Macro
<1>3. \A code : StatusOf(code) \in Status
  BY DEF StatusOf, Status
<1>4. \A code \in StatusCode, status \in Status : WithCode(m, code, status) \in Call
  BY <1>1 DEF MessageType, WithCode, Call
<1>5. m.origin = "IHUB" => m.code.micro \in Status
  BY DEF Status
<1>6. m.code \in StatusCode
  BY <1>1 DEF MessageType
<1>7. QED
  BY <1>2, <1>3, <1>4, <1>5, <1>6 DEF DataOf

\* So is the dispatch that the service makes up.
LEMMA SyntheticType == ASSUME NEW c \in Call PROVE Synthetic(c) \in Call
<1> DEFINE code == [macro |-> "order-dispatched", micro |-> "dispatched"]
<1>1. code \in StatusCode
  BY DEF StatusCode, Macro
<1>2. "dispatched" \in Status
  BY DEF Status
<1>3. WithCode(c, code, "dispatched") \in Call
  BY <1>1, <1>2 DEF Call, WithCode
<1>4. QED
  BY <1>3 DEF Synthetic, Call

LEMMA EntryOfType == ASSUME NEW c \in Call PROVE EntryOf(c) \in Entry
BY DEF Call, EntryOf, Entry

\* generateHistory returns a history.
LEMMA NewHistoryType ==
  ASSUME NEW c \in Call, NEW old \in Order, NEW current \in Order
  PROVE  NewHistory(c, old, current) \in Seq(Entry)
<1>1. old.history \in Seq(Entry) /\ current.history \in Seq(Entry)
  BY DEF Order
<1>2. QED
  BY <1>1, EntryOfType, SortedType DEF NewHistory

LEMMA NewPodsType ==
  ASSUME NEW c \in Call, NEW copied \in SUBSET Pod, NEW old, old.pods \in SUBSET Pod
  PROVE  NewPods(c, copied, old) \in SUBSET Pod
BY DEF NewPods

\* A document that createOrder inserts is a document.
LEMMA CreatedType ==
  ASSUME NEW c \in Call, NEW copied \in SUBSET Pod
  PROVE  Created(c, copied) \in Order
<1>1. <<EntryOf(c)>> \in Seq(Entry) /\ <<>> \in Seq(Entry)
  BY EntryOfType
<1>2. NewPods(c, copied, [pods |-> {}]) \in SUBSET Pod
  BY NewPodsType
<1>3. (IF KeepsHistory(c) THEN <<EntryOf(c)>> ELSE <<>>) \in Seq(Entry)
  BY <1>1
<1>4. QED
  BY <1>2, <1>3 DEF Created, Order, Call

\* What the update paths write over a document is a document.
LEMMA UpdatedType ==
  ASSUME NEW c \in Call, NEW copied \in SUBSET Pod, NEW old \in Order, NEW current \in Order
  PROVE  Updated(c, copied, old, current) \in Order
<1>1. NewHistory(c, old, current) \in Seq(Entry)
  BY NewHistoryType
<1>2. NewPods(c, copied, old) \in SUBSET Pod
  BY NewPodsType DEF Order
<1>3. c.keys \union old.keys \in SUBSET Key
  BY DEF Call, Order
<1>4. QED
  BY <1>1, <1>2, <1>3 DEF Updated, NewCode, NewKeys, Order, Call

LEMMA UpdatedAmongManyType ==
  ASSUME NEW c \in Call, NEW copied \in SUBSET Pod, NEW old \in Order, NEW current \in Order
  PROVE  UpdatedAmongMany(c, copied, old, current) \in Order
<1>1. NewHistory(c, old, current) \in Seq(Entry)
  BY NewHistoryType
<1>2. NewPods(c, copied, old) \in SUBSET Pod
  BY NewPodsType DEF Order
<1>3. c.keys \union old.keys \in SUBSET Key
  BY DEF Call, Order
<1>4. QED
  BY <1>1, <1>2, <1>3 DEF UpdatedAmongMany, NewKeys, Order, Call

------------------------------------------------------------------------------
(* Histories: the pure steps.                                               *)

\* generateHistory keeps a history sorted and free of duplicates, whether it
\* is computed from the document as it is or as it was.
LEMMA NewHistoryGood ==
  ASSUME NEW c \in Call, NEW old \in Order, NEW current \in Order,
         GoodHistory(old.history), GoodHistory(current.history)
  PROVE  GoodHistory(NewHistory(c, old, current))
<1>1. old.history \in Seq(Entry)
  BY DEF Order
<1>2. EntryOf(c) \in Entry
  BY EntryOfType
<1>3. CASE KeepsHistory(c) /\ ~Knows(old.history, EntryOf(c))
  <2>1. Ordered(Sorted(old.history, EntryOf(c)))
    BY <1>1, <1>2, SortedOrdered DEF GoodHistory
  <2>2. AllDifferent(Sorted(old.history, EntryOf(c)))
    BY <1>1, <1>2, <1>3, SortedAllDifferent DEF GoodHistory
  <2>3. QED
    BY <1>3, <2>1, <2>2 DEF NewHistory, GoodHistory
<1>4. CASE ~(KeepsHistory(c) /\ ~Knows(old.history, EntryOf(c)))
  BY <1>4 DEF NewHistory
<1>5. QED
  BY <1>3, <1>4

\* A new document starts with no event or one.
LEMMA CreatedGood ==
  ASSUME NEW c \in Call, NEW copied PROVE GoodHistory(Created(c, copied).history)
<1>1. Created(c, copied).history = IF KeepsHistory(c) THEN <<EntryOf(c)>> ELSE <<>>
  BY DEF Created
<1>2. GoodHistory(<<>>) /\ \A e : GoodHistory(<<e>>)
  BY DEF GoodHistory, Ordered, AllDifferent
<1>3. QED
  BY <1>1, <1>2

------------------------------------------------------------------------------
(* Types.  TypeOK is not inductive: a handler writes from its own data, so  *)
(* what it holds must be known at each of its steps (HandlerOK).            *)

LEMMA FoundStored == ASSUME NEW c PROVE Found(c) \subseteq Stored
BY DEF Found, OfSale

\* The part of HandlerOK that is about h alone, and its frame.
Holds(h) ==
  /\ pc[h] # "idle" => call[h] \in Call
  /\ pc[h] = "updateMany" => call[h].key \in Read(h)
  /\ pc[h] = "reread" => orders[call[h].key] \in Order
  /\ pc[h] \in {"notify", "dispatch", "publish"} => reply[h] \in Reply
  /\ left[h] \subseteq Stored

OthersKeep(h) ==
  \A g \in Handler \ {h} :
    /\ pc'[g] = pc[g] /\ call'[g] = call[g] /\ seen'[g] = seen[g]
    /\ reply'[g] = reply[g] /\ left'[g] = left[g]

Grows == \A k \in Key : orders[k] # NoOrder => orders'[k] # NoOrder

LEMMA KeptStored == ASSUME Grows PROVE Stored \subseteq Stored'
BY DEF Grows, Stored

\* It is enough to look at the handler that moves.
LEMMA HandlerFrame ==
  ASSUME TypeOK, TypeOK', HandlerOK, NEW h \in Handler, OthersKeep(h), Grows, Holds(h)'
  PROVE  HandlerOK'
<1>1. SUFFICES ASSUME NEW g \in Handler, g # h PROVE Holds(g)'
  BY DEF HandlerOK, Holds
<1>2. /\ pc'[g] = pc[g] /\ call'[g] = call[g] /\ seen'[g] = seen[g]
      /\ reply'[g] = reply[g] /\ left'[g] = left[g]
  BY <1>1 DEF OthersKeep
<1>3. Holds(g)
  BY DEF HandlerOK, Holds
<1>4. pc[g] = "reread" => orders'[call[g].key] \in Order
  <2>1. SUFFICES ASSUME pc[g] = "reread" PROVE orders'[call[g].key] \in Order
    OBVIOUS
  <2>2. call[g].key \in Key /\ orders[call[g].key] \in Order
    BY <1>3, <2>1 DEF Holds, Call
  <2>3. orders[call[g].key] # NoOrder
    BY <2>2
  <2>4. orders'[call[g].key] # NoOrder
    BY <2>2, <2>3 DEF Grows
  <2>5. QED
    BY <2>2, <2>4 DEF TypeOK, Documents
<1>5. Read(g)' = Read(g)
  BY <1>2 DEF Read
<1>6. left'[g] \subseteq Stored'
  BY <1>2, <1>3, KeptStored DEF Holds
<1>7. QED
  BY <1>2, <1>3, <1>4, <1>5, <1>6 DEF Holds

\* merge() begins: what the handler holds after its first find.
LEMMA MergeType ==
  ASSUME TypeOK, NEW h \in Handler, NEW c \in Call, NEW after \in {"idle", "publish"},
         Merge(h, c, after)
  PROVE  /\ pc' \in [Handler -> Place] /\ call' \in [Handler -> Call \union {NoCall}]
         /\ seen' \in [Handler -> Documents]
         /\ \A g \in Handler \ {h} :
              pc'[g] = pc[g] /\ call'[g] = call[g] /\ seen'[g] = seen[g]
         /\ pc'[h] \in {after, "create", "update", "updateMany"}
         /\ pc'[h] = "publish" => after = "publish" /\ Path(c) = "ignored"
         /\ pc'[h] # "idle" => call'[h] = c
         /\ pc'[h] = "updateMany" => seen'[h][c.key] # NoOrder
<1>1. Path(c) \in {"create", "ignored", "update", "updateMany"}
  BY DEF Path
<1>2. c.key \in Key
  BY DEF Call
<1>3. Nothing \in Documents
  BY DEF Nothing, Documents
<1>4. [k \in Key |-> IF k \in Found(c) THEN orders[k] ELSE NoOrder] \in Documents
  BY DEF TypeOK, Documents
<1>5. Path(c) = "updateMany" => c.key \in Found(c) /\ orders[c.key] # NoOrder
  BY FoundStored DEF Path, Stored
<1>6. CASE Path(c) = "ignored"
  BY <1>3, <1>6 DEF Merge, TypeOK, Place
<1>7. CASE Path(c) # "ignored"
  <2>1. /\ pc' = [pc EXCEPT ![h] = Path(c)]
        /\ call' = [call EXCEPT ![h] = c]
        /\ seen' = [seen EXCEPT ![h] =
                      [k \in Key |-> IF k \in Found(c) THEN orders[k] ELSE NoOrder]]
    BY <1>7 DEF Merge
  <2>2. pc'[h] = Path(c) /\ Path(c) \in Place
    BY <1>1, <1>7, <2>1 DEF TypeOK, Place
  <2>3. pc'[h] = "updateMany" => seen'[h][c.key] # NoOrder
    BY <1>2, <1>5, <2>1, <2>2 DEF TypeOK
  <2>4. QED
    BY <1>1, <1>4, <1>7, <2>1, <2>2, <2>3 DEF TypeOK
<1>8. QED
  BY <1>6, <1>7

\* A handler ends, or returns to the call it is nested in.
LEMMA LeaveType ==
  ASSUME TypeOK, HandlerOK, NEW h \in Handler, pc[h] # "idle", Leave(h) \/ Stop(h)
  PROVE  /\ pc' \in [Handler -> Place] /\ call' \in [Handler -> Call \union {NoCall}]
         /\ seen' \in [Handler -> Documents] /\ left' \in [Handler -> SUBSET Key]
         /\ reply' \in [Handler -> Reply \union {NoReply}]
         /\ outer' \in [Handler -> Reply \union {NoReply}]
         /\ OthersKeep(h)
         /\ pc'[h] \in {"idle", "publish"} /\ left'[h] = {}
         /\ pc'[h] # "idle" => call'[h] \in Call /\ reply'[h] \in Reply
<1>1. Nothing \in Documents
  BY DEF Nothing, Documents
<1>2. CASE Stop(h)
  BY <1>1, <1>2 DEF Stop, TypeOK, OthersKeep, NoReply, Place
<1>3. CASE Leave(h) /\ outer[h] # NoReply
  <2>1. /\ pc' = [pc EXCEPT ![h] = "publish"]
        /\ reply' = [reply EXCEPT ![h] = outer[h]]
        /\ outer' = [outer EXCEPT ![h] = NoReply]
        /\ seen' = [seen EXCEPT ![h] = Nothing]
        /\ left' = [left EXCEPT ![h] = {}]
        /\ call' = call
    BY <1>3 DEF Leave
  <2>2. outer[h] \in Reply
    BY <1>3 DEF TypeOK
  <2>3. call[h] \in Call
    BY DEF HandlerOK
  <2>4. QED
    BY <1>1, <2>1, <2>2, <2>3 DEF TypeOK, OthersKeep, Place
<1>4. QED
  BY <1>2, <1>3 DEF Leave

\* A step that ends the handler and writes nothing, or at most a document.
LEMMA LeaveStep ==
  ASSUME TypeOK, HandlerOK, NEW h \in Handler, pc[h] # "idle", Leave(h) \/ Stop(h),
         orders' \in Documents, Grows, deliveries' = deliveries,
         noticed' \in [Key -> StatusCode \union {NoCall}],
         told' \in [Key -> StatusCode \union {NoCall}]
  PROVE  TypeOK' /\ HandlerOK'
<1>1. TypeOK'
  BY LeaveType DEF TypeOK
<1>2. OthersKeep(h) /\ Holds(h)'
  BY LeaveType DEF Holds
<1>3. QED
  BY <1>1, <1>2, HandlerFrame

\* A document written by merge() leaves the handler with its reply.
LEMMA WriteType ==
  ASSUME TypeOK, HandlerOK, NEW h \in Handler, NEW k \in Key, NEW order \in Order,
         pc[h] # "idle", Write(h, k, order)
  PROVE  TypeOK' /\ HandlerOK'
<1>1. /\ orders' = [orders EXCEPT ![k] = order]
      /\ reply' = [reply EXCEPT ![h] = [key |-> k, order |-> order]]
      /\ pc' = [pc EXCEPT ![h] = "notify"]
      /\ seen' = [seen EXCEPT ![h] = Nothing]
      /\ UNCHANGED <<call, left, outer, deliveries, noticed, told>>
  BY DEF Write
<1>2. [key |-> k, order |-> order] \in Reply
  BY DEF Reply
<1>3. Nothing \in Documents
  BY DEF Nothing, Documents
<1>4. orders' \in Documents
  BY <1>1 DEF TypeOK, Documents
<1>5. TypeOK'
  BY <1>1, <1>2, <1>3, <1>4 DEF TypeOK, Place
<1>6. Grows
  BY <1>1 DEF Grows, TypeOK, Documents
<1>7. OthersKeep(h)
  BY <1>1 DEF OthersKeep, TypeOK
<1>8. Holds(h)'
  BY <1>1, <1>2, <1>6, KeptStored DEF Holds, HandlerOK, TypeOK
<1>9. QED
  BY <1>5, <1>6, <1>7, <1>8, HandlerFrame

LEMMA ReceiveType ==
  ASSUME TypeOK, HandlerOK, NEW h \in Handler, Receive(h) PROVE TypeOK' /\ HandlerOK'
<1>1. PICK m \in Message : Merge(h, DataOf(m), "idle")
  BY DEF Receive
<1>2. /\ deliveries < MaxDeliveries /\ deliveries' = deliveries + 1
      /\ UNCHANGED <<orders, left, reply, outer, noticed, told>>
  BY DEF Receive
<1>3. DataOf(m) \in Call
  BY DataOfType
<1>4. TypeOK'
  BY <1>1, <1>2, <1>3, MergeType DEF TypeOK
<1>5. OthersKeep(h) /\ Grows
  BY <1>1, <1>2, <1>3, MergeType DEF OthersKeep, Grows
<1>6. Holds(h)'
  <2>1. pc'[h] \in {"idle", "create", "update", "updateMany"}
    BY <1>1, <1>3, MergeType
  <2>2. pc'[h] # "idle" => call'[h] = DataOf(m)
    BY <1>1, <1>3, MergeType
  <2>3. pc'[h] = "updateMany" => seen'[h][DataOf(m).key] # NoOrder
    BY <1>1, <1>3, MergeType
  <2>4. DataOf(m).key \in Key
    BY <1>3 DEF Call
  <2>5. left'[h] \subseteq Stored'
    BY <1>2, <1>5, KeptStored DEF HandlerOK
  <2>6. QED
    BY <1>3, <2>1, <2>2, <2>3, <2>4, <2>5 DEF Holds, Read
<1>7. QED
  BY <1>4, <1>5, <1>6, HandlerFrame

LEMMA FindSiblingsType ==
  ASSUME TypeOK, HandlerOK, NEW h \in Handler, FindSiblings(h) PROVE TypeOK' /\ HandlerOK'
<1> DEFINE siblings == OfSale(call[h].sale)
<1>1. call[h] \in Call
  BY DEF FindSiblings, HandlerOK
<1>2. PICK keys \in IF siblings = {} THEN {{}} ELSE {orders[k].keys : k \in siblings} :
        call' = [call EXCEPT ![h].keys = @ \union keys]
  BY DEF FindSiblings
<1>3. keys \in SUBSET Key
  <2>1. \A k \in siblings : k \in Key /\ orders[k] \in Order
    BY DEF OfSale, Stored, TypeOK, Documents
  <2>2. \A k \in siblings : orders[k].keys \in SUBSET Key
    BY <2>1 DEF Order
  <2>3. QED
    BY <1>2, <2>2
<1>4. [call[h] EXCEPT !.keys = @ \union keys] \in Call
  BY <1>1, <1>3 DEF Call
<1>5. call' = [call EXCEPT ![h] = [call[h] EXCEPT !.keys = @ \union keys]]
  BY <1>2
<1>6. /\ left' = [left EXCEPT ![h] = siblings]
      /\ pc' = [pc EXCEPT ![h] = "insert"]
      /\ UNCHANGED <<orders, seen, reply, outer, deliveries, noticed, told>>
  BY DEF FindSiblings
<1>7. siblings \in SUBSET Key
  BY DEF OfSale, Stored
<1> HIDE DEF siblings
<1>8. TypeOK'
  BY <1>4, <1>5, <1>6, <1>7 DEF TypeOK, Place
<1>9. OthersKeep(h) /\ Grows
  BY <1>5, <1>6 DEF OthersKeep, Grows, TypeOK
<1>10. Holds(h)'
  BY <1>4, <1>5, <1>6, <1>7 DEF Holds, TypeOK, OfSale, Stored, siblings
<1>11. QED
  BY <1>8, <1>9, <1>10, HandlerFrame

LEMMA LinkSiblingType ==
  ASSUME TypeOK, HandlerOK, NEW h \in Handler, LinkSibling(h) PROVE TypeOK' /\ HandlerOK'
<1>1. PICK k \in left[h] :
        /\ orders' = [orders EXCEPT ![k].keys = @ \union {call[h].key}]
        /\ left' = [left EXCEPT ![h] = @ \ {k}]
  BY DEF LinkSibling
<1>2. pc[h] = "insert" /\ UNCHANGED <<pc, call, seen, reply, outer, deliveries, noticed, told>>
  BY DEF LinkSibling
<1>3. k \in Key /\ orders[k] \in Order /\ call[h] \in Call
  BY <1>2 DEF HandlerOK, Stored, TypeOK, Documents
<1>4. [orders[k] EXCEPT !.keys = @ \union {call[h].key}] \in Order
  BY <1>3 DEF Order, Call
<1>5. orders' = [orders EXCEPT ![k] = [orders[k] EXCEPT !.keys = @ \union {call[h].key}]]
  BY <1>1
<1>6. orders' \in Documents /\ Grows
  BY <1>3, <1>4, <1>5 DEF TypeOK, Documents, Grows
<1>7. TypeOK'
  BY <1>1, <1>2, <1>6 DEF TypeOK
<1>8. OthersKeep(h)
  BY <1>1, <1>2 DEF OthersKeep, TypeOK
<1>9. left'[h] \subseteq Stored'
  BY <1>1, <1>6, KeptStored DEF HandlerOK, TypeOK
<1>10. Holds(h)'
  BY <1>2, <1>3, <1>9 DEF Holds
<1>11. QED
  BY <1>6, <1>7, <1>8, <1>10, HandlerFrame

LEMMA CreateOrderType ==
  ASSUME TypeOK, HandlerOK, NEW h \in Handler, CreateOrder(h) PROVE TypeOK' /\ HandlerOK'
<1>1. PICK copied \in SUBSET call[h].pods : Write(h, call[h].key, Created(call[h], copied))
  BY DEF CreateOrder
<1>2. pc[h] # "idle" /\ call[h] \in Call
  BY DEF CreateOrder, HandlerOK
<1>3. call[h].key \in Key /\ copied \in SUBSET Pod
  BY <1>1, <1>2 DEF Call
<1>4. QED
  BY <1>1, <1>2, <1>3, CreatedType, WriteType

LEMMA UpdateOrderType ==
  ASSUME TypeOK, HandlerOK, NEW h \in Handler, UpdateOrder(h) PROVE TypeOK' /\ HandlerOK'
<1>1. PICK k \in Found(call[h]) \intersect Read(h) :
        \E copied \in Copies(call[h], seen[h][k]) :
          Write(h, k, Updated(call[h], copied, seen[h][k], orders[k]))
  BY DEF UpdateOrder
<1>2. PICK copied \in Copies(call[h], seen[h][k]) :
        Write(h, k, Updated(call[h], copied, seen[h][k], orders[k]))
  BY <1>1
<1>3. pc[h] # "idle" /\ call[h] \in Call
  BY DEF UpdateOrder, HandlerOK
<1>4. k \in Key /\ orders[k] \in Order /\ seen[h][k] \in Order
  BY <1>1, FoundStored DEF Stored, Read, TypeOK, Documents
<1>5. copied \in SUBSET Pod
  BY <1>2, <1>3 DEF Copies, Call
<1>6. QED
  BY <1>2, <1>3, <1>4, <1>5, UpdatedType, WriteType

\* What updateMany writes over the document of the handler's invoice.
LEMMA AmongManyType ==
  ASSUME TypeOK, HandlerOK, NEW h \in Handler, pc[h] = "updateMany",
         call[h].key \in Found(call[h]),
         NEW copied \in Copies(call[h], seen[h][call[h].key]),
         orders' = [orders EXCEPT ![call[h].key] =
                      UpdatedAmongMany(call[h], copied, seen[h][call[h].key], @)]
  PROVE  /\ orders' \in Documents /\ Grows
         /\ call[h] \in Call /\ orders'[call[h].key] \in Order
<1> DEFINE k == call[h].key
<1>1. call[h] \in Call /\ k \in Read(h)
  BY DEF HandlerOK
<1>2. k \in Key /\ orders[k] \in Order /\ seen[h][k] \in Order
  BY <1>1, FoundStored DEF Stored, Read, TypeOK, Documents
<1>3. copied \in SUBSET Pod
  BY <1>1 DEF Copies, Call
<1>4. UpdatedAmongMany(call[h], copied, seen[h][k], orders[k]) \in Order
  BY <1>1, <1>2, <1>3, UpdatedAmongManyType
<1>5. QED
  BY <1>1, <1>2, <1>4 DEF TypeOK, Documents, Grows

LEMMA UpdateManyType ==
  ASSUME TypeOK, HandlerOK, NEW h \in Handler, UpdateMany(h) PROVE TypeOK' /\ HandlerOK'
<1>1. /\ pc[h] = "updateMany" /\ Found(call[h]) = {call[h].key}
      /\ pc' = [pc EXCEPT ![h] = "reread"]
      /\ seen' = [seen EXCEPT ![h] = Nothing]
      /\ UNCHANGED <<call, left, reply, outer, deliveries, noticed, told>>
  BY DEF UpdateMany
<1>2. PICK copied \in Copies(call[h], seen[h][call[h].key]) :
        orders' = [orders EXCEPT ![call[h].key] =
                     UpdatedAmongMany(call[h], copied, seen[h][call[h].key], @)]
  BY DEF UpdateMany
<1>3. /\ orders' \in Documents /\ Grows
      /\ call[h] \in Call /\ orders'[call[h].key] \in Order
  BY <1>1, <1>2, AmongManyType
<1>4. Nothing \in Documents
  BY DEF Nothing, Documents
<1>5. TypeOK'
  BY <1>1, <1>3, <1>4 DEF TypeOK, Place
<1>6. OthersKeep(h)
  BY <1>1 DEF OthersKeep, TypeOK
<1>7. left'[h] \subseteq Stored'
  BY <1>1, <1>3, KeptStored DEF HandlerOK
<1>8. Holds(h)'
  BY <1>1, <1>3, <1>7 DEF Holds, TypeOK
<1>9. QED
  BY <1>3, <1>5, <1>6, <1>8, HandlerFrame

LEMMA UpdateManyRefusedType ==
  ASSUME TypeOK, HandlerOK, NEW h \in Handler, UpdateManyRefused(h)
  PROVE  TypeOK' /\ HandlerOK'
<1>1. pc[h] = "updateMany" /\ Leave(h) /\ UNCHANGED <<deliveries, noticed, told>>
  BY DEF UpdateManyRefused
<1>2. CASE UNCHANGED orders
  BY <1>1, <1>2, LeaveStep DEF TypeOK, Grows
<1>3. CASE /\ call[h].key \in Found(call[h])
           /\ \E copied \in Copies(call[h], seen[h][call[h].key]) :
                orders' = [orders EXCEPT ![call[h].key] =
                             UpdatedAmongMany(call[h], copied, seen[h][call[h].key], @)]
  <2>1. orders' \in Documents /\ Grows
    BY <1>1, <1>3, AmongManyType
  <2>2. QED
    BY <1>1, <2>1, LeaveStep DEF TypeOK
<1>4. QED
  BY <1>2, <1>3 DEF UpdateManyRefused

LEMMA RereadType ==
  ASSUME TypeOK, HandlerOK, NEW h \in Handler, Reread(h) PROVE TypeOK' /\ HandlerOK'
<1>1. /\ pc[h] = "reread"
      /\ reply' = [reply EXCEPT ![h] = [key |-> call[h].key, order |-> orders[call[h].key]]]
      /\ pc' = [pc EXCEPT ![h] = "notify"]
      /\ UNCHANGED <<orders, call, seen, left, outer, deliveries, noticed, told>>
  BY DEF Reread
<1>2. call[h] \in Call /\ orders[call[h].key] \in Order
  BY <1>1 DEF HandlerOK
<1>3. [key |-> call[h].key, order |-> orders[call[h].key]] \in Reply
  BY <1>2 DEF Reply, Call
<1>4. TypeOK'
  BY <1>1, <1>3 DEF TypeOK, Place
<1>5. OthersKeep(h) /\ Grows
  BY <1>1 DEF OthersKeep, Grows, TypeOK
<1>6. Holds(h)'
  BY <1>1, <1>2, <1>3, <1>5, KeptStored DEF Holds, HandlerOK, TypeOK
<1>7. QED
  BY <1>4, <1>5, <1>6, HandlerFrame

LEMMA NotifyType ==
  ASSUME TypeOK, HandlerOK, NEW h \in Handler, Notify(h) PROVE TypeOK' /\ HandlerOK'
<1>1. pc[h] = "notify" /\ UNCHANGED <<orders, deliveries, told>>
  BY DEF Notify
<1>2. reply[h] \in Reply /\ call[h] \in Call
  BY <1>1 DEF HandlerOK
<1>3. reply[h].key \in Key /\ reply[h].order.code \in StatusCode
  BY <1>2 DEF Reply, Order
<1>4. noticed' \in [Key -> StatusCode \union {NoCall}]
  BY <1>3 DEF Notify, TypeOK
<1>5. Grows
  BY <1>1 DEF Grows
<1>6. CASE call[h].origin = "IHUB"
  <2>1. Stop(h)
    BY <1>6 DEF Notify
  <2>2. QED
    BY <1>1, <1>4, <1>5, <2>1, LeaveStep DEF TypeOK
<1>7. CASE call[h].origin # "IHUB"
  <2>1. PICK place \in {"dispatch", "publish"} : pc' = [pc EXCEPT ![h] = place]
    BY <1>7 DEF Notify
  <2>2. UNCHANGED <<call, seen, left, reply, outer>>
    BY <1>7 DEF Notify
  <2>3. TypeOK'
    BY <1>1, <1>4, <2>1, <2>2 DEF TypeOK, Place
  <2>4. OthersKeep(h)
    BY <2>1, <2>2 DEF OthersKeep, TypeOK
  <2>5. Holds(h)'
    BY <1>2, <1>5, <2>1, <2>2, KeptStored DEF Holds, HandlerOK, TypeOK
  <2>6. QED
    BY <1>5, <2>3, <2>4, <2>5, HandlerFrame
<1>8. QED
  BY <1>6, <1>7

LEMMA DispatchType ==
  ASSUME TypeOK, HandlerOK, NEW h \in Handler, Dispatch(h) PROVE TypeOK' /\ HandlerOK'
<1> DEFINE c == Synthetic(call[h])
           ignored == Path(c) = "ignored"
<1>1. pc[h] = "dispatch" /\ UNCHANGED <<orders, left, deliveries, noticed, told>>
  BY DEF Dispatch
<1>2. Merge(h, c, "publish")
  BY DEF Dispatch
<1>3. reply[h] \in Reply /\ call[h] \in Call
  BY <1>1 DEF HandlerOK
<1>4. c \in Call
  BY <1>3, SyntheticType
<1>5. /\ outer' = IF ignored THEN outer ELSE [outer EXCEPT ![h] = reply[h]]
      /\ reply' = IF ignored THEN reply ELSE [reply EXCEPT ![h] = NoReply]
  BY DEF Dispatch
<1>6. c.key \in Key
  BY <1>4 DEF Call
<1> HIDE DEF c
<1>7. TypeOK'
  BY <1>1, <1>2, <1>3, <1>4, <1>5, MergeType DEF TypeOK, NoReply
<1>8. OthersKeep(h) /\ Grows
  BY <1>1, <1>2, <1>4, <1>5, MergeType DEF OthersKeep, Grows, TypeOK
<1>9. Holds(h)'
  <2>1. pc'[h] \in {"publish", "create", "update", "updateMany"}
    BY <1>2, <1>4, MergeType
  <2>2. call'[h] = c
    BY <1>2, <1>4, <2>1, MergeType
  <2>3. pc'[h] = "updateMany" => seen'[h][c.key] # NoOrder
    BY <1>2, <1>4, MergeType
  <2>4. pc'[h] = "publish" => reply'[h] \in Reply
    <3>1. pc'[h] = "publish" => ignored
      BY <1>2, <1>4, MergeType
    <3>2. QED
      BY <1>3, <1>5, <3>1
  <2>5. left'[h] \subseteq Stored'
    BY <1>1, <1>8, KeptStored DEF HandlerOK
  <2>6. QED
    BY <1>4, <1>6, <2>1, <2>2, <2>3, <2>4, <2>5 DEF Holds, Read
<1>10. QED
  BY <1>7, <1>8, <1>9, HandlerFrame

LEMMA PublishType ==
  ASSUME TypeOK, HandlerOK, NEW h \in Handler, Publish(h) PROVE TypeOK' /\ HandlerOK'
<1>1. pc[h] = "publish" /\ Leave(h) /\ UNCHANGED <<orders, deliveries, noticed>>
  BY DEF Publish
<1>2. reply[h] \in Reply /\ call[h] \in Call
  BY <1>1 DEF HandlerOK
<1>3. reply[h].key \in Key /\ reply[h].order.code \in StatusCode /\ call[h].code \in StatusCode
  BY <1>2 DEF Reply, Order, Call
<1>4. told' \in [Key -> StatusCode \union {NoCall}]
  BY <1>3 DEF Publish, TypeOK
<1>5. QED
  BY <1>1, <1>4, LeaveStep DEF TypeOK, Grows

\* Every step keeps the types and what the handlers hold.
LEMMA TypeStep == TypeOK /\ HandlerOK /\ [Next]_vars => TypeOK' /\ HandlerOK'
<1>1. SUFFICES ASSUME TypeOK, HandlerOK, [Next]_vars PROVE TypeOK' /\ HandlerOK'
  OBVIOUS
<1>2. CASE UNCHANGED vars
  BY <1>1, <1>2 DEF vars, TypeOK, HandlerOK, Read, Stored
<1>3. ASSUME NEW h \in Handler,
             \/ CreateRefused(h) \/ UpdateRefused(h) \/ Fail(h) \/ Crash(h)
      PROVE  TypeOK' /\ HandlerOK'
  <2>1. /\ pc[h] # "idle" /\ (Leave(h) \/ Stop(h))
        /\ UNCHANGED <<orders, deliveries, noticed, told>>
    BY <1>3 DEF CreateRefused, UpdateRefused, Fail, Crash
  <2>2. QED
    BY <1>1, <2>1, LeaveStep DEF TypeOK, Grows
<1>4. CASE Next
  BY <1>1, <1>3, <1>4, ReceiveType, FindSiblingsType, LinkSiblingType, CreateOrderType,
     UpdateOrderType, UpdateManyType, UpdateManyRefusedType, RereadType, NotifyType,
     DispatchType, PublishType DEF Next
<1>5. QED
  BY <1>1, <1>2, <1>4

LEMMA TypeInit == Init => TypeOK /\ HandlerOK
BY DEF Init, TypeOK, HandlerOK, Documents, Nothing, Place, NoReply

\* Types are kept for any number of handlers, invoices and messages.
THEOREM TypeCorrect == Spec => []TypeOK
<1>1. TypeOK /\ HandlerOK /\ [Next]_vars => TypeOK' /\ HandlerOK'
  BY TypeStep
<1>2. QED
  BY <1>1, TypeInit, PTL DEF Spec

------------------------------------------------------------------------------
(* What a step does to one document, and what the properties of documents   *)
(* follow from.                                                             *)

\* The document of k stays, is inserted, or is written over by a handler that
\* read it: the sale is kept, and the history is kept or computed from the read.
Evolves(k) ==
  \/ orders'[k] = orders[k]
  \/ /\ orders[k] = NoOrder
     /\ \E h \in Handler : call[h] \in Call /\ \E copied : orders'[k] = Created(call[h], copied)
  \/ /\ orders[k] # NoOrder /\ orders'[k] \in Order
     /\ orders'[k].sale = orders[k].sale
     /\ \/ orders'[k].history = orders[k].history
        \/ \E h \in Handler :
             /\ call[h] \in Call /\ k \in Read(h)
             /\ orders'[k].history = NewHistory(call[h], seen[h][k], orders[k])

LEMMA UpdatedFields ==
  ASSUME NEW c \in Call, NEW copied \in SUBSET Pod, NEW old \in Order, NEW current \in Order
  PROVE  /\ Updated(c, copied, old, current).sale = current.sale
         /\ Updated(c, copied, old, current).history = NewHistory(c, old, current)
         /\ UpdatedAmongMany(c, copied, old, current).sale = current.sale
         /\ UpdatedAmongMany(c, copied, old, current).history = NewHistory(c, old, current)
BY DEF Updated, UpdatedAmongMany, NewCode, NewKeys, Order

LEMMA LinkEvolves ==
  ASSUME TypeOK, HandlerOK, NEW h \in Handler, LinkSibling(h), NEW k \in Key PROVE Evolves(k)
<1>1. PICK s \in left[h] : orders' = [orders EXCEPT ![s].keys = @ \union {call[h].key}]
  BY DEF LinkSibling
<1>2. s \in Key /\ orders[s] # NoOrder /\ orders[s] \in Order /\ call[h] \in Call
  BY DEF LinkSibling, HandlerOK, Stored, TypeOK, Documents
<1>3. CASE k # s
  BY <1>1, <1>3 DEF TypeOK, Documents, Evolves
<1>4. CASE k = s
  <2>1. orders'[k] = [orders[k] EXCEPT !.keys = @ \union {call[h].key}]
    BY <1>1, <1>4 DEF TypeOK, Documents
  <2>2. orders'[k] \in Order
    BY <1>2, <1>4, <2>1 DEF Order, Call
  <2>3. orders'[k].sale = orders[k].sale /\ orders'[k].history = orders[k].history
    BY <1>2, <1>4, <2>1 DEF Order
  <2>4. QED
    BY <1>2, <1>4, <2>2, <2>3 DEF Evolves
<1>5. QED
  BY <1>3, <1>4

LEMMA CreateEvolves ==
  ASSUME TypeOK, HandlerOK, NEW h \in Handler, CreateOrder(h), NEW k \in Key PROVE Evolves(k)
<1>1. PICK copied : orders' = [orders EXCEPT ![call[h].key] = Created(call[h], copied)]
  BY DEF CreateOrder, Write
<1>2. orders[call[h].key] = NoOrder /\ call[h] \in Call
  BY DEF CreateOrder, HandlerOK
<1>3. QED
  BY <1>1, <1>2 DEF TypeOK, Documents, Evolves

LEMMA UpdateEvolves ==
  ASSUME TypeOK, HandlerOK, NEW h \in Handler, UpdateOrder(h), NEW k \in Key PROVE Evolves(k)
<1>1. PICK s \in Found(call[h]) \intersect Read(h) :
        \E copied \in Copies(call[h], seen[h][s]) :
          Write(h, s, Updated(call[h], copied, seen[h][s], orders[s]))
  BY DEF UpdateOrder
<1>2. PICK copied \in Copies(call[h], seen[h][s]) :
        orders' = [orders EXCEPT ![s] = Updated(call[h], copied, seen[h][s], orders[s])]
  BY <1>1 DEF Write
<1>3. call[h] \in Call
  BY DEF UpdateOrder, HandlerOK
<1>4. /\ s \in Key /\ orders[s] # NoOrder /\ orders[s] \in Order
      /\ seen[h][s] \in Order /\ s \in Read(h)
  BY <1>1, FoundStored DEF Stored, Read, TypeOK, Documents
<1>5. copied \in SUBSET Pod
  BY <1>2, <1>3 DEF Copies, Call
<1>6. CASE k # s
  BY <1>2, <1>6 DEF TypeOK, Documents, Evolves
<1>7. CASE k = s
  <2>1. orders'[k] = Updated(call[h], copied, seen[h][k], orders[k])
    BY <1>2, <1>4, <1>7 DEF TypeOK, Documents
  <2>2. orders'[k] \in Order
    BY <1>3, <1>4, <1>5, <1>7, <2>1, UpdatedType
  <2>3. /\ orders'[k].sale = orders[k].sale
        /\ orders'[k].history = NewHistory(call[h], seen[h][k], orders[k])
    BY <1>3, <1>4, <1>5, <1>7, <2>1, UpdatedFields
  <2>4. QED
    BY <1>3, <1>4, <1>7, <2>2, <2>3 DEF Evolves
<1>8. QED
  BY <1>6, <1>7

LEMMA AmongManyEvolves ==
  ASSUME TypeOK, HandlerOK, NEW h \in Handler, pc[h] = "updateMany",
         call[h].key \in Found(call[h]),
         NEW copied \in Copies(call[h], seen[h][call[h].key]),
         orders' = [orders EXCEPT ![call[h].key] =
                      UpdatedAmongMany(call[h], copied, seen[h][call[h].key], @)],
         NEW k \in Key
  PROVE  Evolves(k)
<1> DEFINE s == call[h].key
<1>1. call[h] \in Call /\ s \in Read(h)
  BY DEF HandlerOK
<1>2. /\ s \in Key /\ orders[s] # NoOrder /\ orders[s] \in Order
      /\ seen[h][s] \in Order
  BY <1>1, FoundStored DEF Stored, Read, TypeOK, Documents
<1>3. copied \in SUBSET Pod
  BY <1>1 DEF Copies, Call
<1>4. CASE k # s
  BY <1>4 DEF TypeOK, Documents, Evolves
<1>5. CASE k = s
  <2>1. orders'[k] = UpdatedAmongMany(call[h], copied, seen[h][k], orders[k])
    BY <1>2, <1>5 DEF TypeOK, Documents
  <2>2. orders'[k] \in Order
    BY <1>1, <1>2, <1>3, <1>5, <2>1, UpdatedAmongManyType
  <2>3. /\ orders'[k].sale = orders[k].sale
        /\ orders'[k].history = NewHistory(call[h], seen[h][k], orders[k])
    BY <1>1, <1>2, <1>3, <1>5, <2>1, UpdatedFields
  <2>4. QED
    BY <1>1, <1>2, <1>5, <2>2, <2>3 DEF Evolves
<1>6. QED
  BY <1>4, <1>5

LEMMA Evolution ==
  ASSUME TypeOK, HandlerOK, [Next]_vars, NEW k \in Key PROVE Evolves(k)
<1>1. CASE UNCHANGED orders
  BY <1>1 DEF Evolves
<1>2. ASSUME NEW h \in Handler, UpdateMany(h) \/ UpdateManyRefused(h) PROVE Evolves(k)
  BY <1>1, <1>2, AmongManyEvolves DEF UpdateMany, UpdateManyRefused
<1>3. ASSUME NEW h \in Handler,
             \/ Receive(h) \/ FindSiblings(h) \/ CreateRefused(h) \/ UpdateRefused(h)
             \/ Reread(h) \/ Notify(h) \/ Dispatch(h) \/ Publish(h) \/ Fail(h) \/ Crash(h)
      PROVE  UNCHANGED orders
  BY <1>3 DEF Receive, FindSiblings, CreateRefused, UpdateRefused, Reread, Notify,
              Dispatch, Publish, Fail, Crash
<1>4. CASE Next
  BY <1>1, <1>2, <1>3, <1>4, LinkEvolves, CreateEvolves, UpdateEvolves DEF Next
<1>5. QED
  BY <1>1, <1>4 DEF vars

\* A document stays and stays with its sale, whatever overlaps.
THEOREM DocumentsStay == Spec => NoTakeover
<1>1. TypeOK /\ HandlerOK /\ [Next]_vars =>
        [\A k \in Stored : orders'[k] # NoOrder /\ orders'[k].sale = orders[k].sale]_vars
  BY Evolution DEF Evolves, Stored
<1>2. QED
  BY <1>1, TypeStep, TypeInit, PTL DEF Spec, NoTakeover

------------------------------------------------------------------------------
(* Histories.                                                               *)

\* What a handler has read is nothing, what it had read, or what is stored.
LEMMA SeenStep ==
  ASSUME TypeOK, [Next]_vars, NEW g \in Handler, NEW k \in Key
  PROVE  seen'[g][k] \in {NoOrder, seen[g][k], orders[k]}
<1>1. CASE UNCHANGED seen
  BY <1>1
<1>2. ASSUME NEW h \in Handler, seen' = [seen EXCEPT ![h] = Nothing]
      PROVE  seen'[g][k] \in {NoOrder, seen[g][k], orders[k]}
  BY <1>2 DEF TypeOK, Nothing
<1>3. ASSUME NEW h \in Handler, NEW c, NEW after, Merge(h, c, after)
      PROVE  seen'[g][k] \in {NoOrder, seen[g][k], orders[k]}
  <2>1. CASE Path(c) = "ignored"
    BY <1>2, <1>3, <2>1 DEF Merge
  <2>2. CASE Path(c) # "ignored"
    BY <1>3, <2>2 DEF Merge, TypeOK
  <2>3. QED
    BY <2>1, <2>2
<1>4. ASSUME NEW h \in Handler,
             Receive(h) \/ Dispatch(h)
      PROVE  seen'[g][k] \in {NoOrder, seen[g][k], orders[k]}
  BY <1>3, <1>4 DEF Receive, Dispatch
<1>5. ASSUME NEW h \in Handler,
             FindSiblings(h) \/ LinkSibling(h) \/ Reread(h) PROVE UNCHANGED seen
  BY <1>5 DEF FindSiblings, LinkSibling, Reread
<1>6. ASSUME NEW h \in Handler, Leave(h) \/ Stop(h)
      PROVE  seen'[g][k] \in {NoOrder, seen[g][k], orders[k]}
  BY <1>2, <1>6 DEF Leave, Stop
<1>7. ASSUME NEW h \in Handler, Notify(h)
      PROVE  seen'[g][k] \in {NoOrder, seen[g][k], orders[k]}
  BY <1>1, <1>6, <1>7 DEF Notify
<1>8. ASSUME NEW h \in Handler,
             \/ CreateRefused(h) \/ UpdateRefused(h) \/ UpdateManyRefused(h)
             \/ Publish(h) \/ Fail(h) \/ Crash(h)
      PROVE  seen'[g][k] \in {NoOrder, seen[g][k], orders[k]}
  BY <1>6, <1>8 DEF CreateRefused, UpdateRefused, UpdateManyRefused, Publish, Fail, Crash
<1>9. ASSUME NEW h \in Handler, CreateOrder(h) \/ UpdateOrder(h) \/ UpdateMany(h)
      PROVE  seen'[g][k] \in {NoOrder, seen[g][k], orders[k]}
  BY <1>2, <1>9 DEF CreateOrder, UpdateOrder, UpdateMany, Write
<1>10. CASE Next
  BY <1>1, <1>4, <1>5, <1>7, <1>8, <1>9, <1>10 DEF Next
<1>11. QED
  BY <1>1, <1>10 DEF vars

LEMMA HistoryStep ==
  TypeOK /\ HandlerOK /\ HistoryOK /\ [Next]_vars => HistoryOK'
<1>1. SUFFICES ASSUME TypeOK, HandlerOK, HistoryOK, [Next]_vars PROVE HistoryOK'
  OBVIOUS
<1>2. ASSUME NEW k \in Key, orders'[k] # NoOrder PROVE GoodHistory(orders'[k].history)
  <2>1. CASE orders'[k] = orders[k]
    BY <1>1, <1>2, <2>1 DEF HistoryOK
  <2>2. CASE \E h \in Handler : call[h] \in Call /\ \E copied : orders'[k] = Created(call[h], copied)
    BY <2>2, CreatedGood
  <2>3. CASE orders[k] # NoOrder /\ orders'[k].history = orders[k].history
    BY <1>1, <2>3 DEF HistoryOK
  <2>4. ASSUME NEW h \in Handler, orders[k] # NoOrder, call[h] \in Call, k \in Read(h),
               orders'[k].history = NewHistory(call[h], seen[h][k], orders[k])
        PROVE  GoodHistory(orders'[k].history)
    <3>1. seen[h][k] \in Order /\ orders[k] \in Order
      BY <1>1, <2>4 DEF TypeOK, Documents, Read
    <3>2. GoodHistory(seen[h][k].history) /\ GoodHistory(orders[k].history)
      BY <1>1, <2>4 DEF HistoryOK
    <3>3. QED
      BY <2>4, <3>1, <3>2, NewHistoryGood
  <2>5. QED
    BY <1>1, <2>1, <2>2, <2>3, <2>4, Evolution DEF Evolves
<1>3. ASSUME NEW g \in Handler, NEW k \in Key, seen'[g][k] # NoOrder
      PROVE  GoodHistory(seen'[g][k].history)
  BY <1>1, <1>3, SeenStep DEF HistoryOK, Read
<1>4. QED
  BY <1>2, <1>3 DEF HistoryOK, Read

\* However many handlers overlap, no stored history holds an event twice and
\* every stored history is in the order of the status scale.
THEOREM HistoriesDistinct == Spec => []HistoryDistinct
<1>1. Init => HistoryOK
  BY DEF Init, HistoryOK, Nothing, Read
<1>2. HistoryOK => HistoryDistinct
  BY DEF HistoryOK, HistoryDistinct, GoodHistory, Stored
<1>3. QED
  BY <1>1, <1>2, HistoryStep, TypeStep, TypeInit, PTL DEF Spec

THEOREM HistoriesSorted == Spec => []HistorySorted
<1>1. Init => HistoryOK
  BY DEF Init, HistoryOK, Nothing, Read
<1>2. HistoryOK => HistorySorted
  BY DEF HistoryOK, HistorySorted, GoodHistory, Stored
<1>3. QED
  BY <1>1, <1>2, HistoryStep, TypeStep, TypeInit, PTL DEF Spec

------------------------------------------------------------------------------
(* Only a write from an old read loses anything.                            *)

\* What a handler is about to update was not finished when it was read.
ReadOpen ==
  \A h \in Handler :
    /\ pc[h] = "update" =>
         \A k \in Read(h) : ~checkIfOrderAlreadyFinished(seen[h][k].code)
    /\ pc[h] = "updateMany" => ~checkIfOrderAlreadyFinished(seen[h][call[h].key].code)

\* A handler gets to an update only through merge's first find.
LEMMA PendingStep ==
  ASSUME TypeOK, HandlerOK, [Next]_vars, NEW g \in Handler, pc'[g] \in {"update", "updateMany"}
  PROVE  \/ pc'[g] = pc[g] /\ call'[g] = call[g] /\ seen'[g] = seen[g]
         \/ \E c \in Call, after \in {"idle", "publish"} : Merge(g, c, after)
<1> DEFINE Kept == pc'[g] = pc[g] /\ call'[g] = call[g] /\ seen'[g] = seen[g]
           Merged == \E c \in Call, after \in {"idle", "publish"} : Merge(g, c, after)
<1>1. CASE UNCHANGED vars
  BY <1>1 DEF vars
<1>2. ASSUME NEW h \in Handler, NEW c \in Call, NEW after \in {"idle", "publish"},
             Merge(h, c, after)
      PROVE  Kept \/ Merged
  BY <1>2, MergeType
<1>3. ASSUME NEW h \in Handler, Receive(h) PROVE Kept \/ Merged
  BY <1>2, <1>3, DataOfType DEF Receive
<1>4. ASSUME NEW h \in Handler, Dispatch(h) PROVE Kept \/ Merged
  <2>1. call[h] \in Call
    BY <1>4 DEF Dispatch, HandlerOK
  <2>2. QED
    BY <1>2, <1>4, <2>1, SyntheticType DEF Dispatch
<1>5. ASSUME NEW h \in Handler, Leave(h) \/ Stop(h), pc[h] # "idle" PROVE Kept
  <2>1. pc'[h] \in {"idle", "publish"} /\ OthersKeep(h)
    BY <1>5, LeaveType
  <2>2. QED
    BY <2>1 DEF OthersKeep
<1>6. ASSUME NEW h \in Handler,
             \/ CreateRefused(h) \/ UpdateRefused(h) \/ UpdateManyRefused(h)
             \/ Publish(h) \/ Fail(h) \/ Crash(h)
      PROVE  Kept
  BY <1>5, <1>6 DEF CreateRefused, UpdateRefused, UpdateManyRefused, Publish, Fail, Crash
<1>7. ASSUME NEW h \in Handler, FindSiblings(h) \/ LinkSibling(h) PROVE Kept
  BY <1>7 DEF FindSiblings, LinkSibling, TypeOK
<1>8. ASSUME NEW h \in Handler, CreateOrder(h) \/ UpdateOrder(h) PROVE Kept
  BY <1>8 DEF CreateOrder, UpdateOrder, Write, TypeOK
<1>9. ASSUME NEW h \in Handler, UpdateMany(h) \/ Reread(h) PROVE Kept
  BY <1>9 DEF UpdateMany, Reread, TypeOK
<1>10. ASSUME NEW h \in Handler, Notify(h) PROVE Kept
  <2>1. CASE call[h].origin = "IHUB"
    BY <1>5, <1>10, <2>1 DEF Notify
  <2>2. CASE call[h].origin # "IHUB"
    BY <1>10, <2>2 DEF Notify, TypeOK
  <2>3. QED
    BY <2>1, <2>2
<1>11. CASE Next
  BY <1>3, <1>4, <1>6, <1>7, <1>8, <1>9, <1>10, <1>11 DEF Next
<1>12. QED
  BY <1>1, <1>11

LEMMA ReadOpenStep == TypeOK /\ HandlerOK /\ ReadOpen /\ [Next]_vars => ReadOpen'
<1>1. SUFFICES ASSUME TypeOK, HandlerOK, ReadOpen, [Next]_vars, NEW g \in Handler
               PROVE  /\ pc'[g] = "update" =>
                           \A k \in Read(g)' : ~checkIfOrderAlreadyFinished(seen'[g][k].code)
                      /\ pc'[g] = "updateMany" =>
                           ~checkIfOrderAlreadyFinished(seen'[g][call'[g].key].code)
  BY DEF ReadOpen
<1>2. CASE pc'[g] = pc[g] /\ call'[g] = call[g] /\ seen'[g] = seen[g]
  BY <1>1, <1>2 DEF ReadOpen, Read
<1>3. ASSUME NEW c \in Call, NEW after \in {"idle", "publish"}, Merge(g, c, after),
             pc'[g] \in {"update", "updateMany"}
      PROVE  /\ pc'[g] = "update" =>
                  \A k \in Read(g)' : ~checkIfOrderAlreadyFinished(seen'[g][k].code)
             /\ pc'[g] = "updateMany" =>
                  ~checkIfOrderAlreadyFinished(seen'[g][call'[g].key].code)
  <2>1. Path(c) # "ignored"
    <3>1. CASE Path(c) = "ignored"
      <4>1. pc'[g] = after
        BY <1>1, <1>3, <3>1 DEF Merge, TypeOK
      <4>2. QED
        BY <1>3, <4>1
    <3>2. QED
      BY <3>1
  <2>2. /\ pc'[g] = Path(c) /\ call'[g] = c
        /\ seen'[g] = [k \in Key |-> IF k \in Found(c) THEN orders[k] ELSE NoOrder]
    BY <1>1, <1>3, <2>1 DEF Merge, TypeOK
  <2>3. \A k \in Read(g)' : k \in Found(c) /\ seen'[g][k] = orders[k]
    BY <2>2 DEF Read
  <2>4. CASE Path(c) = "update"
    <3>1. \A k \in Found(c) : ~checkIfOrderAlreadyFinished(orders[k].code)
      BY <2>4 DEF Path
    <3>2. QED
      BY <2>2, <2>3, <2>4, <3>1
  <2>5. CASE Path(c) = "updateMany"
    <3>1. c.key \in Found(c) /\ ~checkIfOrderAlreadyFinished(orders[c.key].code)
      BY <2>5 DEF Path
    <3>2. c.key \in Key
      BY DEF Call
    <3>3. QED
      BY <2>2, <2>5, <3>1, <3>2
  <2>6. QED
    BY <1>3, <2>2, <2>4, <2>5
<1>4. QED
  BY <1>1, <1>2, <1>3, PendingStep

\* An update of the document that was read, and is open, only adds to it.
LEMMA FreshUpdateLosesNothing ==
  ASSUME NEW c \in Call, NEW copied \in SUBSET Pod, NEW old \in Order,
         ~checkIfOrderAlreadyFinished(old.code), Ordered(old.history)
  PROVE  /\ ~Loses(old, Updated(c, copied, old, old))
         /\ ~Loses(old, UpdatedAmongMany(c, copied, old, old))
<1> DEFINE new == Updated(c, copied, old, old)
           many == UpdatedAmongMany(c, copied, old, old)
<1>1. getStatusScale(old.code) \in 0 .. 6 /\ getStatusScale(c.code) \in 0 .. 6
  BY ScaleRange
<1>2. new.code \in {old.code, c.code} /\ many.code \in {old.code, c.code}
  BY DEF Updated, UpdatedAmongMany, NewCode, NewKeys, Order
<1>3. /\ new.code = c.code => new.code = old.code \/ shouldUpdateSourceOfOrder(c.code, old.code)
      /\ many.code = c.code => many.code = old.code \/ shouldUpdateSourceOfOrder(c.code, old.code)
  BY DEF Updated, UpdatedAmongMany, NewCode, NewKeys, Order
<1>4. /\ ~(getStatusScale(new.code) < getStatusScale(old.code))
      /\ ~(getStatusScale(many.code) < getStatusScale(old.code))
  BY <1>1, <1>2, <1>3 DEF shouldUpdateSourceOfOrder
<1>5. old.keys \subseteq new.keys /\ old.keys \subseteq many.keys
  BY DEF Updated, UpdatedAmongMany, NewCode, NewKeys, Order
<1>6. \A i \in DOMAIN old.history : Knows(NewHistory(c, old, old), old.history[i])
  <2>1. old.history \in Seq(Entry) /\ EntryOf(c) \in Entry
    BY EntryOfType DEF Order
  <2>2. \A i \in DOMAIN old.history : Knows(old.history, old.history[i])
    BY DEF Knows, SameEvent
  <2>3. \A i \in DOMAIN old.history : Knows(Sorted(old.history, EntryOf(c)), old.history[i])
    BY <2>1, SortedKnows
  <2>4. QED
    BY <2>2, <2>3 DEF NewHistory
<1>7. new.history = NewHistory(c, old, old) /\ many.history = NewHistory(c, old, old)
  BY UpdatedFields
<1>8. QED
  BY <1>4, <1>5, <1>6, <1>7 DEF Loses

StaleWrite(k) ==
  \E h \in Handler :
    /\ pc[h] \in {"update", "updateMany"} /\ pc'[h] # pc[h]
    /\ k \in Read(h) /\ seen[h][k] # orders[k]

LEMMA UnchangedLosesNothing == ASSUME NEW old \in Order PROVE ~Loses(old, old)
<1>1. getStatusScale(old.code) \in 0 .. 6
  BY ScaleRange
<1>2. QED
  BY <1>1 DEF Loses, Knows, SameEvent

LEMMA LinkLosesNothing ==
  ASSUME TypeOK, HandlerOK, NEW h \in Handler, LinkSibling(h), NEW k \in Stored
  PROVE  ~Loses(orders[k], orders'[k])
<1>1. PICK s \in left[h] : orders' = [orders EXCEPT ![s].keys = @ \union {call[h].key}]
  BY DEF LinkSibling
<1>2. k \in Key /\ orders[k] \in Order
  BY DEF Stored, TypeOK, Documents
<1>3. CASE k # s
  BY <1>1, <1>2, <1>3, UnchangedLosesNothing DEF TypeOK, Documents
<1>4. CASE k = s
  <2>1. orders'[k] = [orders[k] EXCEPT !.keys = @ \union {call[h].key}]
    BY <1>1, <1>2, <1>4 DEF TypeOK, Documents
  <2>2. /\ orders'[k].code = orders[k].code /\ orders'[k].history = orders[k].history
        /\ orders[k].keys \subseteq orders'[k].keys
    BY <1>2, <2>1 DEF Order
  <2>3. ~Loses(orders[k], orders[k])
    BY <1>2, UnchangedLosesNothing
  <2>4. QED
    BY <2>2, <2>3 DEF Loses
<1>5. QED
  BY <1>3, <1>4

LEMMA UpdateLoses ==
  ASSUME TypeOK, HandlerOK, HistoryOK, ReadOpen, NEW h \in Handler, UpdateOrder(h),
         NEW k \in Stored, Loses(orders[k], orders'[k])
  PROVE  StaleWrite(k)
<1>1. PICK s \in Found(call[h]) \intersect Read(h) :
        \E copied \in Copies(call[h], seen[h][s]) :
          Write(h, s, Updated(call[h], copied, seen[h][s], orders[s]))
  BY DEF UpdateOrder
<1>2. PICK copied \in Copies(call[h], seen[h][s]) :
        Write(h, s, Updated(call[h], copied, seen[h][s], orders[s]))
  BY <1>1
<1>3. orders' = [orders EXCEPT ![s] = Updated(call[h], copied, seen[h][s], orders[s])]
  BY <1>2 DEF Write
<1>4. pc[h] = "update" /\ call[h] \in Call
  BY DEF UpdateOrder, HandlerOK
<1>5. pc'[h] # pc[h]
  BY <1>2, <1>4 DEF Write, TypeOK
<1>6. k \in Key /\ orders[k] \in Order
  BY DEF Stored, TypeOK, Documents
<1>7. copied \in SUBSET Pod
  BY <1>2, <1>4 DEF Copies, Call
<1>8. k = s
  BY <1>3, <1>6, UnchangedLosesNothing DEF TypeOK, Documents
<1>9. orders'[k] = Updated(call[h], copied, seen[h][k], orders[k])
  BY <1>3, <1>6, <1>8 DEF TypeOK, Documents
<1>10. k \in Read(h) /\ ~checkIfOrderAlreadyFinished(seen[h][k].code)
  BY <1>1, <1>4, <1>8 DEF ReadOpen
<1>11. Ordered(orders[k].history)
  BY DEF HistoryOK, GoodHistory, Stored
<1>12. seen[h][k] # orders[k]
  BY <1>4, <1>6, <1>7, <1>9, <1>10, <1>11, FreshUpdateLosesNothing
<1>13. QED
  BY <1>4, <1>5, <1>10, <1>12 DEF StaleWrite

LEMMA AmongManyLoses ==
  ASSUME TypeOK, HandlerOK, HistoryOK, ReadOpen, NEW h \in Handler, pc[h] = "updateMany",
         pc'[h] # pc[h],
         NEW copied \in Copies(call[h], seen[h][call[h].key]),
         orders' = [orders EXCEPT ![call[h].key] =
                      UpdatedAmongMany(call[h], copied, seen[h][call[h].key], @)],
         NEW k \in Stored, Loses(orders[k], orders'[k])
  PROVE  StaleWrite(k)
<1> DEFINE s == call[h].key
<1>1. call[h] \in Call /\ s \in Read(h) /\ ~checkIfOrderAlreadyFinished(seen[h][s].code)
  BY DEF HandlerOK, ReadOpen
<1>2. k \in Key /\ orders[k] \in Order
  BY DEF Stored, TypeOK, Documents
<1>3. copied \in SUBSET Pod
  BY <1>1 DEF Copies, Call
<1>4. k = s
  BY <1>2, UnchangedLosesNothing DEF TypeOK, Documents
<1>5. orders'[k] = UpdatedAmongMany(call[h], copied, seen[h][k], orders[k])
  BY <1>2, <1>4 DEF TypeOK, Documents
<1>6. Ordered(orders[k].history)
  BY DEF HistoryOK, GoodHistory, Stored
<1>7. seen[h][k] # orders[k]
  BY <1>1, <1>2, <1>3, <1>4, <1>5, <1>6, FreshUpdateLosesNothing
<1>8. QED
  BY <1>1, <1>4, <1>7 DEF StaleWrite

LEMMA LosesStep ==
  ASSUME TypeOK, HandlerOK, HistoryOK, ReadOpen, [Next]_vars,
         NEW k \in Stored, Loses(orders[k], orders'[k])
  PROVE  StaleWrite(k)
<1>1. k \in Key /\ orders[k] \in Order
  BY DEF Stored, TypeOK, Documents
<1>2. CASE UNCHANGED orders
  BY <1>1, <1>2, UnchangedLosesNothing
<1>3. ASSUME NEW h \in Handler, CreateOrder(h) PROVE orders'[k] = orders[k]
  BY <1>1, <1>3 DEF CreateOrder, Write, Stored, TypeOK, Documents
<1>4. ASSUME NEW h \in Handler, UpdateMany(h) PROVE StaleWrite(k)
  <2>1. pc[h] = "updateMany" /\ pc'[h] # pc[h]
    BY <1>4 DEF UpdateMany, TypeOK
  <2>2. QED
    BY <1>4, <2>1, AmongManyLoses DEF UpdateMany
<1>5. ASSUME NEW h \in Handler, UpdateManyRefused(h) PROVE StaleWrite(k)
  <2>1. pc[h] = "updateMany" /\ Leave(h)
    BY <1>5 DEF UpdateManyRefused
  <2>2. pc'[h] # pc[h]
    BY <2>1, LeaveType
  <2>3. QED
    BY <1>2, <1>5, <2>1, <2>2, AmongManyLoses DEF UpdateManyRefused
<1>6. ASSUME NEW h \in Handler,
             \/ Receive(h) \/ FindSiblings(h) \/ CreateRefused(h) \/ UpdateRefused(h)
             \/ Reread(h) \/ Notify(h) \/ Dispatch(h) \/ Publish(h) \/ Fail(h) \/ Crash(h)
      PROVE  UNCHANGED orders
  BY <1>6 DEF Receive, FindSiblings, CreateRefused, UpdateRefused, Reread, Notify,
              Dispatch, Publish, Fail, Crash
<1>7. CASE Next
  BY <1>1, <1>2, <1>3, <1>4, <1>5, <1>6, <1>7, LinkLosesNothing, UpdateLoses,
     UnchangedLosesNothing DEF Next
<1>8. QED
  BY <1>2, <1>7 DEF vars

\* With any number of overlapping handlers, a document loses something only by
\* the write of a handler whose read of it is out of date.
THEOREM StaleWritesOnly == Spec => OnlyStaleWritesLose
<1>1. Init => HistoryOK /\ ReadOpen
  BY DEF Init, HistoryOK, Nothing, Read, ReadOpen
<1>2. TypeOK /\ HandlerOK /\ HistoryOK /\ ReadOpen /\ [Next]_vars =>
        [\A k \in Stored : Loses(orders[k], orders'[k]) => StaleWrite(k)]_vars
  BY LosesStep
<1>3. TypeOK /\ HandlerOK /\ HistoryOK /\ ReadOpen /\ [Next]_vars =>
        [\A k \in Stored : Loses(orders[k], orders'[k]) =>
           \E h \in Handler :
             /\ pc[h] \in {"update", "updateMany"} /\ pc'[h] # pc[h]
             /\ k \in Read(h) /\ seen[h][k] # orders[k]]_vars
  BY <1>2 DEF StaleWrite
<1>4. QED
  BY <1>1, <1>3, TypeInit, TypeStep, HistoryStep, ReadOpenStep, PTL
     DEF Spec, OnlyStaleWritesLose
==============================================================================
