------------------------- MODULE OrderSerialProofs ---------------------------
(* Proofs about OrderMerge for handlers that do not overlap: any set of     *)
(* invoices, sales and messages, delivered in any order and any number of   *)
(* times, but one handler.  What OrderMergeProofs shows for handlers that   *)
(* overlap is used here; the difference is that a handler's read is still   *)
(* true when it writes (FreshOK).                                           *)
EXTENDS OrderMergeProofs

USE MicroAssumption, MessageAssumption, ConstantAssumption

\* There is one handler at most: what the theorems of this module assume.
OneAtATime == \A g, h \in Handler : g = h

------------------------------------------------------------------------------
(* The steps of the only handler, by what they do to the variables at h.    *)

\* What merge() of c reads now.
FoundNow(c) == [k \in Key |-> IF k \in Found(c) THEN orders[k] ELSE NoOrder]

\* What merge() found is still what there is.
FreshOK ==
  \A h \in Handler :
    /\ pc[h] # "reread"
    /\ pc[h] \in {"create", "update", "updateMany"} => Path(call[h]) = pc[h]
    /\ pc[h] \in {"update", "updateMany"} => seen[h] = FoundNow(call[h])

\* merge() of c begins, or declines.
Begins(h, c, after) ==
  \/ /\ Path(c) = "ignored" /\ pc'[h] = after
     /\ after # "idle" => call'[h] = c
  \/ /\ Path(c) \in {"create", "update", "updateMany"}
     /\ pc'[h] = Path(c) /\ call'[h] = c /\ seen'[h] = FoundNow(c)

\* The handler ends, or returns to the call it is nested in.
Ends(h) ==
  \/ pc'[h] = "idle" /\ outer'[h] = NoReply
  \/ /\ outer[h] # NoReply /\ pc'[h] = "publish" /\ call'[h] = call[h]
     /\ reply'[h] = outer[h] /\ outer'[h] = NoReply

Arrives(h) ==
  /\ pc[h] = "idle" /\ UNCHANGED <<orders, noticed, told>>
  /\ reply'[h] = reply[h] /\ outer'[h] = outer[h]
  /\ \E m \in Message : Begins(h, DataOf(m), "idle")

Looks(h) ==
  /\ pc[h] = "create" /\ pc'[h] = "insert" /\ UNCHANGED <<orders, noticed, told>>
  /\ \E keys \in SUBSET Key : call'[h] = [call[h] EXCEPT !.keys = @ \union keys]
  /\ outer'[h] = outer[h]

Links(h) ==
  /\ pc[h] = "insert" /\ pc'[h] = "insert" /\ UNCHANGED <<noticed, told>>
  /\ call'[h] = call[h] /\ outer'[h] = outer[h]
  /\ \E s \in Stored : orders' = [orders EXCEPT ![s].keys = @ \union {call[h].key}]

\* The document k is written and will be announced.
Writes(h, k, order) ==
  /\ orders' = [orders EXCEPT ![k] = order] /\ UNCHANGED <<noticed, told>>
  /\ pc'[h] = "notify" /\ reply'[h] = [key |-> k, order |-> order]
  /\ call'[h] = call[h] /\ outer'[h] = outer[h]

Inserts(h) ==
  /\ pc[h] = "insert" /\ orders[call[h].key] = NoOrder
  /\ \E copied \in SUBSET call[h].pods :
       Writes(h, call[h].key, Created(call[h], copied))

\* The document of k is open, and it is the one that the handler's filter matches.
Open(h, k) ==
  /\ k \in Stored /\ k \in Found(call[h])
  /\ ~checkIfOrderAlreadyFinished(orders[k].code)

Updates(h) ==
  /\ pc[h] = "update"
  /\ \E k \in Stored, copied \in SUBSET call[h].pods :
       /\ Open(h, k) /\ Found(call[h]) = {k}
       /\ Writes(h, k, Updated(call[h], copied, orders[k], orders[k]))

Spoils(h) ==
  /\ pc[h] = "updateMany" /\ UNCHANGED <<noticed, told>>
  /\ \/ UNCHANGED orders
     \/ \E k \in Stored, copied \in SUBSET call[h].pods :
          /\ Open(h, k)
          /\ orders' = [orders EXCEPT ![k] =
                          UpdatedAmongMany(call[h], copied, orders[k], orders[k])]
  /\ Ends(h)

Notifies(h) ==
  /\ pc[h] = "notify" /\ UNCHANGED <<orders, told>>
  /\ noticed' \in {noticed, [noticed EXCEPT ![reply[h].key] = reply[h].order.code]}
  /\ \/ pc'[h] = "idle" /\ outer'[h] = NoReply
     \/ /\ call'[h] = call[h] /\ reply'[h] = reply[h] /\ outer'[h] = outer[h]
        /\ \/ pc'[h] = "publish"
           \/ /\ pc'[h] = "dispatch" /\ call[h].origin = "INTELIPOST"
              /\ outer[h] = NoReply /\ NeedsDispatch(reply[h].order)

Dispatches(h) ==
  /\ pc[h] = "dispatch" /\ UNCHANGED <<orders, noticed, told>>
  /\ Begins(h, Synthetic(call[h]), "publish")
  /\ \/ pc'[h] = "publish" /\ outer'[h] = outer[h] /\ reply'[h] = reply[h]
     \/ pc'[h] # "publish" /\ outer'[h] = reply[h]

Publishes(h) ==
  /\ pc[h] = "publish" /\ UNCHANGED <<orders, noticed>>
  /\ LET r == reply[h]
         code == IF outer[h] # NoReply THEN call[h].code ELSE r.order.code
     IN  told' \in {told, [told EXCEPT ![r.key] = code]}
  /\ Ends(h)

Stops(h) == pc[h] # "idle" /\ UNCHANGED <<orders, noticed, told>> /\ Ends(h)

LEMMA MergeBegins ==
  ASSUME TypeOK, NEW h \in Handler, NEW c, NEW after, Merge(h, c, after)
  PROVE  Begins(h, c, after)
<1>1. Path(c) \in {"create", "ignored", "update", "updateMany"}
  BY DEF Path
<1>2. CASE Path(c) = "ignored"
  BY <1>2 DEF Merge, Begins, TypeOK
<1>3. CASE Path(c) # "ignored"
  BY <1>1, <1>3 DEF Merge, Begins, FoundNow, TypeOK
<1>4. QED
  BY <1>2, <1>3

LEMMA LeaveEnds ==
  ASSUME TypeOK, NEW h \in Handler, Leave(h) \/ Stop(h) PROVE Ends(h)
<1>1. CASE Stop(h)
  BY <1>1 DEF Stop, Ends, TypeOK
<1>2. CASE Leave(h) /\ outer[h] # NoReply
  BY <1>2 DEF Leave, Ends, TypeOK
<1>3. QED
  BY <1>1, <1>2 DEF Leave

\* What the filter of a handler about to update matches.
LEMMA FreshUpdate ==
  ASSUME TypeOK, HandlerOK, FreshOK, NEW h \in Handler, pc[h] = "update",
         NEW k \in Found(call[h])
  PROVE  Found(call[h]) = {k} /\ Open(h, k) /\ seen[h][k] = orders[k]
<1>1. Path(call[h]) = "update" /\ seen[h] = FoundNow(call[h])
  BY DEF FreshOK
<1>2. Found(call[h]) = {k} /\ ~checkIfOrderAlreadyFinished(orders[k].code)
  BY <1>1 DEF Path
<1>3. k \in Stored /\ k \in Key
  BY FoundStored DEF Stored
<1>4. QED
  BY <1>1, <1>2, <1>3 DEF Open, FoundNow

LEMMA FreshAmongMany ==
  ASSUME TypeOK, HandlerOK, FreshOK, NEW h \in Handler, pc[h] = "updateMany"
  PROVE  /\ Open(h, call[h].key) /\ seen[h][call[h].key] = orders[call[h].key]
         /\ Found(call[h]) # {call[h].key}
<1>1. Path(call[h]) = "updateMany" /\ seen[h] = FoundNow(call[h])
  BY DEF FreshOK
<1>2. /\ call[h].key \in Found(call[h]) /\ Found(call[h]) # {call[h].key}
      /\ ~checkIfOrderAlreadyFinished(orders[call[h].key].code)
  BY <1>1 DEF Path
<1>3. call[h].key \in Stored /\ call[h].key \in Key
  BY <1>2, FoundStored DEF Stored
<1>4. QED
  BY <1>1, <1>2, <1>3 DEF Open, FoundNow

LEMMA UpdateKind ==
  ASSUME TypeOK, HandlerOK, FreshOK, NEW h \in Handler, UpdateOrder(h) PROVE Updates(h)
<1>1. PICK k \in Found(call[h]) \intersect Read(h) :
        \E copied \in Copies(call[h], seen[h][k]) :
          Write(h, k, Updated(call[h], copied, seen[h][k], orders[k]))
  BY DEF UpdateOrder
<1>2. PICK copied \in Copies(call[h], seen[h][k]) :
        Write(h, k, Updated(call[h], copied, seen[h][k], orders[k]))
  BY <1>1
<1>3. pc[h] = "update"
  BY DEF UpdateOrder
<1>4. Found(call[h]) = {k} /\ Open(h, k) /\ seen[h][k] = orders[k]
  BY <1>1, <1>3, FreshUpdate
<1>5. copied \in SUBSET call[h].pods /\ k \in Stored
  BY <1>2, <1>4 DEF Copies, Open
<1>6. Writes(h, k, Updated(call[h], copied, orders[k], orders[k]))
  BY <1>2, <1>4 DEF Write, Writes, TypeOK
<1>7. QED
  BY <1>3, <1>4, <1>5, <1>6 DEF Updates

LEMMA RefusedKind ==
  ASSUME TypeOK, HandlerOK, FreshOK, NEW h \in Handler, UpdateManyRefused(h) PROVE Spoils(h)
<1>1. pc[h] = "updateMany" /\ Ends(h) /\ UNCHANGED <<noticed, told>>
  BY LeaveEnds DEF UpdateManyRefused
<1>2. Open(h, call[h].key) /\ seen[h][call[h].key] = orders[call[h].key]
  BY <1>1, FreshAmongMany
<1>3. CASE UNCHANGED orders
  BY <1>1, <1>3 DEF Spoils
<1>4. ASSUME NEW copied \in Copies(call[h], seen[h][call[h].key]),
             orders' = [orders EXCEPT ![call[h].key] =
                          UpdatedAmongMany(call[h], copied, seen[h][call[h].key], @)]
      PROVE  Spoils(h)
  <2>1. copied \in SUBSET call[h].pods /\ call[h].key \in Stored
    BY <1>2, <1>4 DEF Copies, Open
  <2>2. orders' = [orders EXCEPT ![call[h].key] =
                     UpdatedAmongMany(call[h], copied, orders[call[h].key],
                                      orders[call[h].key])]
    BY <1>2, <1>4
  <2>3. QED
    BY <1>1, <1>2, <2>1, <2>2 DEF Spoils
<1>5. QED
  BY <1>3, <1>4 DEF UpdateManyRefused

LEMMA NotifyKind ==
  ASSUME TypeOK, NEW h \in Handler, Notify(h) PROVE Notifies(h)
<1>1. pc[h] = "notify" /\ UNCHANGED <<orders, told>>
  BY DEF Notify
<1>2. noticed' \in {noticed, [noticed EXCEPT ![reply[h].key] = reply[h].order.code]}
  BY DEF Notify
<1>3. CASE call[h].origin = "IHUB"
  BY <1>1, <1>2, <1>3 DEF Notify, Notifies, Stop, TypeOK
<1>4. CASE call[h].origin # "IHUB"
  <2>1. UNCHANGED <<call, seen, left, reply, outer>>
    BY <1>4 DEF Notify
  <2>2. \/ pc'[h] = "publish"
        \/ /\ pc'[h] = "dispatch" /\ call[h].origin = "INTELIPOST"
           /\ outer[h] = NoReply /\ NeedsDispatch(reply[h].order)
    BY <1>4 DEF Notify, TypeOK
  <2>3. QED
    BY <1>1, <1>2, <2>1, <2>2 DEF Notifies
<1>5. QED
  BY <1>3, <1>4

LEMMA DispatchKind ==
  ASSUME TypeOK, NEW h \in Handler, Dispatch(h) PROVE Dispatches(h)
<1> DEFINE c == Synthetic(call[h])
<1>1. /\ pc[h] = "dispatch" /\ UNCHANGED <<orders, noticed, told>>
      /\ Merge(h, c, "publish")
      /\ outer' = IF Path(c) = "ignored" THEN outer ELSE [outer EXCEPT ![h] = reply[h]]
      /\ reply' = IF Path(c) = "ignored" THEN reply ELSE [reply EXCEPT ![h] = NoReply]
  BY DEF Dispatch
<1> HIDE DEF c
<1>2. Begins(h, c, "publish")
  BY <1>1, MergeBegins
<1>3. CASE Path(c) = "ignored"
  <2>1. pc'[h] = "publish"
    BY <1>2, <1>3 DEF Begins
  <2>2. QED
    BY <1>1, <1>2, <1>3, <2>1 DEF Dispatches, c
<1>4. CASE Path(c) # "ignored"
  <2>1. pc'[h] # "publish"
    BY <1>2, <1>4 DEF Begins
  <2>2. outer'[h] = reply[h]
    BY <1>1, <1>4 DEF TypeOK
  <2>3. QED
    BY <1>1, <1>2, <2>1, <2>2 DEF Dispatches, c
<1>5. QED
  BY <1>3, <1>4

LEMMA FindKind ==
  ASSUME TypeOK, HandlerOK, NEW h \in Handler, FindSiblings(h) PROVE Looks(h)
<1>1. PICK keys \in IF OfSale(call[h].sale) = {} THEN {{}}
                    ELSE {orders[k].keys : k \in OfSale(call[h].sale)} :
        call' = [call EXCEPT ![h].keys = @ \union keys]
  BY DEF FindSiblings
<1>2. \A k \in OfSale(call[h].sale) : orders[k].keys \in SUBSET Key
  BY DEF OfSale, Stored, TypeOK, Documents, Order
<1>3. keys \in SUBSET Key
  BY <1>1, <1>2
<1>4. call'[h] = [call[h] EXCEPT !.keys = @ \union keys]
  BY <1>1 DEF TypeOK
<1>5. QED
  BY <1>3, <1>4 DEF FindSiblings, Looks, TypeOK

\* Every step is one of these.  updateMany never succeeds: it is tried only
\* when several documents match.
LEMMA Kinds ==
  ASSUME OneAtATime, TypeOK, HandlerOK, FreshOK, Next, NEW h \in Handler
  PROVE  \/ Arrives(h) \/ Looks(h) \/ Links(h) \/ Inserts(h) \/ Updates(h) \/ Spoils(h)
         \/ Notifies(h) \/ Dispatches(h) \/ Publishes(h) \/ Stops(h)
<1>1. PICK g \in Handler :
        \/ Receive(g)
        \/ FindSiblings(g) \/ LinkSibling(g) \/ CreateOrder(g) \/ CreateRefused(g)
        \/ UpdateOrder(g) \/ UpdateRefused(g)
        \/ UpdateMany(g) \/ UpdateManyRefused(g) \/ Reread(g)
        \/ Notify(g) \/ Dispatch(g) \/ Publish(g)
        \/ Fail(g) \/ Crash(g)
  BY DEF Next
<1>2. g = h
  BY DEF OneAtATime
<1>3. CASE Receive(h)
  BY <1>3, MergeBegins DEF Receive, Arrives
<1>4. CASE LinkSibling(h)
  BY <1>4 DEF LinkSibling, Links, HandlerOK
<1>5. CASE CreateOrder(h)
  <2>1. PICK copied \in SUBSET call[h].pods :
          Write(h, call[h].key, Created(call[h], copied))
    BY <1>5 DEF CreateOrder
  <2>2. h \in DOMAIN pc /\ h \in DOMAIN reply
    BY DEF TypeOK
  <2>3. Writes(h, call[h].key, Created(call[h], copied))
    BY <2>1, <2>2 DEF Write, Writes
  <2>4. QED
    BY <1>5, <2>3 DEF CreateOrder, Inserts
<1>6. CASE UpdateMany(h)
  BY <1>6, FreshAmongMany DEF UpdateMany
<1>7. CASE Reread(h)
  BY <1>7 DEF Reread, FreshOK
<1>8. CASE Publish(h)
  <2>1. Ends(h)
    BY <1>8, LeaveEnds DEF Publish
  <2>2. QED
    BY <1>8, <2>1 DEF Publish, Publishes
<1>9. CASE CreateRefused(h) \/ UpdateRefused(h) \/ Fail(h) \/ Crash(h)
  <2>1. pc[h] # "idle" /\ UNCHANGED <<orders, noticed, told>> /\ (Leave(h) \/ Stop(h))
    BY <1>9 DEF CreateRefused, UpdateRefused, Fail, Crash
  <2>2. QED
    BY <2>1, LeaveEnds DEF Stops
<1>10. QED
  BY <1>1, <1>2, <1>3, <1>4, <1>5, <1>6, <1>7, <1>8, <1>9, UpdateKind, RefusedKind,
     NotifyKind, DispatchKind, FindKind

------------------------------------------------------------------------------
(* What merge read stays true until it writes.                              *)

LEMMA BeginsFresh ==
  ASSUME NEW h \in Handler, NEW c, NEW after \in {"idle", "publish"}, Begins(h, c, after),
         UNCHANGED orders
  PROVE  /\ pc'[h] # "reread"
         /\ pc'[h] \in {"create", "update", "updateMany"} => Path(call[h])' = pc'[h]
         /\ pc'[h] \in {"update", "updateMany"} => seen'[h] = FoundNow(call[h])'
<1>1. \A d : Found(d)' = Found(d)
  BY DEF Found, OfSale, Stored
<1>2. \A d : Path(d)' = Path(d) /\ FoundNow(d)' = FoundNow(d)
  BY <1>1 DEF Path, FoundNow
<1>3. CASE Path(c) = "ignored"
  BY <1>3 DEF Begins
<1>4. CASE pc'[h] = Path(c) /\ call'[h] = c /\ seen'[h] = FoundNow(c) /\ Path(c) # "ignored"
  <2>1. Path(call[h])' = Path(c) /\ FoundNow(call[h])' = FoundNow(c)
    BY <1>2, <1>4 DEF Path, FoundNow, Found, OfSale, Stored
  <2>2. pc'[h] # "reread"
    BY <1>3, <1>4 DEF Begins
  <2>3. QED
    BY <1>4, <2>1, <2>2
<1>5. QED
  BY <1>3, <1>4 DEF Begins

\* The find of merge, and so what it decided, is as good when the handler writes.
LEMMA FreshStep ==
  ASSUME OneAtATime, TypeOK, HandlerOK, FreshOK, [Next]_vars PROVE FreshOK'
<1>1. CASE UNCHANGED vars
  <2>1. \A d : Found(d)' = Found(d)
    BY <1>1 DEF Found, OfSale, Stored, vars
  <2>2. \A h : Path(call[h])' = Path(call[h]) /\ FoundNow(call[h])' = FoundNow(call[h])
    BY <1>1, <2>1 DEF Path, FoundNow, Found, OfSale, Stored, vars
  <2>3. QED
    BY <1>1, <2>2 DEF FreshOK, vars
<1>2. ASSUME Next, NEW h \in Handler
      PROVE  /\ pc'[h] # "reread"
             /\ pc'[h] \in {"create", "update", "updateMany"} => Path(call[h])' = pc'[h]
             /\ pc'[h] \in {"update", "updateMany"} => seen'[h] = FoundNow(call[h])'
  <2>1. CASE Arrives(h) \/ Dispatches(h)
    BY <2>1, BeginsFresh DEF Arrives, Dispatches
  <2>2. CASE \/ Looks(h) \/ Links(h) \/ Inserts(h) \/ Updates(h) \/ Spoils(h)
             \/ Notifies(h) \/ Publishes(h) \/ Stops(h)
    <3>1. pc'[h] \in {"idle", "insert", "notify", "dispatch", "publish"}
      BY <2>2 DEF Looks, Links, Inserts, Updates, Spoils, Notifies, Publishes, Stops,
                  Writes, Ends
    <3>2. QED
      BY <3>1
  <2>3. QED
    BY <1>2, <2>1, <2>2, Kinds
<1>3. CASE Next
  BY <1>2, <1>3 DEF FreshOK
<1>4. QED
  BY <1>1, <1>3

------------------------------------------------------------------------------
(* What the data of a call is like.                                         *)

Proper(c) == c.key \in c.keys /\ (c.code.macro = "delivered" => c.status = "delivered")

CallsOK == \A h \in Handler : pc[h] # "idle" => Proper(call[h])

LEMMA DataOfProper == ASSUME NEW m \in Message PROVE Proper(DataOf(m))
<1>1. m.key \in m.keys /\ m.code.macro \in Macro
  BY DEF MessageType, StatusCode
<1>2. \A code, status : WithCode(m, code, status).key = m.key
                        /\ WithCode(m, code, status).keys = m.keys
                        /\ WithCode(m, code, status).code = code
                        /\ WithCode(m, code, status).status = status
  BY DEF WithCode
<1>3. CASE m.origin = "IHUB"
  <2>1. m.code.macro # "delivered"
    BY <1>3
  <2>2. QED
    BY <1>1, <1>2, <1>3, <2>1 DEF DataOf, Proper
<1>4. CASE m.origin # "IHUB"
  <2>1. PICK code : DataOf(m) = WithCode(m, code, StatusOf(code))
    BY <1>4 DEF DataOf
  <2>2. /\ DataOf(m).key = m.key /\ DataOf(m).keys = m.keys
        /\ DataOf(m).code = code /\ DataOf(m).status = StatusOf(code)
    BY <1>2, <2>1
  <2>3. QED
    BY <1>1, <2>2 DEF Proper, StatusOf
<1>5. QED
  BY <1>3, <1>4

LEMMA SyntheticFields ==
  ASSUME NEW c \in Call
  PROVE  /\ Synthetic(c).key = c.key /\ Synthetic(c).keys = c.keys /\ Synthetic(c).sale = c.sale
         /\ Synthetic(c).origin = c.origin /\ Synthetic(c).id = SyntheticId
         /\ Synthetic(c).code = [macro |-> "order-dispatched", micro |-> "dispatched"]
BY DEF Synthetic, WithCode

LEMMA CallsStep ==
  ASSUME OneAtATime, TypeOK, HandlerOK, FreshOK, CallsOK, [Next]_vars PROVE CallsOK'
<1>1. CASE UNCHANGED vars
  BY <1>1 DEF CallsOK, vars
<1>2. ASSUME Next, NEW h \in Handler, pc'[h] # "idle" PROVE Proper(call'[h])
  <2>1. CASE Arrives(h)
    BY <1>2, <2>1, DataOfProper DEF Arrives, Begins
  <2>2. CASE Dispatches(h)
    <3>1. call'[h] = Synthetic(call[h]) /\ call[h] \in Call /\ Proper(call[h])
      BY <2>2 DEF Dispatches, Begins, HandlerOK, CallsOK
    <3>2. QED
      BY <3>1, SyntheticFields DEF Proper
  <2>3. CASE Looks(h)
    <3>1. PICK keys : call'[h] = [call[h] EXCEPT !.keys = @ \union keys]
      BY <2>3 DEF Looks
    <3>2. call[h] \in Call /\ Proper(call[h])
      BY <2>3 DEF Looks, HandlerOK, CallsOK
    <3>3. QED
      BY <3>1, <3>2 DEF Call, Proper
  <2>4. CASE \/ Links(h) \/ Inserts(h) \/ Updates(h) \/ Spoils(h)
             \/ Notifies(h) \/ Publishes(h) \/ Stops(h)
    <3>1. call'[h] = call[h] /\ pc[h] # "idle"
      BY <1>2, <2>4 DEF Links, Inserts, Updates, Spoils, Notifies, Publishes, Stops,
                  Writes, Ends
    <3>2. QED
      BY <3>1 DEF CallsOK
  <2>5. QED
    BY <1>2, <2>1, <2>2, <2>3, <2>4, Kinds
<1>3. QED
  BY <1>1, <1>2 DEF CallsOK, Proper

------------------------------------------------------------------------------
(* What a step does to one document.                                        *)

Grown(h, k) ==
  \/ orders'[k] = orders[k]
  \/ /\ orders[k] = NoOrder /\ pc[h] = "insert" /\ k = call[h].key
     /\ \E copied \in SUBSET call[h].pods : orders'[k] = Created(call[h], copied)
  \/ /\ orders[k] # NoOrder /\ pc[h] = "insert"
     /\ orders'[k] = [orders[k] EXCEPT !.keys = @ \union {call[h].key}]
  \/ /\ Open(h, k) /\ pc[h] \in {"update", "updateMany"}
     /\ \E copied \in SUBSET call[h].pods :
          orders'[k] \in {Updated(call[h], copied, orders[k], orders[k]),
                          UpdatedAmongMany(call[h], copied, orders[k], orders[k])}

LEMMA Growth ==
  ASSUME OneAtATime, TypeOK, HandlerOK, FreshOK, Next, NEW h \in Handler, NEW k \in Key
  PROVE  Grown(h, k)
<1>1. CASE UNCHANGED orders
  BY <1>1 DEF Grown
<1>2. CASE Links(h)
  <2>1. PICK s \in Stored : orders' = [orders EXCEPT ![s].keys = @ \union {call[h].key}]
    BY <1>2 DEF Links
  <2>2. s \in Key /\ orders[s] # NoOrder
    BY DEF Stored
  <2>3. CASE k = s
    BY <1>2, <2>1, <2>2, <2>3 DEF Grown, Links, TypeOK, Documents
  <2>4. CASE k # s
    BY <2>1, <2>4 DEF Grown, TypeOK, Documents
  <2>5. QED
    BY <2>3, <2>4
<1>3. CASE Inserts(h)
  <2>1. PICK copied \in SUBSET call[h].pods :
          orders' = [orders EXCEPT ![call[h].key] = Created(call[h], copied)]
    BY <1>3 DEF Inserts, Writes
  <2>2. CASE k = call[h].key
    BY <1>3, <2>1, <2>2 DEF Grown, Inserts, TypeOK, Documents
  <2>3. CASE k # call[h].key
    BY <2>1, <2>3 DEF Grown, TypeOK, Documents
  <2>4. QED
    BY <2>2, <2>3
<1>4. CASE Updates(h)
  <2>1. PICK s \in Stored, copied \in SUBSET call[h].pods :
          /\ Open(h, s)
          /\ orders' = [orders EXCEPT ![s] = Updated(call[h], copied, orders[s], orders[s])]
    BY <1>4 DEF Updates, Writes
  <2>2. CASE k = s
    BY <1>4, <2>1, <2>2 DEF Grown, Updates, TypeOK, Documents
  <2>3. CASE k # s
    BY <2>1, <2>3 DEF Grown, TypeOK, Documents
  <2>4. QED
    BY <2>2, <2>3
<1>5. CASE Spoils(h) /\ ~UNCHANGED orders
  <2>1. PICK s \in Stored, copied \in SUBSET call[h].pods :
          /\ Open(h, s)
          /\ orders' = [orders EXCEPT ![s] =
                          UpdatedAmongMany(call[h], copied, orders[s], orders[s])]
    BY <1>5 DEF Spoils
  <2>2. CASE k = s
    BY <1>5, <2>1, <2>2 DEF Grown, Spoils, TypeOK, Documents
  <2>3. CASE k # s
    BY <2>1, <2>3 DEF Grown, TypeOK, Documents
  <2>4. QED
    BY <2>2, <2>3
<1>6. Arrives(h) \/ Looks(h) \/ Notifies(h) \/ Dispatches(h) \/ Publishes(h) \/ Stops(h)
        => UNCHANGED orders
  BY DEF Arrives, Looks, Notifies, Dispatches, Publishes, Stops
<1>7. QED
  BY <1>1, <1>2, <1>3, <1>4, <1>5, <1>6, Kinds

------------------------------------------------------------------------------
(* What every document is like.                                             *)

GoodOrder(k, o) ==
  /\ k \in o.keys
  /\ \A i \in DOMAIN o.history : o.history[i].about \in o.keys
  /\ \A i \in DOMAIN o.history : Scale(o.history[i]) <= getStatusScale(o.code)
  /\ o.code.macro = "delivered" => o.status = "delivered"

DocumentsOK == \A k \in Stored : GoodOrder(k, orders[k])

LEMMA EntryOfFields ==
  ASSUME NEW c
  PROVE  EntryOf(c).about = c.key /\ EntryOf(c).code = c.code /\ EntryOf(c).id = c.id
         /\ EntryOf(c).at = c.at
BY DEF EntryOf

\* generateHistory brings in nothing but the event.
LEMMA NewHistoryFrom ==
  ASSUME NEW c \in Call, NEW old \in Order, NEW i \in DOMAIN NewHistory(c, old, old)
  PROVE  \/ KeepsHistory(c) /\ NewHistory(c, old, old)[i] = EntryOf(c)
         \/ \E j \in DOMAIN old.history : NewHistory(c, old, old)[i] = old.history[j]
<1>1. old.history \in Seq(Entry) /\ EntryOf(c) \in Entry
  BY EntryOfType DEF Order
<1>2. CASE KeepsHistory(c) /\ ~Knows(old.history, EntryOf(c))
  BY <1>1, <1>2, SortedFrom DEF NewHistory
<1>3. CASE ~(KeepsHistory(c) /\ ~Knows(old.history, EntryOf(c)))
  BY <1>3 DEF NewHistory
<1>4. QED
  BY <1>2, <1>3

LEMMA CreatedGoodOrder ==
  ASSUME NEW c \in Call, Proper(c), NEW copied PROVE GoodOrder(c.key, Created(c, copied))
<1> DEFINE o == Created(c, copied)
<1>1. /\ o.keys = c.keys /\ o.code = c.code /\ o.status = c.status
      /\ o.history = IF KeepsHistory(c) THEN <<EntryOf(c)>> ELSE <<>>
  BY DEF Created
<1>2. \A i \in DOMAIN o.history : o.history[i] = EntryOf(c)
  BY <1>1
<1>3. getStatusScale(c.code) \in 0 .. 6
  BY ScaleRange
<1>4. Scale(EntryOf(c)) <= getStatusScale(o.code) /\ EntryOf(c).about \in o.keys
  BY <1>1, <1>3, EntryOfFields DEF Proper, Scale
<1>5. c.key \in o.keys /\ (o.code.macro = "delivered" => o.status = "delivered")
  BY <1>1 DEF Proper
<1> HIDE DEF o
<1>6. GoodOrder(c.key, o)
  BY <1>2, <1>4, <1>5 DEF GoodOrder
<1>7. QED
  BY <1>6 DEF o

\* The status that an update of a document from itself leaves.
LEMMA UpdatedStatus ==
  ASSUME NEW c \in Call, Proper(c), NEW copied, NEW old \in Order,
         old.code.macro = "delivered" => old.status = "delivered",
         NEW new \in {Updated(c, copied, old, old), UpdatedAmongMany(c, copied, old, old)}
  PROVE  /\ new.code = IF shouldUpdateSourceOfOrder(c.code, old.code) THEN c.code ELSE old.code
         /\ new.code.macro = "delivered" => new.status = "delivered"
         /\ new.keys = c.keys \union old.keys
         /\ new.history = NewHistory(c, old, old)
         /\ new.pods = NewPods(c, copied, old)
<1> DEFINE should == shouldUpdateSourceOfOrder(c.code, old.code)
<1>1. CASE new = UpdatedAmongMany(c, copied, old, old)
  BY <1>1 DEF UpdatedAmongMany, NewKeys, Order, Proper
<1>2. CASE new = Updated(c, copied, old, old)
  <2>1. /\ new.keys = c.keys \union old.keys
        /\ new.history = NewHistory(c, old, old)
        /\ new.pods = NewPods(c, copied, old)
        /\ new.code = IF should THEN c.code ELSE old.code
    BY <1>2 DEF Updated, NewKeys, NewCode, Order
  <2>2. CASE should
    <3>1. new.status = IF c.status # "" THEN c.status ELSE old.status
      BY <1>2, <2>2 DEF Updated, Order
    <3>2. QED
      BY <2>1, <2>2, <3>1 DEF Proper
  <2>3. CASE ~should
    <3>1. old.status # "" => new.status = old.status
      BY <1>2, <2>3 DEF Updated, Order
    <3>2. QED
      BY <2>1, <2>3, <3>1
  <2>4. QED
    BY <2>1, <2>2, <2>3
<1>3. QED
  BY <1>1, <1>2

LEMMA UpdatedGoodOrder ==
  ASSUME NEW c \in Call, Proper(c), NEW copied, NEW k \in Key, NEW old \in Order,
         GoodOrder(k, old),
         NEW new \in {Updated(c, copied, old, old), UpdatedAmongMany(c, copied, old, old)}
  PROVE  GoodOrder(k, new)
<1>1. /\ new.code = IF shouldUpdateSourceOfOrder(c.code, old.code) THEN c.code ELSE old.code
      /\ new.code.macro = "delivered" => new.status = "delivered"
      /\ new.keys = c.keys \union old.keys /\ new.history = NewHistory(c, old, old)
  BY UpdatedStatus DEF GoodOrder
<1>2. /\ getStatusScale(c.code) <= getStatusScale(new.code)
      /\ getStatusScale(old.code) <= getStatusScale(new.code)
      /\ getStatusScale(new.code) \in 0 .. 6 /\ getStatusScale(c.code) \in 0 .. 6
      /\ getStatusScale(old.code) \in 0 .. 6
  BY <1>1, ScaleRange DEF shouldUpdateSourceOfOrder
<1>3. ASSUME NEW i \in DOMAIN new.history
      PROVE  /\ new.history[i].about \in new.keys
             /\ Scale(new.history[i]) <= getStatusScale(new.code)
  <2>1. CASE new.history[i] = EntryOf(c)
    BY <1>1, <1>2, <2>1, EntryOfFields DEF Proper, Scale
  <2>2. ASSUME NEW j \in DOMAIN old.history, new.history[i] = old.history[j]
        PROVE  /\ new.history[i].about \in new.keys
               /\ Scale(new.history[i]) <= getStatusScale(new.code)
    <3>1. old.history[j].about \in old.keys /\ Scale(old.history[j]) <= getStatusScale(old.code)
      BY <2>2 DEF GoodOrder
    <3>2. Scale(old.history[j]) \in 0 .. 6
      BY ScaleRange DEF Scale
    <3>3. QED
      BY <1>1, <1>2, <2>2, <3>1, <3>2
  <2>3. QED
    BY <1>1, <1>3, <2>1, <2>2, NewHistoryFrom
<1>4. k \in new.keys
  BY <1>1 DEF GoodOrder
<1>5. QED
  BY <1>1, <1>3, <1>4 DEF GoodOrder

LEMMA DocumentsStep ==
  ASSUME OneAtATime, TypeOK, HandlerOK, FreshOK, CallsOK, DocumentsOK, [Next]_vars
  PROVE  DocumentsOK'
<1>1. CASE UNCHANGED vars
  BY <1>1 DEF DocumentsOK, Stored, vars
<1>2. ASSUME Next, NEW h \in Handler, NEW k \in Key, orders'[k] # NoOrder
      PROVE  GoodOrder(k, orders'[k])
  <2>1. CASE orders'[k] = orders[k]
    BY <1>2, <2>1 DEF DocumentsOK, Stored
  <2>2. CASE /\ pc[h] = "insert" /\ k = call[h].key
             /\ \E copied \in SUBSET call[h].pods : orders'[k] = Created(call[h], copied)
    BY <2>2, CreatedGoodOrder DEF HandlerOK, CallsOK
  <2>3. CASE /\ orders[k] # NoOrder
             /\ orders'[k] = [orders[k] EXCEPT !.keys = @ \union {call[h].key}]
    <3>1. orders[k] \in Order /\ GoodOrder(k, orders[k])
      BY <2>3 DEF TypeOK, Documents, DocumentsOK, Stored
    <3>2. /\ orders'[k].history = orders[k].history /\ orders'[k].code = orders[k].code
          /\ orders'[k].status = orders[k].status /\ orders[k].keys \subseteq orders'[k].keys
      BY <2>3, <3>1 DEF Order
    <3>3. QED
      BY <3>1, <3>2 DEF GoodOrder
  <2>4. CASE /\ Open(h, k) /\ pc[h] \in {"update", "updateMany"}
             /\ \E copied \in SUBSET call[h].pods :
                  orders'[k] \in {Updated(call[h], copied, orders[k], orders[k]),
                                  UpdatedAmongMany(call[h], copied, orders[k], orders[k])}
    <3>1. orders[k] \in Order /\ GoodOrder(k, orders[k])
      BY <2>4 DEF Open, TypeOK, Documents, DocumentsOK, Stored
    <3>2. call[h] \in Call /\ Proper(call[h])
      BY <2>4 DEF HandlerOK, CallsOK
    <3>3. QED
      BY <2>4, <3>1, <3>2, UpdatedGoodOrder
  <2>5. QED
    BY <1>2, <2>1, <2>2, <2>3, <2>4, Growth DEF Grown
<1>3. ASSUME Next PROVE \E h \in Handler : TRUE
  BY <1>3 DEF Next
<1>4. CASE Next
  BY <1>2, <1>3, <1>4 DEF DocumentsOK, Stored
<1>5. QED
  BY <1>1, <1>4

------------------------------------------------------------------------------
(* The invariant, and what it says of the documents.                        *)

SerialOK ==
  /\ TypeOK /\ HandlerOK /\ HistoryOK
  /\ FreshOK /\ CallsOK /\ DocumentsOK

LEMMA SerialInit == Init => SerialOK
<1>1. Init => HistoryOK
  BY DEF Init, HistoryOK, Nothing, Read
<1>2. Init => FreshOK /\ CallsOK
  BY DEF Init, FreshOK, CallsOK
<1>3. Init => DocumentsOK
  BY DEF Init, DocumentsOK, Stored, Nothing
<1>4. QED
  BY <1>1, <1>2, <1>3, TypeInit DEF SerialOK

LEMMA SerialStep == ASSUME OneAtATime PROVE SerialOK /\ [Next]_vars => SerialOK'
BY TypeStep, HistoryStep, FreshStep, CallsStep, DocumentsStep DEF SerialOK

\* Each event can be found by the invoice it came with.
THEOREM EntriesAlwaysListed == ASSUME OneAtATime PROVE Spec => []EntriesListed
<1>1. SerialOK => EntriesListed
  BY DEF SerialOK, DocumentsOK, GoodOrder, EntriesListed
<1>2. QED
  BY <1>1, SerialInit, SerialStep, PTL DEF Spec

\* Late events are filed below the status: no event in a history is further
\* along than the order.
THEOREM HistoryAlwaysCovered == ASSUME OneAtATime PROVE Spec => []CodeCoversHistory
<1>1. SerialOK => CodeCoversHistory
  BY DEF SerialOK, DocumentsOK, GoodOrder, CodeCoversHistory
<1>2. QED
  BY <1>1, SerialInit, SerialStep, PTL DEF Spec

\* A delivered order has the status "delivered", whatever arrived before and after.
THEOREM DeliveredAlwaysSays == ASSUME OneAtATime PROVE Spec => []DeliveredHasStatus
<1>1. SerialOK => DeliveredHasStatus
  BY DEF SerialOK, DocumentsOK, GoodOrder, DeliveredHasStatus
<1>2. QED
  BY <1>1, SerialInit, SerialStep, PTL DEF Spec

------------------------------------------------------------------------------
(* Refusals.                                                                *)

\* The messages of one invoice that name a sale name the same one.
OneSaleEach ==
  \A m, n \in Message : m.key = n.key /\ NoSale \notin {m.sale, n.sale} => m.sale = n.sale

\* Some message of invoice k brought this sale.
Brought(k, sale) == \E m \in Message : m.key = k /\ m.sale = sale

\* The sale of the data came with a message; a tracking alone has none.
Came(c) == Brought(c.key, c.sale) /\ (c.origin \in Tracking \/ c.sale # NoSale)

\* The sale of a document, and of the data of a handler, came with a message.
SalesOK ==
  /\ \A k \in Stored : Brought(k, orders[k].sale)
  /\ \A h \in Handler : pc[h] # "idle" => Came(call[h])

LEMMA DataBrought == ASSUME NEW m \in Message PROVE Came(DataOf(m))
<1>1. \A code, status : WithCode(m, code, status).key = m.key
                        /\ WithCode(m, code, status).sale = m.sale
                        /\ WithCode(m, code, status).origin = m.origin
  BY DEF WithCode
<1>2. DataOf(m).key = m.key /\ DataOf(m).sale = m.sale /\ DataOf(m).origin = m.origin
  BY <1>1 DEF DataOf
<1>3. m.origin \in Tracking \/ m.sale # NoSale
  BY DEF MessageType, Origin, Tracking
<1>4. QED
  BY <1>2, <1>3 DEF Brought, Came

LEMMA SalesStep ==
  ASSUME OneAtATime, SerialOK, SalesOK, [Next]_vars PROVE SalesOK'
<1>1. CASE UNCHANGED vars
  BY <1>1 DEF SalesOK, Stored, vars
<1>2. ASSUME Next, NEW h \in Handler, pc'[h] # "idle" PROVE Came(call'[h])
  <2>1. CASE Arrives(h)
    BY <1>2, <2>1, DataBrought DEF Arrives, Begins
  <2>2. CASE Dispatches(h)
    <3>1. call'[h] = Synthetic(call[h]) /\ call[h] \in Call
      BY <2>2 DEF Dispatches, Begins, SerialOK, HandlerOK
    <3>2. /\ call'[h].key = call[h].key /\ call'[h].sale = call[h].sale
          /\ call'[h].origin = call[h].origin
      BY <3>1 DEF Synthetic, WithCode, Call
    <3>3. QED
      BY <2>2, <3>2 DEF Dispatches, SalesOK, Came
  <2>3. CASE Looks(h)
    <3>1. PICK keys : call'[h] = [call[h] EXCEPT !.keys = @ \union keys]
      BY <2>3 DEF Looks
    <3>2. call[h] \in Call
      BY <2>3 DEF Looks, SerialOK, HandlerOK
    <3>3. /\ call'[h].key = call[h].key /\ call'[h].sale = call[h].sale
          /\ call'[h].origin = call[h].origin
      BY <3>1, <3>2 DEF Call
    <3>4. QED
      BY <2>3, <3>3 DEF Looks, SalesOK, Came
  <2>4. CASE \/ Links(h) \/ Inserts(h) \/ Updates(h) \/ Spoils(h)
             \/ Notifies(h) \/ Publishes(h) \/ Stops(h)
    <3>1. call'[h] = call[h] /\ pc[h] # "idle"
      BY <1>2, <2>4 DEF Links, Inserts, Updates, Spoils, Notifies, Publishes, Stops,
                  Writes, Ends
    <3>2. QED
      BY <3>1 DEF SalesOK
  <2>5. QED
    BY <1>2, <2>1, <2>2, <2>3, <2>4, Kinds DEF SerialOK
<1>3. ASSUME Next, NEW k \in Key, orders'[k] # NoOrder PROVE Brought(k, orders'[k].sale)
  <2>1. CASE orders[k] # NoOrder
    <3>1. orders'[k].sale = orders[k].sale
      BY <1>3, <2>1, Evolution DEF SerialOK, Evolves
    <3>2. QED
      BY <2>1, <3>1 DEF SalesOK, Stored
  <2>2. CASE orders[k] = NoOrder
    <3>1. PICK h \in Handler : TRUE
      BY <1>3 DEF Next
    <3>2. Grown(h, k) /\ ~Open(h, k)
      BY <1>3, <2>2, Growth DEF SerialOK, Open, Stored
    <3>3. /\ pc[h] = "insert" /\ k = call[h].key
          /\ \E copied : orders'[k] = Created(call[h], copied)
      BY <1>3, <2>2, <3>2 DEF Grown
    <3>4. orders'[k].sale = call[h].sale
      BY <3>3 DEF Created
    <3>5. QED
      BY <3>3, <3>4 DEF SalesOK, Came
  <2>3. QED
    BY <2>1, <2>2
<1>4. QED
  BY <1>1, <1>2, <1>3 DEF SalesOK, Stored, Brought, Came

LEMMA SalesInit == Init => SalesOK
BY DEF Init, SalesOK, Stored, Nothing

LEMMA NothingFound ==
  ASSUME OneSaleEach, TypeOK, HandlerOK, FreshOK, DocumentsOK, SalesOK,
         NEW h \in Handler, pc[h] = "create", orders[call[h].key] # NoOrder
  PROVE  orders[call[h].key].sale = NoSale
<1> DEFINE k == call[h].key
<1>1. Found(call[h]) = {}
  BY DEF FreshOK, Path
<1>2. call[h] \in Call /\ k \in Key
  BY DEF HandlerOK, Call
<1>3. k \in Stored /\ k \in orders[k].keys
  BY <1>2 DEF Stored, DocumentsOK, GoodOrder
<1>4. /\ call[h].origin \in {"IHUB", "INTELIPOST"}
      /\ orders[k].sale # call[h].sale
  BY <1>1, <1>2, <1>3 DEF Found, OfSale
<1>5. call[h].sale # NoSale => orders[k].sale = NoSale
  BY <1>3, <1>4 DEF OneSaleEach, SalesOK, Came, Brought
<1>6. call[h].sale # NoSale
  BY <1>4 DEF SalesOK, Came, Tracking
<1>7. QED
  BY <1>5, <1>6

LEMMA RefusedStep ==
  ASSUME OneAtATime, OneSaleEach, SerialOK, SalesOK, RefusedOnlyByStray, [Next]_vars
  PROVE  RefusedOnlyByStray'
<1>1. CASE UNCHANGED vars
  BY <1>1 DEF RefusedOnlyByStray, vars
<1>2. ASSUME Next, NEW h \in Handler, pc'[h] = "insert", orders'[call'[h].key] # NoOrder
      PROVE  orders'[call'[h].key].sale = NoSale
  <2>1. CASE Looks(h)
    <3>1. PICK keys : call'[h] = [call[h] EXCEPT !.keys = @ \union keys]
      BY <2>1 DEF Looks
    <3>2. call[h] \in Call
      BY <2>1 DEF Looks, SerialOK, HandlerOK
    <3>3. call'[h].key = call[h].key /\ call'[h].sale = call[h].sale
      BY <3>1, <3>2 DEF Call
    <3>4. QED
      BY <1>2, <2>1, <3>3, NothingFound DEF Looks, SerialOK
  <2>2. CASE Links(h)
    <3>1. PICK s \in Stored : orders' = [orders EXCEPT ![s].keys = @ \union {call[h].key}]
      BY <2>2 DEF Links
    <3>2. call[h] \in Call /\ call[h].key \in Key /\ call'[h] = call[h] /\ pc[h] = "insert"
      BY <2>2 DEF Links, SerialOK, HandlerOK, Call
    <3>3. orders[call[h].key] # NoOrder => orders'[call[h].key].sale = orders[call[h].key].sale
      BY <3>1, <3>2 DEF SerialOK, TypeOK, Documents, Order, Stored
    <3>4. orders'[call[h].key] # NoOrder => orders[call[h].key] # NoOrder
      BY <3>1, <3>2 DEF SerialOK, TypeOK, Documents, Stored
    <3>5. QED
      BY <1>2, <3>2, <3>3, <3>4 DEF RefusedOnlyByStray
  <2>3. CASE \/ Arrives(h) \/ Inserts(h) \/ Updates(h) \/ Spoils(h) \/ Notifies(h)
             \/ Dispatches(h) \/ Publishes(h) \/ Stops(h)
    BY <1>2, <2>3 DEF Arrives, Inserts, Updates, Spoils, Notifies, Dispatches, Publishes,
                      Stops, Writes, Ends, Begins
  <2>4. QED
    BY <1>2, <2>1, <2>2, <2>3, Kinds DEF SerialOK
<1>3. CASE Next
  BY <1>2, <1>3 DEF RefusedOnlyByStray
<1>4. QED
  BY <1>1, <1>3

\* createOrder is refused only because of a document without a sale, which is
\* what a tracking that came first leaves behind, if an invoice has one sale.
THEOREM RefusedByStray ==
  ASSUME OneAtATime, OneSaleEach PROVE Spec => []RefusedOnlyByStray
<1>1. Init => RefusedOnlyByStray
  BY DEF Init, RefusedOnlyByStray
<1>2. QED
  BY <1>1, SerialInit, SerialStep, SalesInit, SalesStep, RefusedStep, PTL DEF Spec

------------------------------------------------------------------------------
(* Proofs of delivery.                                                      *)

LEMMA PodsStep ==
  ASSUME OneAtATime, SerialOK, [Next]_vars, NEW k \in Stored,
         ~(orders[k].pods \subseteq orders'[k].pods)
  PROVE  \E h \in Handler : pc[h] \in {"update", "updateMany"} /\ call[h].origin # "INTELIPOST"
<1>1. k \in Key /\ orders[k] \in Order /\ orders[k] # NoOrder
  BY DEF Stored, SerialOK, TypeOK, Documents
<1>2. Next
  BY DEF vars
<1>3. PICK h \in Handler : TRUE
  BY <1>2 DEF Next
<1>4. CASE orders'[k] = [orders[k] EXCEPT !.keys = @ \union {call[h].key}]
  BY <1>1, <1>4 DEF Order
<1>5. ASSUME pc[h] \in {"update", "updateMany"},
             NEW copied \in SUBSET call[h].pods,
             orders'[k] \in {Updated(call[h], copied, orders[k], orders[k]),
                             UpdatedAmongMany(call[h], copied, orders[k], orders[k])}
      PROVE  call[h].origin # "INTELIPOST"
  <2>1. call[h] \in Call /\ Proper(call[h]) /\ GoodOrder(k, orders[k])
    BY <1>5 DEF SerialOK, HandlerOK, CallsOK, DocumentsOK
  <2>2. orders'[k].pods = NewPods(call[h], copied, orders[k])
    BY <1>1, <1>5, <2>1, UpdatedStatus DEF GoodOrder
  <2>3. QED
    BY <2>2 DEF NewPods
<1>6. QED
  BY <1>1, <1>2, <1>4, <1>5, Growth DEF Grown, SerialOK

\* Only an update of another origin than Intelipost drops a proof of delivery.
THEOREM PodsKept == ASSUME OneAtATime PROVE Spec => PodsLostOnlyToOthers
<1>1. SerialOK /\ [Next]_vars =>
        [\A k \in Stored : ~(orders[k].pods \subseteq orders'[k].pods) =>
           \E h \in Handler :
             pc[h] \in {"update", "updateMany"} /\ call[h].origin # "INTELIPOST"]_vars
  BY PodsStep
<1>2. QED
  BY <1>1, SerialInit, SerialStep, PTL DEF Spec, PodsLostOnlyToOthers

------------------------------------------------------------------------------
(* The collection implements OrderLedger.                                   *)

\* The line of the ledger that a document stands for.
EventsOf(history) == {<<history[i].id, history[i].at>> : i \in DOMAIN history}

LineOf(o) ==
  IF o = NoOrder THEN NoOrder
  ELSE [rank |-> getStatusScale(o.code), closed |-> checkIfOrderAlreadyFinished(o.code),
        events |-> EventsOf(o.history)]

Lines == [k \in Key |-> LineOf(orders[k])]

EventBatch == {{}} \union {{e} : e \in StatusId \X Instant}

LEMMA EventsOfType ==
  ASSUME NEW history \in Seq(Entry) PROVE EventsOf(history) \in SUBSET (StatusId \X Instant)
<1>1. \A i \in DOMAIN history : history[i] \in Entry
  OBVIOUS
<1>2. \A i \in DOMAIN history : <<history[i].id, history[i].at>> \in StatusId \X Instant
  BY <1>1 DEF Entry
<1>3. QED
  BY <1>2 DEF EventsOf

LEMMA LineOfType == ASSUME NEW o \in Order PROVE LineOf(o) \in Ledger!Line
<1>1. o # NoOrder /\ o.history \in Seq(Entry)
  BY DEF Order
<1>2. getStatusScale(o.code) \in 0 .. 6
  BY ScaleRange
<1>3. checkIfOrderAlreadyFinished(o.code) \in BOOLEAN
  BY DEF checkIfOrderAlreadyFinished
<1>4. QED
  BY <1>1, <1>2, <1>3, EventsOfType DEF LineOf, Ledger!Line

\* An update adds the event of the call to those of the history, or nothing.
LEMMA NewHistoryEvents ==
  ASSUME NEW c \in Call, NEW old \in Order, Ordered(old.history)
  PROVE  \E e \in EventBatch :
           EventsOf(NewHistory(c, old, old)) = EventsOf(old.history) \union e
<1> DEFINE h == old.history
           new == NewHistory(c, old, old)
           x == <<c.id, c.at>>
<1>1. h \in Seq(Entry) /\ EntryOf(c) \in Entry /\ new \in Seq(Entry)
  BY EntryOfType, NewHistoryType DEF Order
<1>2. x \in StatusId \X Instant
  BY DEF Call
<1>3. EventsOf(new) \subseteq EventsOf(h) \union {x}
  <2>1. ASSUME NEW i \in DOMAIN new PROVE <<new[i].id, new[i].at>> \in EventsOf(h) \union {x}
    <3>1. CASE new[i] = EntryOf(c)
      BY <3>1, EntryOfFields
    <3>2. ASSUME NEW j \in DOMAIN h, new[i] = h[j]
          PROVE  <<new[i].id, new[i].at>> \in EventsOf(h)
      BY <3>2 DEF EventsOf
    <3>3. QED
      BY <2>1, <3>1, <3>2, NewHistoryFrom
  <2>2. QED
    BY <2>1 DEF EventsOf
<1>4. EventsOf(h) \subseteq EventsOf(new)
  <2>1. CASE new = h
    BY <2>1
  <2>2. CASE new = Sorted(h, EntryOf(c))
    <3>1. ASSUME NEW j \in DOMAIN h PROVE <<h[j].id, h[j].at>> \in EventsOf(new)
      <4>1. Knows(new, h[j])
        BY <1>1, <2>2, <3>1, SortedKnows
      <4>2. PICK i \in DOMAIN new : SameEvent(new[i], h[j])
        BY <4>1 DEF Knows
      <4>3. <<h[j].id, h[j].at>> = <<new[i].id, new[i].at>>
        BY <4>2 DEF SameEvent
      <4>4. QED
        BY <4>3 DEF EventsOf
    <3>2. QED
      BY <3>1 DEF EventsOf
  <2>3. QED
    BY <2>1, <2>2 DEF NewHistory
<1> HIDE DEF new, x
<1>5. EventsOf(new) = EventsOf(h) \union {} \/ EventsOf(new) = EventsOf(h) \union {x}
  BY <1>3, <1>4
<1>6. {} \in EventBatch /\ {x} \in EventBatch
  BY <1>2 DEF EventBatch
<1>7. QED
  BY <1>5, <1>6 DEF new

\* The line of an invoice stays, is entered, or is added to while it is open.
LineMoves(k) ==
  \/ LineOf(orders'[k]) = LineOf(orders[k])
  \/ /\ LineOf(orders[k]) = NoOrder /\ LineOf(orders'[k]) \in Ledger!Line
     /\ LineOf(orders'[k]).events \in EventBatch
  \/ /\ LineOf(orders[k]) # NoOrder /\ ~LineOf(orders[k]).closed
     /\ LineOf(orders'[k]) \in Ledger!Line
     /\ LineOf(orders'[k]).rank >= LineOf(orders[k]).rank
     /\ \E e \in EventBatch : LineOf(orders'[k]).events = LineOf(orders[k]).events \union e

LEMMA EnterLine ==
  ASSUME NEW k \in Key, NEW c \in Call, NEW copied \in SUBSET Pod,
         orders[k] = NoOrder, orders'[k] = Created(c, copied)
  PROVE  LineMoves(k)
<1>1. orders'[k] \in Order /\ orders'[k] # NoOrder
  BY CreatedType
<1>2. orders'[k].history = IF KeepsHistory(c) THEN <<EntryOf(c)>> ELSE <<>>
  BY DEF Created
<1>3. LineOf(orders'[k]).events = EventsOf(orders'[k].history)
  BY <1>1 DEF LineOf
<1>4. EventsOf(<<>>) = {} /\ EventsOf(<<EntryOf(c)>>) = {<<c.id, c.at>>}
  BY EntryOfFields DEF EventsOf
<1>5. {} \in EventBatch /\ {<<c.id, c.at>>} \in EventBatch
  BY DEF EventBatch, Call
<1>6. LineOf(orders'[k]).events \in EventBatch
  BY <1>2, <1>3, <1>4, <1>5
<1>7. LineOf(orders[k]) = NoOrder
  BY DEF LineOf
<1>8. QED
  BY <1>1, <1>6, <1>7, LineOfType DEF LineMoves

LEMMA RecordLine ==
  ASSUME SerialOK, NEW h \in Handler, NEW k \in Key, Open(h, k), pc[h] # "idle",
         NEW copied \in SUBSET call[h].pods,
         orders'[k] \in {Updated(call[h], copied, orders[k], orders[k]),
                         UpdatedAmongMany(call[h], copied, orders[k], orders[k])}
  PROVE  LineMoves(k)
<1> DEFINE c == call[h]
<1>1. c \in Call /\ Proper(c) /\ copied \in SUBSET Pod
  BY DEF SerialOK, HandlerOK, CallsOK, Call
<1>2. /\ orders[k] \in Order /\ orders[k] # NoOrder /\ GoodOrder(k, orders[k])
      /\ Ordered(orders[k].history) /\ ~checkIfOrderAlreadyFinished(orders[k].code)
  BY DEF SerialOK, Open, Stored, TypeOK, Documents, DocumentsOK, HistoryOK, GoodHistory
<1>3. orders'[k] \in Order /\ orders'[k] # NoOrder
  BY <1>1, <1>2, UpdatedType, UpdatedAmongManyType
<1>4. /\ orders'[k].code = IF shouldUpdateSourceOfOrder(c.code, orders[k].code)
                             THEN c.code ELSE orders[k].code
      /\ orders'[k].history = NewHistory(c, orders[k], orders[k])
  BY <1>1, <1>2, UpdatedStatus DEF GoodOrder
<1>5. getStatusScale(orders'[k].code) >= getStatusScale(orders[k].code)
  BY <1>4, ScaleRange DEF shouldUpdateSourceOfOrder
<1>6. \E e \in EventBatch :
        EventsOf(orders'[k].history) = EventsOf(orders[k].history) \union e
  BY <1>1, <1>2, <1>4, NewHistoryEvents
<1>7. /\ LineOf(orders[k]) # NoOrder /\ ~LineOf(orders[k]).closed
      /\ LineOf(orders[k]).rank = getStatusScale(orders[k].code)
      /\ LineOf(orders[k]).events = EventsOf(orders[k].history)
  <2>1. LineOf(orders[k]) \in Ledger!Line
    BY <1>2, LineOfType
  <2>2. LineOf(orders[k]) = [rank |-> getStatusScale(orders[k].code),
                             closed |-> checkIfOrderAlreadyFinished(orders[k].code),
                             events |-> EventsOf(orders[k].history)]
    BY <1>2 DEF LineOf
  <2>3. LineOf(orders[k]) # NoOrder
    BY <2>1, LedgerAssumption
  <2>4. QED
    BY <1>2, <2>2, <2>3
<1>8. /\ LineOf(orders'[k]).rank = getStatusScale(orders'[k].code)
      /\ LineOf(orders'[k]).events = EventsOf(orders'[k].history)
  BY <1>3 DEF LineOf
<1>9. LineOf(orders'[k]) \in Ledger!Line
  BY <1>3, LineOfType
<1>10. QED
  BY <1>5, <1>6, <1>7, <1>8, <1>9 DEF LineMoves

\* At most one document is written.
LEMMA OneWritten ==
  ASSUME OneAtATime, TypeOK, HandlerOK, FreshOK, Next
  PROVE  UNCHANGED orders \/ \E k \in Key : \A j \in Key \ {k} : orders'[j] = orders[j]
<1>1. PICK h \in Handler : TRUE
  BY DEF Next
<1>2. CASE Inserts(h)
  <2>1. call[h].key \in Key
    BY <1>2 DEF Inserts, HandlerOK, Call
  <2>2. QED
    BY <1>2, <2>1 DEF Inserts, Writes, TypeOK, Documents
<1>3. CASE Links(h) \/ Updates(h) \/ (Spoils(h) /\ ~UNCHANGED orders)
  <2>1. PICK k \in Stored : \E x : orders' = [orders EXCEPT ![k] = x]
    BY <1>3 DEF Links, Updates, Spoils, Writes
  <2>2. k \in Key
    BY DEF Stored
  <2>3. QED
    BY <2>1, <2>2 DEF TypeOK, Documents
<1>4. Arrives(h) \/ Looks(h) \/ Notifies(h) \/ Dispatches(h) \/ Publishes(h) \/ Stops(h)
        => UNCHANGED orders
  BY DEF Arrives, Looks, Notifies, Dispatches, Publishes, Stops
<1>5. QED
  BY <1>2, <1>3, <1>4, Kinds

LEMMA LinesMove ==
  ASSUME OneAtATime, SerialOK, Next, NEW k \in Key PROVE LineMoves(k)
<1>1. PICK h \in Handler : TRUE
  BY DEF Next
<1>2. orders[k] \in Order \union {NoOrder}
  BY DEF SerialOK, TypeOK, Documents
<1>3. CASE /\ orders[k] # NoOrder /\ pc[h] = "insert"
           /\ orders'[k] = [orders[k] EXCEPT !.keys = @ \union {call[h].key}]
  <2>1. orders[k] \in Order
    BY <1>2, <1>3
  <2>2. call[h].key \in Key
    BY <1>3 DEF SerialOK, HandlerOK, Call
  <2>3. orders'[k] \in Order
    BY <1>3, <2>1, <2>2 DEF Order
  <2>4. orders'[k].code = orders[k].code /\ orders'[k].history = orders[k].history
    BY <1>3, <2>1 DEF Order
  <2>5. orders[k] # NoOrder /\ orders'[k] # NoOrder
    BY <1>3, <2>3
  <2>6. QED
    BY <2>4, <2>5 DEF LineOf, LineMoves
<1>4. CASE /\ orders[k] = NoOrder /\ pc[h] = "insert" /\ k = call[h].key
           /\ \E copied \in SUBSET call[h].pods : orders'[k] = Created(call[h], copied)
  <2>1. call[h] \in Call /\ SUBSET call[h].pods \subseteq SUBSET Pod
    BY <1>4 DEF SerialOK, HandlerOK, Call
  <2>2. QED
    BY <1>4, <2>1, EnterLine
<1>5. CASE /\ Open(h, k) /\ pc[h] \in {"update", "updateMany"}
           /\ \E copied \in SUBSET call[h].pods :
                orders'[k] \in {Updated(call[h], copied, orders[k], orders[k]),
                                UpdatedAmongMany(call[h], copied, orders[k], orders[k])}
  BY <1>5, RecordLine
<1>6. CASE orders'[k] = orders[k]
  BY <1>6 DEF LineMoves
<1>7. QED
  BY <1>3, <1>4, <1>5, <1>6, Growth DEF Grown, SerialOK

\* The actions of the ledger, said of the lines.
LEMMA LedgerOfLines ==
  ASSUME NEW k
  PROVE  /\ Ledger!Enter(k) <=>
              /\ Lines[k] = NoOrder
              /\ Lines'[k] \in Ledger!Line /\ Lines' = [Lines EXCEPT ![k] = Lines'[k]]
              /\ Lines'[k].events \in EventBatch
         /\ Ledger!Record(k) <=>
              /\ Lines[k] # NoOrder /\ ~Lines[k].closed
              /\ Lines'[k] \in Ledger!Line /\ Lines' = [Lines EXCEPT ![k] = Lines'[k]]
              /\ Lines'[k].rank >= Lines[k].rank
              /\ \E e \in EventBatch : Lines'[k].events = Lines[k].events \union e
BY DEF Ledger!Enter, Ledger!Record, Ledger!Rewrites, Ledger!Batch, EventBatch,
       Lines, LineOf, EventsOf

LEMMA LedgerStep ==
  ASSUME OneAtATime, SerialOK, [Next]_vars PROVE Ledger!Next \/ Lines' = Lines
<1>1. CASE UNCHANGED orders
  BY <1>1 DEF Lines
<1>2. CASE Next /\ ~UNCHANGED orders
  <2>1. PICK k \in Key : \A j \in Key \ {k} : orders'[j] = orders[j]
    BY <1>2, OneWritten DEF SerialOK
  <2>2. Lines' = [Lines EXCEPT ![k] = LineOf(orders'[k])]
    BY <2>1 DEF Lines
  <2>3. Lines[k] = LineOf(orders[k]) /\ Lines'[k] = LineOf(orders'[k])
    BY DEF Lines
  <2>4. CASE LineOf(orders'[k]) = LineOf(orders[k])
    BY <2>1, <2>4 DEF Lines
  <2>5. CASE /\ LineOf(orders[k]) = NoOrder /\ LineOf(orders'[k]) \in Ledger!Line
             /\ LineOf(orders'[k]).events \in EventBatch
    <3>1. Ledger!Enter(k)
      BY <2>2, <2>3, <2>5, LedgerOfLines
    <3>2. QED
      BY <3>1 DEF Ledger!Next
  <2>6. CASE /\ LineOf(orders[k]) # NoOrder /\ ~LineOf(orders[k]).closed
             /\ LineOf(orders'[k]) \in Ledger!Line
             /\ LineOf(orders'[k]).rank >= LineOf(orders[k]).rank
             /\ \E e \in EventBatch :
                  LineOf(orders'[k]).events = LineOf(orders[k]).events \union e
    <3>1. Ledger!Record(k)
      BY <2>2, <2>3, <2>6, LedgerOfLines
    <3>2. QED
      BY <3>1 DEF Ledger!Next
  <2>7. QED
    BY <1>2, <2>4, <2>5, <2>6, LinesMove DEF LineMoves
<1>3. QED
  BY <1>1, <1>2 DEF vars

\* Without overlap, every step of the service is a step of the ledger: the
\* abstract specification is implemented.
THEOREM LedgerImplemented == ASSUME OneAtATime PROVE Spec => LedgerSpec
<1>1. Init => Ledger!Init
  BY DEF Init, Nothing, Ledger!Init
<1>2. Lines' = Lines =>
        UNCHANGED [k \in Key |->
          IF orders[k] = NoOrder THEN NoOrder
          ELSE [rank |-> getStatusScale(orders[k].code),
                closed |-> checkIfOrderAlreadyFinished(orders[k].code),
                events |-> {<<orders[k].history[i].id, orders[k].history[i].at>> :
                              i \in DOMAIN orders[k].history}]]
  BY DEF Lines, LineOf, EventsOf
<1>3. SerialOK /\ [Next]_vars =>
        [Ledger!Next]_([k \in Key |->
          IF orders[k] = NoOrder THEN NoOrder
          ELSE [rank |-> getStatusScale(orders[k].code),
                closed |-> checkIfOrderAlreadyFinished(orders[k].code),
                events |-> {<<orders[k].history[i].id, orders[k].history[i].at>> :
                              i \in DOMAIN orders[k].history}]])
  BY <1>2, LedgerStep
<1>4. QED
  BY <1>1, <1>3, SerialInit, SerialStep, PTL DEF Spec, LedgerSpec, Ledger!Spec

------------------------------------------------------------------------------
(* What is announced.                                                       *)

\* Documents stay and their ranks do not fall.
Rises ==
  \A k \in Key : orders[k] # NoOrder =>
    /\ orders'[k] # NoOrder
    /\ getStatusScale(orders'[k].code) >= getStatusScale(orders[k].code)

LEMMA RisesStep == ASSUME OneAtATime, SerialOK, [Next]_vars PROVE Rises
<1>1. SUFFICES ASSUME NEW k \in Key, orders[k] # NoOrder
               PROVE  /\ orders'[k] # NoOrder
                      /\ getStatusScale(orders'[k].code) >= getStatusScale(orders[k].code)
  BY DEF Rises
<1>2. orders'[k] # NoOrder
  BY <1>1, Evolution DEF SerialOK, Evolves, Order
<1>3. getStatusScale(orders[k].code) \in 0 .. 6
  BY ScaleRange
<1>4. CASE UNCHANGED orders
  BY <1>1, <1>3, <1>4
<1>5. CASE Next
  <2>1. LineMoves(k)
    BY <1>5, LinesMove
  <2>2. /\ LineOf(orders[k]).rank = getStatusScale(orders[k].code)
        /\ LineOf(orders'[k]).rank = getStatusScale(orders'[k].code)
    BY <1>1, <1>2 DEF LineOf
  <2>3. LineOf(orders[k]) # NoOrder
    <3>1. orders[k] \in Order
      BY <1>1 DEF SerialOK, TypeOK, Documents
    <3>2. QED
      BY <3>1, LineOfType, LedgerAssumption
  <2>4. LineOf(orders'[k]).rank = LineOf(orders[k]).rank
        \/ LineOf(orders'[k]).rank >= LineOf(orders[k]).rank
    BY <2>1, <2>3 DEF LineMoves
  <2>5. QED
    BY <1>2, <1>3, <2>2, <2>4
<1>6. QED
  BY <1>2, <1>4, <1>5 DEF vars

\* The order of a reply is not further along than what is stored.
Behind(r) ==
  /\ r.key \in Key /\ orders[r.key] # NoOrder
  /\ getStatusScale(r.order.code) <= getStatusScale(orders[r.key].code)

ReplyOK(h) ==
  /\ pc[h] = "notify" => reply[h].order = orders[reply[h].key] /\ Behind(reply[h])
  /\ pc[h] = "dispatch" =>
       outer[h] = NoReply /\ reply[h].order = orders[reply[h].key] /\ Behind(reply[h])
  /\ pc[h] = "publish" => Behind(reply[h])
  /\ pc[h] = "publish" /\ ~MadeUp(call[h]) => reply[h].order = orders[reply[h].key]
  /\ outer[h] # NoReply => pc[h] # "idle" /\ MadeUp(call[h]) /\ Behind(outer[h])
  /\ outer[h] # NoReply /\ pc[h] \in {"notify", "publish"} =>
       getStatusScale(call[h].code) <= getStatusScale(orders[reply[h].key].code)

RepliesOK == \A h \in Handler : ReplyOK(h)

LEMMA BehindKept ==
  ASSUME Rises, NEW r, Behind(r), NEW s, s = r
  PROVE  Behind(s)'
<1>1. /\ r.key \in Key /\ orders'[r.key] # NoOrder
      /\ getStatusScale(r.order.code) <= getStatusScale(orders[r.key].code)
      /\ getStatusScale(orders'[r.key].code) >= getStatusScale(orders[r.key].code)
  BY DEF Rises, Behind
<1>2. /\ getStatusScale(r.order.code) \in 0 .. 6 /\ getStatusScale(orders[r.key].code) \in 0 .. 6
      /\ getStatusScale(orders'[r.key].code) \in 0 .. 6
  BY ScaleRange
<1>3. QED
  BY <1>1, <1>2 DEF Behind

\* What merge() wrote is as far along as the data it merged.
LEMMA WrittenRank ==
  ASSUME SerialOK, NEW h \in Handler, Inserts(h) \/ Updates(h)
  PROVE  /\ reply'[h].key \in Key /\ reply'[h].order = orders'[reply'[h].key]
         /\ reply'[h].order \in Order
         /\ getStatusScale(call[h].code) <= getStatusScale(reply'[h].order.code)
<1>1. call[h] \in Call /\ Proper(call[h]) /\ SUBSET call[h].pods \subseteq SUBSET Pod
  BY DEF Inserts, Updates, SerialOK, HandlerOK, CallsOK, Call
<1>2. getStatusScale(call[h].code) \in 0 .. 6
  BY ScaleRange
<1>3. CASE Inserts(h)
  <2>1. PICK copied \in SUBSET call[h].pods : Writes(h, call[h].key, Created(call[h], copied))
    BY <1>3 DEF Inserts
  <2>2. Created(call[h], copied) \in Order /\ Created(call[h], copied).code = call[h].code
    BY <1>1, CreatedType DEF Created
  <2>3. call[h].key \in Key
    BY <1>1 DEF Call
  <2>4. reply'[h].key = call[h].key /\ reply'[h].order = Created(call[h], copied)
        /\ orders'[call[h].key] = Created(call[h], copied)
    BY <2>1, <2>3 DEF Writes, SerialOK, TypeOK, Documents
  <2>5. QED
    BY <1>2, <2>2, <2>3, <2>4
<1>4. CASE Updates(h)
  <2>1. PICK k \in Stored, copied \in SUBSET call[h].pods :
          Writes(h, k, Updated(call[h], copied, orders[k], orders[k]))
    BY <1>4 DEF Updates
  <2>2. k \in Key /\ orders[k] \in Order /\ GoodOrder(k, orders[k])
    BY DEF Stored, SerialOK, TypeOK, Documents, DocumentsOK
  <2> DEFINE new == Updated(call[h], copied, orders[k], orders[k])
  <2>3. new \in Order
    BY <1>1, <2>2, UpdatedType
  <2>4. new.code = IF shouldUpdateSourceOfOrder(call[h].code, orders[k].code)
                     THEN call[h].code ELSE orders[k].code
    BY <1>1, <2>2, UpdatedStatus DEF GoodOrder
  <2>5. getStatusScale(call[h].code) <= getStatusScale(new.code)
    BY <1>2, <2>4, ScaleRange DEF shouldUpdateSourceOfOrder
  <2>6. reply'[h].key = k /\ reply'[h].order = new /\ orders'[k] = new
    BY <2>1, <2>2 DEF Writes, SerialOK, TypeOK, Documents
  <2>7. QED
    BY <2>2, <2>3, <2>5, <2>6
<1>5. QED
  BY <1>3, <1>4

LEMMA WrittenReply ==
  ASSUME OneAtATime, SerialOK, NEW h \in Handler, Inserts(h) \/ Updates(h)
  PROVE  /\ reply'[h].order = orders'[reply'[h].key]
         /\ Behind(reply[h])'
         /\ getStatusScale(call[h].code) <= getStatusScale(orders'[reply'[h].key].code)
<1>1. /\ reply'[h].key \in Key /\ reply'[h].order = orders'[reply'[h].key]
      /\ reply'[h].order \in Order
      /\ getStatusScale(call[h].code) <= getStatusScale(reply'[h].order.code)
  BY WrittenRank
<1>2. getStatusScale(reply'[h].order.code) \in 0 .. 6
  BY ScaleRange
<1>3. QED
  BY <1>1, <1>2 DEF Behind

\* Only the call that intelipost() makes to itself is made up.
LEMMA MessagesNotMadeUp == ASSUME NEW m \in Message PROVE ~MadeUp(DataOf(m))
<1>1. CASE m.origin = "INTELIPOST"
  BY <1>1 DEF DataOf, WithCode, MadeUp, changeDispatchStatus
<1>2. CASE m.origin # "INTELIPOST"
  BY <1>2 DEF DataOf, WithCode, MadeUp
<1>3. QED
  BY <1>1, <1>2

LEMMA EndsReplies ==
  ASSUME NEW h \in Handler, ReplyOK(h), Rises, Ends(h) PROVE ReplyOK(h)'
<1>1. CASE pc'[h] = "idle" /\ outer'[h] = NoReply
  BY <1>1 DEF ReplyOK
<1>2. CASE /\ outer[h] # NoReply /\ pc'[h] = "publish" /\ call'[h] = call[h]
           /\ reply'[h] = outer[h] /\ outer'[h] = NoReply
  <2>1. Behind(outer[h]) /\ MadeUp(call[h])
    BY <1>2 DEF ReplyOK
  <2>2. Behind(reply[h])'
    BY <1>2, <2>1, BehindKept
  <2>3. MadeUp(call[h])'
    BY <1>2, <2>1 DEF MadeUp
  <2>4. QED
    BY <1>2, <2>2, <2>3 DEF ReplyOK
<1>3. QED
  BY <1>1, <1>2 DEF Ends

\* Only an Intelipost event is followed by a made-up dispatch.
DispatchOK == \A h \in Handler : pc[h] = "dispatch" => call[h].origin = "INTELIPOST"

LEMMA DispatchStep ==
  ASSUME OneAtATime, SerialOK, DispatchOK, [Next]_vars PROVE DispatchOK'
<1>1. CASE UNCHANGED vars
  BY <1>1 DEF DispatchOK, vars
<1>2. ASSUME Next, NEW h \in Handler, pc'[h] = "dispatch" PROVE call'[h].origin = "INTELIPOST"
  <2>1. Notifies(h)
    BY <1>2, Kinds DEF SerialOK, Arrives, Looks, Links, Inserts, Updates, Spoils, Dispatches,
                       Publishes, Stops, Writes, Ends, Begins
  <2>2. QED
    BY <1>2, <2>1 DEF Notifies
<1>3. CASE Next
  BY <1>2, <1>3 DEF DispatchOK
<1>4. QED
  BY <1>1, <1>3

LEMMA SyntheticMadeUp ==
  ASSUME NEW c \in Call, c.origin = "INTELIPOST" PROVE MadeUp(Synthetic(c))
BY SyntheticFields DEF MadeUp

LEMMA RepliesStep ==
  ASSUME OneAtATime, SerialOK, DispatchOK, RepliesOK, [Next]_vars PROVE RepliesOK'
<1>1. CASE UNCHANGED vars
  BY <1>1 DEF RepliesOK, ReplyOK, Behind, MadeUp, vars
<1> SUFFICES ASSUME Next, NEW h \in Handler PROVE ReplyOK(h)'
  BY <1>1 DEF RepliesOK
<1>2. ReplyOK(h) /\ Rises
  BY RisesStep DEF RepliesOK
<1>3. CASE Arrives(h)
  <2>1. outer[h] = NoReply /\ outer'[h] = NoReply
    BY <1>2, <1>3 DEF Arrives, ReplyOK
  <2>2. pc'[h] \in {"idle", "create", "update", "updateMany"}
    BY <1>3 DEF Arrives, Begins
  <2>3. QED
    BY <2>1, <2>2 DEF ReplyOK
<1>4. CASE Looks(h) \/ Links(h)
  <2>1. pc[h] \in {"create", "insert"} /\ pc'[h] = "insert" /\ outer'[h] = outer[h]
    BY <1>4 DEF Looks, Links
  <2>2. MadeUp(call[h]) => MadeUp(call'[h])
    <3>1. call[h] \in Call
      BY <2>1 DEF SerialOK, HandlerOK
    <3>2. call'[h].origin = call[h].origin /\ call'[h].code = call[h].code
      BY <1>4, <3>1 DEF Looks, Links, Call
    <3>3. QED
      BY <3>2 DEF MadeUp
  <2>3. outer[h] # NoReply => Behind(outer[h])'
    BY <1>2, <2>1, BehindKept DEF ReplyOK
  <2>4. QED
    BY <1>2, <2>1, <2>2, <2>3 DEF ReplyOK, MadeUp
<1>5. CASE Inserts(h) \/ Updates(h)
  <2>1. /\ reply'[h].order = orders'[reply'[h].key] /\ Behind(reply[h])'
        /\ getStatusScale(call[h].code) <= getStatusScale(orders'[reply'[h].key].code)
    BY <1>5, WrittenReply
  <2>2. pc'[h] = "notify" /\ call'[h] = call[h] /\ outer'[h] = outer[h]
    BY <1>5 DEF Inserts, Updates, Writes
  <2>3. outer[h] # NoReply => Behind(outer[h])'
    BY <1>2, <2>2, BehindKept DEF ReplyOK
  <2>4. QED
    BY <1>2, <2>1, <2>2, <2>3 DEF ReplyOK, MadeUp
<1>6. CASE Spoils(h) \/ Publishes(h) \/ Stops(h)
  BY <1>2, <1>6, EndsReplies DEF Spoils, Publishes, Stops
<1>7. CASE Notifies(h)
  <2>1. CASE pc'[h] = "idle" /\ outer'[h] = NoReply
    BY <2>1 DEF ReplyOK
  <2>2. CASE /\ call'[h] = call[h] /\ reply'[h] = reply[h] /\ outer'[h] = outer[h]
             /\ \/ pc'[h] = "publish"
                \/ pc'[h] = "dispatch" /\ outer[h] = NoReply
    <3>1. pc[h] = "notify" /\ orders' = orders
      BY <1>7 DEF Notifies
    <3>2. reply[h].order = orders[reply[h].key] /\ Behind(reply[h])'
      BY <1>2, <2>2, <3>1, BehindKept DEF ReplyOK
    <3>3. outer[h] # NoReply => Behind(outer[h])'
      BY <1>2, <2>2, BehindKept DEF ReplyOK
    <3>4. QED
      BY <1>2, <2>2, <3>1, <3>2, <3>3 DEF ReplyOK, MadeUp
  <2>3. QED
    BY <1>7, <2>1, <2>2 DEF Notifies
<1>8. CASE Dispatches(h)
  <2>1. pc[h] = "dispatch" /\ orders' = orders /\ outer[h] = NoReply /\ Behind(reply[h])
    BY <1>2, <1>8 DEF Dispatches, ReplyOK
  <2>2. call'[h] = Synthetic(call[h])
    BY <1>8 DEF Dispatches, Begins
  <2>3. MadeUp(call'[h])
    BY <2>1, <2>2, SyntheticMadeUp DEF DispatchOK, SerialOK, HandlerOK
  <2>4. CASE pc'[h] = "publish" /\ outer'[h] = outer[h] /\ reply'[h] = reply[h]
    <3>1. Behind(reply[h])'
      BY <1>2, <2>1, <2>4, BehindKept
    <3>2. QED
      BY <2>1, <2>3, <2>4, <3>1 DEF ReplyOK, MadeUp
  <2>5. CASE pc'[h] # "publish" /\ outer'[h] = reply[h]
    <3>1. Behind(outer[h])'
      BY <1>2, <2>1, <2>5, BehindKept
    <3>2. pc'[h] \in {"create", "update", "updateMany"}
      BY <1>8, <2>5 DEF Dispatches, Begins
    <3>3. QED
      BY <2>3, <3>1, <3>2 DEF ReplyOK, MadeUp
  <2>6. QED
    BY <1>8, <2>4, <2>5 DEF Dispatches
<1>9. QED
  BY <1>3, <1>4, <1>5, <1>6, <1>7, <1>8, Kinds DEF SerialOK

\* What was announced is not further along than what is stored.
AnnouncedOK ==
  /\ \A k \in Key : noticed[k] # NoCall => Behind([key |-> k, order |-> [code |-> noticed[k]]])
  /\ \A k \in Key : told[k] # NoCall => Behind([key |-> k, order |-> [code |-> told[k]]])

LEMMA BehindCode ==
  ASSUME NEW k, NEW code
  PROVE  Behind([key |-> k, order |-> [code |-> code]]) <=>
           /\ k \in Key /\ orders[k] # NoOrder
           /\ getStatusScale(code) <= getStatusScale(orders[k].code)
BY DEF Behind

\* What a step may newly announce, of which document.
Announces(k, code) ==
  /\ k \in Key /\ orders[k] # NoOrder
  /\ getStatusScale(code) <= getStatusScale(orders[k].code)

LEMMA NoticeStep ==
  ASSUME OneAtATime, SerialOK, RepliesOK, [Next]_vars
  PROVE  \/ noticed' = noticed
         \/ \E k \in Key :
              /\ noticed' = [noticed EXCEPT ![k] = orders[k].code]
              /\ orders[k] # NoOrder /\ UNCHANGED orders
<1>1. CASE UNCHANGED vars
  BY <1>1 DEF vars
<1>2. CASE Next
  <2>1. PICK h \in Handler : TRUE
    BY <1>2 DEF Next
  <2>2. CASE Notifies(h)
    <3>1. reply[h].order = orders[reply[h].key] /\ Behind(reply[h])
      BY <2>2 DEF Notifies, RepliesOK, ReplyOK
    <3>2. QED
      BY <2>2, <3>1 DEF Notifies, Behind
  <2>3. QED
    BY <1>2, <2>2, Kinds DEF SerialOK, Arrives, Looks, Links, Inserts, Updates, Spoils,
                             Dispatches, Publishes, Stops, Writes
<1>3. QED
  BY <1>1, <1>2

LEMMA ToldStep ==
  ASSUME OneAtATime, SerialOK, RepliesOK, [Next]_vars
  PROVE  \/ told' = told
         \/ \E k \in Key : \E code :
              /\ told' = [told EXCEPT ![k] = code]
              /\ Announces(k, code) /\ UNCHANGED orders
              /\ \/ code = orders[k].code
                 \/ \E h \in Handler : pc[h] = "publish" /\ MadeUp(call[h])
<1>1. CASE UNCHANGED vars
  BY <1>1 DEF vars
<1>2. CASE Next
  <2>1. PICK h \in Handler : TRUE
    BY <1>2 DEF Next
  <2>2. CASE Publishes(h)
    <3> DEFINE r == reply[h]
               code == IF outer[h] # NoReply THEN call[h].code ELSE r.order.code
    <3>1. pc[h] = "publish" /\ UNCHANGED orders /\ told' \in {told, [told EXCEPT ![r.key] = code]}
      BY <2>2 DEF Publishes
    <3>2. Announces(r.key, code)
      BY <3>1 DEF RepliesOK, ReplyOK, Behind, Announces
    <3>3. code = orders[r.key].code \/ MadeUp(call[h])
      BY <3>1 DEF RepliesOK, ReplyOK
    <3>4. r.key \in Key
      BY <3>2 DEF Announces
    <3> HIDE DEF r, code
    <3>5. QED
      BY <3>1, <3>2, <3>3, <3>4
  <2>3. QED
    BY <1>2, <2>2, Kinds DEF SerialOK, Arrives, Looks, Links, Inserts, Updates, Spoils,
                             Notifies, Dispatches, Stops, Writes
<1>3. QED
  BY <1>1, <1>2

LEMMA AnnouncedStep ==
  ASSUME OneAtATime, SerialOK, RepliesOK, AnnouncedOK, [Next]_vars PROVE AnnouncedOK'
<1>1. Rises
  BY RisesStep
<1>2. \A k \in Key : orders[k] # NoOrder =>
        getStatusScale(orders[k].code) <= getStatusScale(orders[k].code)
  BY ScaleRange
<1>3. noticed \in [Key -> StatusCode \union {NoCall}] /\ told \in [Key -> StatusCode \union {NoCall}]
  BY DEF SerialOK, TypeOK
<1>4. ASSUME NEW k \in Key, noticed'[k] # NoCall
      PROVE  Behind([key |-> k, order |-> [code |-> noticed[k]]])'
  <2>1. CASE noticed'[k] = noticed[k]
    BY <1>1, <1>4, <2>1, BehindKept DEF AnnouncedOK
  <2>2. CASE noticed'[k] # noticed[k]
    <3>1. noticed'[k] = orders[k].code /\ orders[k] # NoOrder /\ UNCHANGED orders
      BY <1>3, <2>2, NoticeStep
    <3>2. Behind([key |-> k, order |-> [code |-> orders[k].code]])
      BY <1>2, <3>1, BehindCode
    <3>3. QED
      BY <1>1, <3>1, <3>2, BehindKept
  <2>3. QED
    BY <2>1, <2>2
<1>5. ASSUME NEW k \in Key, told'[k] # NoCall
      PROVE  Behind([key |-> k, order |-> [code |-> told[k]]])'
  <2>1. CASE told'[k] = told[k]
    BY <1>1, <1>5, <2>1, BehindKept DEF AnnouncedOK
  <2>2. CASE told'[k] # told[k]
    <3>1. Announces(k, told'[k])
      BY <1>3, <2>2, ToldStep
    <3>2. Behind([key |-> k, order |-> [code |-> told'[k]]])
      BY <3>1, BehindCode DEF Announces
    <3>3. QED
      BY <1>1, <3>2, BehindKept
  <2>3. QED
    BY <2>1, <2>2
<1>6. QED
  BY <1>4, <1>5 DEF AnnouncedOK

AnnouncingOK == SerialOK /\ DispatchOK /\ RepliesOK /\ AnnouncedOK

LEMMA AnnouncingInit == Init => AnnouncingOK
<1>1. Init => DispatchOK /\ RepliesOK
  BY DEF Init, DispatchOK, RepliesOK, ReplyOK
<1>2. Init => AnnouncedOK
  BY DEF Init, AnnouncedOK
<1>3. QED
  BY <1>1, <1>2, SerialInit DEF AnnouncingOK

LEMMA AnnouncingStep == ASSUME OneAtATime PROVE AnnouncingOK /\ [Next]_vars => AnnouncingOK'
BY SerialStep, DispatchStep, RepliesStep, AnnouncedStep DEF AnnouncingOK

\* ORDER_NOTIFIED never shows an order go back.
THEOREM NoticesRise == ASSUME OneAtATime PROVE Spec => NoticesNeverRegress
<1>1. ASSUME AnnouncingOK, [Next]_vars, NEW k \in Key, noticed[k] # NoCall
      PROVE  getStatusScale(noticed'[k]) >= getStatusScale(noticed[k])
  <2>1. getStatusScale(noticed[k]) <= getStatusScale(orders[k].code)
    BY <1>1, BehindCode DEF AnnouncingOK, AnnouncedOK
  <2>2. getStatusScale(noticed[k]) \in 0 .. 6 /\ getStatusScale(orders[k].code) \in 0 .. 6
    BY ScaleRange
  <2>3. noticed'[k] = noticed[k] \/ noticed'[k] = orders[k].code
    BY <1>1, NoticeStep DEF AnnouncingOK, SerialOK, TypeOK
  <2>4. QED
    BY <2>1, <2>2, <2>3
<1>2. AnnouncingOK /\ [Next]_vars =>
        [\A k \in Key : noticed[k] # NoCall =>
           getStatusScale(noticed'[k]) >= getStatusScale(noticed[k])]_vars
  BY <1>1
<1>3. QED
  BY <1>2, AnnouncingInit, AnnouncingStep, PTL DEF Spec, NoticesNeverRegress

\* IHub sees an order go back only from an intelipost() that made up a dispatch.
THEOREM ToldBackByMadeUp == ASSUME OneAtATime PROVE Spec => OnlyMadeUpDispatchTellsBack
<1>1. ASSUME AnnouncingOK, [Next]_vars, NEW k \in Key, told[k] # NoCall,
             getStatusScale(told'[k]) < getStatusScale(told[k])
      PROVE  \E h \in Handler : pc[h] = "publish" /\ MadeUp(call[h])
  <2>1. getStatusScale(told[k]) <= getStatusScale(orders[k].code)
    BY <1>1, BehindCode DEF AnnouncingOK, AnnouncedOK
  <2>2. getStatusScale(told[k]) \in 0 .. 6 /\ getStatusScale(orders[k].code) \in 0 .. 6
    BY ScaleRange
  <2>3. told'[k] # told[k] /\ told'[k] # orders[k].code
    BY <1>1, <2>1, <2>2
  <2>4. QED
    BY <1>1, <2>3, ToldStep DEF AnnouncingOK, SerialOK, TypeOK
<1>2. AnnouncingOK /\ [Next]_vars =>
        [\A k \in Key : told[k] # NoCall /\ getStatusScale(told'[k]) < getStatusScale(told[k])
           => \E h \in Handler : pc[h] = "publish" /\ MadeUp(call[h])]_vars
  BY <1>1
<1>3. QED
  BY <1>2, AnnouncingInit, AnnouncingStep, PTL DEF Spec, OnlyMadeUpDispatchTellsBack

------------------------------------------------------------------------------
(* The made-up dispatch is entered once.                                    *)

\* No tracking uses the id of the made-up dispatch for a dispatch.
OnlyServiceDispatches ==
  \A m \in Message : m.origin \in Tracking =>
    ~(m.id = SyntheticId /\ m.code.macro = "order-dispatched")

IsDispatch(e) == e.id = SyntheticId /\ e.code.macro = "order-dispatched"

\* A history with the made-up dispatch has it once, and has three entries more.
Once(history) ==
  /\ \A i, j \in DOMAIN history :
       IsDispatch(history[i]) /\ IsDispatch(history[j]) => i = j
  /\ \A i \in DOMAIN history : IsDispatch(history[i]) => Len(history) >= 4

OnceOK == \A k \in Stored : Once(orders[k].history)

\* The call enters a made-up dispatch.
Adds(c) == KeepsHistory(c) /\ IsDispatch(EntryOf(c))

\* A handler makes up a dispatch only for the one document that its filter
\* matches, and as long as that has three entries.
MakesUp(h) ==
  /\ pc[h] = "notify" /\ Len(reply[h].order.history) = 3 =>
       Found(call[h]) = {reply[h].key}
  /\ pc[h] = "dispatch" =>
       /\ Found(call[h]) = {reply[h].key}
       /\ Len(orders[reply[h].key].history) = 3
  /\ pc[h] \in {"create", "insert", "update", "updateMany"} /\ Adds(call[h]) =>
       /\ pc[h] = "update"
       /\ \A k \in Found(call[h]) : Len(orders[k].history) = 3

MakesUpOK == \A h \in Handler : MakesUp(h)

LEMMA OnceKept ==
  ASSUME NEW c \in Call, NEW old \in Order, GoodHistory(old.history), Once(old.history),
         Adds(c) => Len(old.history) = 3
  PROVE  Once(NewHistory(c, old, old))
<1> DEFINE h == old.history
           new == NewHistory(c, old, old)
<1>1. h \in Seq(Entry) /\ EntryOf(c) \in Entry /\ new \in Seq(Entry)
  BY EntryOfType, NewHistoryType DEF Order
<1>2. CASE new = h
  BY <1>2
<1>3. CASE new # h
  <2>1. KeepsHistory(c) /\ new = Sorted(h, EntryOf(c))
    BY <1>3 DEF NewHistory
  <2>2. Len(new) = Len(h) + 1 /\ Len(h) \in Nat
    <3>1. Len(Sorted(h, EntryOf(c))) = Len(h) + 1
      BY <1>1, SortedType
    <3>2. Len(h) \in Nat
      BY <1>1
    <3>3. QED
      BY <2>1, <3>1, <3>2
  <2>3. AllDifferent(new)
    BY NewHistoryGood DEF GoodHistory
  <2>4. ASSUME NEW i \in DOMAIN new
        PROVE  new[i] = EntryOf(c) \/ \E j \in DOMAIN h : new[i] = h[j]
    BY <2>4, NewHistoryFrom
  <2>5. \A i, j \in DOMAIN new : new[i] = new[j] => i = j
    BY <2>3 DEF AllDifferent, SameEvent
  <2> HIDE DEF new
  <2>6. CASE Adds(c)
    <3> Len(h) = 3
      BY <2>6
    <3>1. \A j \in DOMAIN h : ~IsDispatch(h[j])
      <4>1. ~(Len(h) >= 4)
        OBVIOUS
      <4>2. QED
        BY <4>1 DEF Once
    <3>2. \A i \in DOMAIN new : IsDispatch(new[i]) => new[i] = EntryOf(c)
      BY <2>4, <3>1
    <3>3. Len(new) >= 4
      BY <2>2
    <3>4. Once(new)
      BY <2>5, <3>2, <3>3 DEF Once
    <3>5. QED
      BY <3>4 DEF new
  <2>7. CASE ~Adds(c)
    <3>1. ~IsDispatch(EntryOf(c))
      BY <2>1, <2>7 DEF Adds
    <3>2. \A i \in DOMAIN new : IsDispatch(new[i]) => \E j \in DOMAIN h : new[i] = h[j]
      BY <2>4, <3>1
    <3>3. \A i, j \in DOMAIN new : IsDispatch(new[i]) /\ IsDispatch(new[j]) => i = j
      <4>1. TAKE i, j \in DOMAIN new
      <4>2. HAVE IsDispatch(new[i]) /\ IsDispatch(new[j])
      <4>3. PICK a \in DOMAIN h : new[i] = h[a]
        BY <3>2, <4>2
      <4>4. PICK b \in DOMAIN h : new[j] = h[b]
        BY <3>2, <4>2
      <4>5. a = b
        BY <4>2, <4>3, <4>4 DEF Once
      <4>6. QED
        BY <2>5, <4>3, <4>4, <4>5
    <3>4. \A i \in DOMAIN new : IsDispatch(new[i]) => Len(new) >= 4
      <4>1. TAKE i \in DOMAIN new
      <4>2. HAVE IsDispatch(new[i])
      <4>3. PICK a \in DOMAIN h : new[i] = h[a]
        BY <3>2, <4>2
      <4>4. Len(h) >= 4
        BY <4>2, <4>3 DEF Once
      <4>5. QED
        BY <2>2, <4>4
    <3>5. Once(new)
      BY <3>3, <3>4 DEF Once
    <3>6. QED
      BY <3>5 DEF new
  <2>8. QED
    BY <2>6, <2>7
<1>4. QED
  BY <1>2, <1>3

LEMMA OnceStep ==
  ASSUME OneAtATime, SerialOK, MakesUpOK, OnceOK, [Next]_vars PROVE OnceOK'
<1>1. CASE UNCHANGED vars
  BY <1>1 DEF OnceOK, Stored, vars
<1> SUFFICES ASSUME Next, NEW h \in Handler, NEW k \in Key, orders'[k] # NoOrder
             PROVE  Once(orders'[k].history)
  <2>1. ASSUME Next PROVE \E h \in Handler : TRUE
    BY <2>1 DEF Next
  <2>2. QED
    BY <1>1, <2>1 DEF OnceOK, Stored
<1>2. orders[k] # NoOrder => Once(orders[k].history) /\ GoodHistory(orders[k].history)
  BY DEF OnceOK, Stored, SerialOK, HistoryOK
<1>3. CASE orders'[k] = orders[k]
  BY <1>2, <1>3
<1>4. CASE /\ pc[h] = "insert" /\ k = call[h].key
           /\ \E copied \in SUBSET call[h].pods : orders'[k] = Created(call[h], copied)
  <2>1. orders'[k].history = IF KeepsHistory(call[h]) THEN <<EntryOf(call[h])>> ELSE <<>>
    BY <1>4 DEF Created
  <2>2. ~Adds(call[h])
    BY <1>4 DEF MakesUpOK, MakesUp
  <2>3. \A i \in DOMAIN orders'[k].history :
          KeepsHistory(call[h]) /\ orders'[k].history[i] = EntryOf(call[h])
    BY <2>1
  <2>4. \A i \in DOMAIN orders'[k].history : ~IsDispatch(orders'[k].history[i])
    BY <2>2, <2>3 DEF Adds
  <2>5. QED
    BY <2>4 DEF Once
<1>5. CASE /\ orders[k] # NoOrder
           /\ orders'[k] = [orders[k] EXCEPT !.keys = @ \union {call[h].key}]
  <2>1. orders[k] \in Order
    BY <1>5 DEF SerialOK, TypeOK, Documents
  <2>2. orders'[k].history = orders[k].history
    BY <1>5, <2>1 DEF Order
  <2>3. QED
    BY <1>2, <1>5, <2>2
<1>6. ASSUME Open(h, k), pc[h] \in {"update", "updateMany"},
             NEW copied \in SUBSET call[h].pods,
             orders'[k] \in {Updated(call[h], copied, orders[k], orders[k]),
                             UpdatedAmongMany(call[h], copied, orders[k], orders[k])}
      PROVE  Once(orders'[k].history)
  <2>1. call[h] \in Call /\ copied \in SUBSET Pod
    BY <1>6 DEF SerialOK, HandlerOK, Call
  <2>2. orders[k] \in Order /\ orders[k] # NoOrder
    BY <1>6 DEF Open, Stored, SerialOK, TypeOK, Documents
  <2>3. orders'[k].history = NewHistory(call[h], orders[k], orders[k])
    BY <1>6, <2>1, <2>2, UpdatedFields
  <2>4. Adds(call[h]) => Len(orders[k].history) = 3
    BY <1>6 DEF MakesUpOK, MakesUp, Open
  <2>5. QED
    BY <1>2, <2>1, <2>2, <2>3, <2>4, OnceKept
<1>7. QED
  BY <1>3, <1>4, <1>5, <1>6, Growth DEF Grown, SerialOK

\* Messages of other services do not enter the made-up dispatch.
LEMMA MessagesAddNone ==
  ASSUME OnlyServiceDispatches, NEW m \in Message PROVE ~Adds(DataOf(m))
<1>1. CASE m.origin = "IHUB"
  BY <1>1 DEF DataOf, WithCode, Adds, KeepsHistory
<1>2. CASE m.origin = "INTELIPOST"
  BY <1>2 DEF DataOf, WithCode, Adds, IsDispatch, EntryOf, changeDispatchStatus
<1>3. CASE m.origin \in Tracking
  BY <1>3 DEF DataOf, WithCode, Adds, IsDispatch, EntryOf, OnlyServiceDispatches, Tracking
<1>4. QED
  BY <1>1, <1>2, <1>3 DEF MessageType, Origin, Tracking

LEMMA FoundAfterUpdate ==
  ASSUME SerialOK, NEW h \in Handler, Updates(h)
  PROVE  Found(call[h])' = {reply'[h].key}
<1>1. PICK k \in Stored, copied \in SUBSET call[h].pods :
        /\ Open(h, k) /\ Found(call[h]) = {k}
        /\ Writes(h, k, Updated(call[h], copied, orders[k], orders[k]))
  BY DEF Updates
<1> DEFINE new == Updated(call[h], copied, orders[k], orders[k])
           c == call[h]
<1>2. c \in Call /\ Proper(c) /\ copied \in SUBSET Pod
  BY <1>1 DEF Updates, SerialOK, HandlerOK, CallsOK, Call
<1>3. k \in Key /\ orders[k] \in Order /\ orders[k] # NoOrder /\ GoodOrder(k, orders[k])
  BY DEF Stored, SerialOK, TypeOK, Documents, DocumentsOK
<1>4. new \in Order /\ new.sale = orders[k].sale
  BY <1>2, <1>3, UpdatedType, UpdatedFields
<1>5. new.keys = c.keys \union orders[k].keys
  BY <1>2, <1>3, UpdatedStatus DEF GoodOrder
<1>6. /\ orders' = [orders EXCEPT ![k] = new] /\ reply'[h].key = k /\ call'[h] = c
  BY <1>1 DEF Writes
<1> HIDE DEF new
<1>7. Stored' = Stored
  BY <1>3, <1>4, <1>6 DEF Stored, SerialOK, TypeOK, Documents
<1>8. OfSale(c.sale)' = OfSale(c.sale)
  BY <1>3, <1>4, <1>6, <1>7 DEF OfSale, Stored, SerialOK, TypeOK, Documents
<1>9. c.key \in c.keys
  BY <1>2 DEF Proper
<1>10. \A j \in Stored : j # k => orders'[j].keys = orders[j].keys
  BY <1>6 DEF Stored, SerialOK, TypeOK, Documents
<1>11. orders'[k].keys = new.keys
  BY <1>3, <1>6 DEF SerialOK, TypeOK, Documents
<1>12. CASE c.origin = "IHUB"
  BY <1>1, <1>6, <1>8, <1>12 DEF Found, OfSale, Stored
<1>13. CASE c.origin = "INTELIPOST"
  BY <1>1, <1>5, <1>6, <1>8, <1>9, <1>10, <1>11, <1>13 DEF Found, OfSale, Stored
<1>14. CASE c.origin \notin {"IHUB", "INTELIPOST"}
  BY <1>1, <1>6, <1>7, <1>14 DEF Found, Stored
<1>15. QED
  BY <1>12, <1>13, <1>14

LEMMA WrittenLen ==
  ASSUME SerialOK, NEW h \in Handler, Inserts(h), Len(reply'[h].order.history) = 3
  PROVE  FALSE
<1>1. PICK copied : reply'[h] = [key |-> call[h].key, order |-> Created(call[h], copied)]
  BY DEF Inserts, Writes
<1>2. reply'[h].order.history = IF KeepsHistory(call[h]) THEN <<EntryOf(call[h])>> ELSE <<>>
  BY <1>1 DEF Created
<1>3. Len(<<EntryOf(call[h])>>) = 1 /\ Len(<<>>) = 0
  OBVIOUS
<1>4. QED
  BY <1>2, <1>3

\* A filter matches the same documents for the dispatch as for the event.
LEMMA SyntheticFound == ASSUME NEW c \in Call PROVE Found(Synthetic(c)) = Found(c)
<1> DEFINE d == Synthetic(c)
<1>1. d.origin = c.origin /\ d.key = c.key /\ d.sale = c.sale
  BY SyntheticFields
<1> HIDE DEF d
<1>2. Found(d) = Found(c)
  BY <1>1 DEF Found
<1>3. QED
  BY <1>2 DEF d

LEMMA MakesUpStep ==
  ASSUME OneAtATime, OnlyServiceDispatches, AnnouncingOK, MakesUpOK, [Next]_vars
  PROVE  MakesUpOK'
<1>1. CASE UNCHANGED vars
  <2>1. \A h : Found(call[h])' = Found(call[h])
    BY <1>1 DEF Found, OfSale, Stored, vars
  <2>2. UNCHANGED <<orders, pc, call, reply>>
    BY <1>1 DEF vars
  <2>3. ASSUME NEW h \in Handler PROVE MakesUp(h)'
    BY <2>1, <2>2 DEF MakesUpOK, MakesUp
  <2>4. QED
    BY <2>3 DEF MakesUpOK
<1> SUFFICES ASSUME Next, NEW h \in Handler PROVE MakesUp(h)'
  BY <1>1 DEF MakesUpOK
<1>2. MakesUp(h) /\ SerialOK /\ ReplyOK(h)
  BY DEF MakesUpOK, AnnouncingOK, RepliesOK
<1>3. CASE Arrives(h)
  <2>1. PICK m \in Message : Begins(h, DataOf(m), "idle")
    BY <1>3 DEF Arrives
  <2>2. pc'[h] = "idle" \/ (call'[h] = DataOf(m) /\ pc'[h] \in {"create", "update", "updateMany"})
    BY <2>1 DEF Begins
  <2>3. pc'[h] # "idle" => ~Adds(call'[h])
    BY <2>2, MessagesAddNone
  <2>4. QED
    BY <2>2, <2>3 DEF MakesUp
<1>4. CASE Looks(h) \/ Links(h)
  <2>1. pc[h] \in {"create", "insert"} /\ pc'[h] = "insert"
    BY <1>4 DEF Looks, Links
  <2>2. call[h] \in Call /\ ~Adds(call[h])
    BY <1>2, <2>1 DEF SerialOK, HandlerOK, MakesUp
  <2>3. /\ call'[h].origin = call[h].origin /\ call'[h].code = call[h].code
        /\ call'[h].id = call[h].id
    BY <1>4, <2>2 DEF Looks, Links, Call
  <2>4. ~Adds(call'[h])
    BY <2>2, <2>3 DEF Adds, KeepsHistory, IsDispatch, EntryOf
  <2>5. QED
    BY <2>1, <2>4 DEF MakesUp
<1>5. CASE Inserts(h)
  <2>1. pc'[h] = "notify"
    BY <1>5 DEF Inserts, Writes
  <2>2. QED
    BY <1>2, <1>5, <2>1, WrittenLen DEF MakesUp
<1>6. CASE Updates(h)
  <2>1. pc'[h] = "notify"
    BY <1>6 DEF Updates, Writes
  <2>2. QED
    BY <1>2, <1>6, <2>1, FoundAfterUpdate DEF MakesUp
<1>7. CASE Spoils(h) \/ Publishes(h) \/ Stops(h)
  <2>1. pc'[h] \in {"idle", "publish"}
    BY <1>7 DEF Spoils, Publishes, Stops, Ends
  <2>2. QED
    BY <2>1 DEF MakesUp
<1>8. CASE Notifies(h)
  <2>1. CASE pc'[h] \in {"idle", "publish"}
    BY <2>1 DEF MakesUp
  <2>2. CASE /\ call'[h] = call[h] /\ reply'[h] = reply[h] /\ pc'[h] = "dispatch"
             /\ NeedsDispatch(reply[h].order)
    <3>1. pc[h] = "notify" /\ UNCHANGED orders
      BY <1>8 DEF Notifies
    <3>2. Len(reply[h].order.history) = 3 /\ reply[h].order = orders[reply[h].key]
      BY <1>2, <2>2, <3>1 DEF NeedsDispatch, ReplyOK
    <3>3. Found(call[h]) = {reply[h].key}
      BY <1>2, <3>1, <3>2 DEF MakesUp
    <3>4. Found(call[h])' = Found(call[h])
      BY <2>2, <3>1 DEF Found, OfSale, Stored
    <3>5. QED
      BY <2>2, <3>1, <3>2, <3>3, <3>4 DEF MakesUp
  <2>3. QED
    BY <1>8, <2>1, <2>2 DEF Notifies
<1>9. CASE Dispatches(h)
  <2>1. CASE pc'[h] = "publish"
    BY <2>1 DEF MakesUp
  <2>2. CASE pc'[h] # "publish"
    <3> DEFINE c == Synthetic(call[h])
    <3>1. /\ pc[h] = "dispatch" /\ UNCHANGED orders /\ call'[h] = c
          /\ pc'[h] = Path(c) /\ Path(c) \in {"create", "update", "updateMany"}
      BY <1>9, <2>2 DEF Dispatches, Begins
    <3>2. call[h] \in Call
      BY <1>2, <3>1 DEF SerialOK, HandlerOK
    <3>3. Found(c) = {reply[h].key} /\ Len(orders[reply[h].key].history) = 3
      BY <1>2, <3>1, <3>2, SyntheticFound DEF MakesUp
    <3>4. Path(c) = "update"
      BY <3>1, <3>3 DEF Path
    <3>5. Found(call[h])' = Found(c)
      BY <3>1 DEF Found, OfSale, Stored
    <3> HIDE DEF c
    <3>6. QED
      BY <3>1, <3>3, <3>4, <3>5 DEF MakesUp
  <2>3. QED
    BY <2>1, <2>2
<1>10. QED
  BY <1>2, <1>3, <1>4, <1>5, <1>6, <1>7, <1>8, <1>9, Kinds DEF SerialOK

\* The dispatch that the service makes up for an order is entered once, provided
\* that no tracking sends a dispatch under the same id.
THEOREM DispatchEnteredOnce ==
  ASSUME OneAtATime, OnlyServiceDispatches PROVE Spec => []DispatchedOnce
<1> DEFINE Inv == AnnouncingOK /\ MakesUpOK /\ OnceOK
<1>1. Init => Inv
  <2>1. Init => MakesUpOK
    BY DEF Init, MakesUpOK, MakesUp
  <2>2. Init => OnceOK
    BY DEF Init, OnceOK, Stored, Nothing
  <2>3. QED
    BY <2>1, <2>2, AnnouncingInit
<1>2. Inv /\ [Next]_vars => Inv'
  BY AnnouncingStep, MakesUpStep, OnceStep DEF AnnouncingOK
<1>3. Inv => DispatchedOnce
  BY DEF OnceOK, Once, IsDispatch, DispatchedOnce
<1> HIDE DEF Inv
<1>4. Spec => []Inv
  BY <1>1, <1>2, PTL DEF Spec
<1>5. QED
  BY <1>3, <1>4, PTL
==============================================================================
