------------------------ MODULE InvoiceFeedbackProofs ------------------------
(* For any partitions, reports and bounds: the list agrees with what was    *)
(* reported as long as no two handlers raced, and a stored order is not     *)
(* emptied as long as it did not come between a lookup and an insert.       *)
EXTENDS InvoiceFeedback, TLAPS

LastStatus == {"none", "done", "pending", "error"}

\* The shape of the state that the proofs need; a handler that is under way
\* has a report.
TypeInv ==
  /\ order \in Order \union {NoOrder}
  /\ handler \in [Partition -> [at : {"idle", "write", "status", "commit"},
                                seen : Order \union {NoOrder}]]
  /\ next \in [Partition -> Nat]
  /\ committed \in [Partition -> Nat]
  /\ asked \in [Partition -> Nat]
  /\ ledger \in [Name -> LastStatus]
  /\ \A p \in Partition : handler[p].at # "idle" => next[p] < Len(Log[p])

\* An order that was found is still stored: nothing deletes it.
SeenStays == \A p \in Partition : handler[p].seen # NoOrder => order # NoOrder

IInv == TypeInv /\ SeenStays /\ OrderKept /\ ListedAsReported

USE FeedbackAssumption DEF FeedbackAssumption

\* The report in hand is one.
LEMMA CurrentIsReport ==
  ASSUME TypeInv, NEW p \in Partition, handler[p].at # "idle"
  PROVE  Current(p) \in Report
<1>1. next[p] \in Nat /\ next[p] < Len(Log[p]) BY DEF TypeInv
<1>2. Log[p] \in Seq(Report) OBVIOUS
<1>3. next[p] + 1 \in 1 .. Len(Log[p]) BY <1>1, <1>2
<1> QED BY <1>2, <1>3 DEF Current

\* A list with the one report of an integration when none had reported.
LEMMA AgreesSingle ==
  ASSUME NEW last \in [Name -> LastStatus], NEW r \in Report, Agrees(<<>>, last)
  PROVE  Agrees(<<r>>, [last EXCEPT ![r.name] = r.status])
<1> DEFINE new == [last EXCEPT ![r.name] = r.status]
<1>1. r.name \in Name /\ r.status # "none" BY DEF Report
<1>2. \A n \in Name : last[n] = "none" BY DEF Agrees, Listed
<1>3. \A n \in Name : new[n] = IF n = r.name THEN r.status ELSE "none" BY <1>2
<1>4. DOMAIN <<r>> = {1} /\ <<r>>[1] = r OBVIOUS
<1>5. \A n \in Name : Listed(<<r>>, n) = IF n = r.name THEN {1} ELSE {} BY <1>4 DEF Listed
<1> QED BY <1>1, <1>3, <1>4, <1>5 DEF Agrees

\* The first report of an integration pushed onto the list.
LEMMA AgreesAppend ==
  ASSUME NEW last \in [Name -> LastStatus], NEW r \in Report, NEW list \in Seq(Report),
         Agrees(list, last), Listed(list, r.name) = {}
  PROVE  Agrees(Append(list, r), [last EXCEPT ![r.name] = r.status])
<1> DEFINE new == [last EXCEPT ![r.name] = r.status]
           longer == Append(list, r)
<1>1. r.name \in Name /\ r.status # "none" BY DEF Report
<1>2. \A n \in Name : new[n] = IF n = r.name THEN r.status ELSE last[n] OBVIOUS
<1>3. /\ DOMAIN longer = 1 .. Len(list) + 1 /\ Len(list) \in Nat
      /\ DOMAIN list = 1 .. Len(list)
      /\ \A i \in DOMAIN list : longer[i] = list[i]
      /\ longer[Len(list) + 1] = r
  OBVIOUS
<1>4. \A i \in DOMAIN list : list[i].name # r.name /\ list[i].name \in Name
  <2> TAKE i \in DOMAIN list
  <2>1. list[i] \in Report BY <1>3
  <2> QED BY <2>1 DEF Listed, Report
<1>5. \A n \in Name : Listed(longer, n) = IF n = r.name THEN {Len(list) + 1} ELSE Listed(list, n)
  BY <1>3, <1>4 DEF Listed
<1>6. \A n \in Name : new[n] = "none" <=> Listed(longer, n) = {}
  BY <1>1, <1>2, <1>5 DEF Agrees
<1>7. \A i, j \in DOMAIN longer : longer[i].name = longer[j].name => i = j
  BY <1>3, <1>4 DEF Agrees
<1>8. \A i \in DOMAIN longer : longer[i].status = new[longer[i].name]
  BY <1>1, <1>2, <1>3, <1>4 DEF Agrees
<1> QED BY <1>6, <1>7, <1>8 DEF Agrees

\* A further report put in the place of the earlier one.
LEMMA AgreesReplace ==
  ASSUME NEW last \in [Name -> LastStatus], NEW r \in Report, NEW list \in Seq(Report),
         Agrees(list, last), Listed(list, r.name) # {}
  PROVE  LET changed == [list EXCEPT ![First(list, r.name)] = r]
         IN changed \in Seq(Report) /\ Agrees(changed, [last EXCEPT ![r.name] = r.status])
<1> DEFINE new == [last EXCEPT ![r.name] = r.status]
           k == First(list, r.name)
           changed == [list EXCEPT ![k] = r]
<1>1. r.name \in Name /\ r.status # "none" BY DEF Report
<1>2. PICK i \in Listed(list, r.name) : TRUE OBVIOUS
<1>3. Listed(list, r.name) = {i} BY <1>2 DEF Listed, Agrees
<1>4. k = i BY <1>3 DEF First, Listed, Report
<1>5. i \in DOMAIN list /\ list[i].name = r.name BY <1>2 DEF Listed
<1>6. /\ DOMAIN changed = DOMAIN list
      /\ changed[i] = r
      /\ \A j \in DOMAIN list \ {i} : changed[j] = list[j] /\ list[j].name # r.name
  BY <1>4, <1>5 DEF Agrees
<1>7. \A n \in Name : new[n] = IF n = r.name THEN r.status ELSE last[n] OBVIOUS
<1>8. \A j \in DOMAIN list : changed[j].name = list[j].name /\ list[j].name \in Name
  <2> TAKE j \in DOMAIN list
  <2>1. list[j] \in Report OBVIOUS
  <2> QED BY <1>5, <1>6, <2>1 DEF Report
<1>9. \A n \in Name : Listed(changed, n) = Listed(list, n) BY <1>6, <1>8 DEF Listed
<1>10. \A n \in Name : new[n] = "none" <=> Listed(changed, n) = {}
  BY <1>1, <1>5, <1>7, <1>9 DEF Agrees, Listed
<1>11. \A j, l \in DOMAIN changed : changed[j].name = changed[l].name => j = l
  BY <1>6, <1>8 DEF Agrees
<1>12. \A j \in DOMAIN changed : changed[j].status = new[changed[j].name]
  BY <1>1, <1>5, <1>6, <1>7, <1>8 DEF Agrees
<1>13. changed \in Seq(Report) BY <1>4, <1>5
<1> QED BY <1>10, <1>11, <1>12, <1>13 DEF Agrees

\* An order put together, and one whose list is exchanged.
LEMMA MakeOrder ==
  ASSUME NEW b \in BOOLEAN, NEW l \in Seq(Report)
  PROVE  LET made == [full |-> b, list |-> l]
         IN made \in Order /\ made # NoOrder /\ made.full = b /\ ListOf(made) = l
<1> DEFINE made == [full |-> b, list |-> l]
<1>1. made \in Order BY DEF Order
<1>2. NoOrder \notin Order BY DEF Order
<1>3. made # NoOrder BY <1>1, <1>2
<1> HIDE DEF made
<1>4. ListOf(made) = made.list BY <1>3 DEF ListOf
<1>5. made.list = l /\ made.full = b BY DEF made
<1> QED BY <1>1, <1>3, <1>4, <1>5 DEF made

LEMMA SetList ==
  ASSUME NEW o \in Order, NEW l \in Seq(Report)
  PROVE  LET made == [o EXCEPT !.list = l]
         IN made \in Order /\ made # NoOrder /\ made.full = o.full /\ ListOf(made) = l
<1> DEFINE made == [o EXCEPT !.list = l]
<1>1. made = [full |-> o.full, list |-> l] BY DEF Order
<1>2. o.full \in BOOLEAN BY DEF Order
<1> QED BY <1>1, <1>2, MakeOrder

\* Each of the four cases of Integrated.
LEMMA WriteAgrees ==
  ASSUME NEW seen \in Order \union {NoOrder}, NEW now \in Order \union {NoOrder},
         NEW r \in Report, NEW last \in [Name -> LastStatus],
         seen # NoOrder => now # NoOrder
  PROVE  /\ Integrated(seen, now, r) \in Order
         /\ seen # NoOrder => Integrated(seen, now, r).full = now.full
         /\ ListOf(now) = ListOf(seen) /\ Agrees(ListOf(now), last)
              => Agrees(ListOf(Integrated(seen, now, r)), [last EXCEPT ![r.name] = r.status])
<1> DEFINE list == ListOf(seen)
           result == Integrated(seen, now, r)
<1>0. list \in Seq(Report) /\ ListOf(now) \in Seq(Report) /\ NoOrder \notin Order
  BY DEF ListOf, Order
<1>1. CASE seen = NoOrder
  <2>1. result = [full |-> FALSE, list |-> <<r>>] BY <1>1 DEF Integrated
  <2>0. <<r>> \in Seq(Report) /\ FALSE \in BOOLEAN OBVIOUS
  <2> HIDE DEF result
  <2>2. result \in Order /\ ListOf(result) = <<r>> BY <2>0, <2>1, MakeOrder
  <2>3. list = <<>> BY <1>1 DEF ListOf
  <2> QED BY <1>1, <2>2, <2>3, AgreesSingle DEF result
<1>2. CASE seen # NoOrder /\ list = <<>>
  <2>1. result = [now EXCEPT !.list = <<r>>] /\ now \in Order BY <1>2 DEF Integrated
  <2>0. <<r>> \in Seq(Report) OBVIOUS
  <2> HIDE DEF result
  <2>2. result \in Order /\ result.full = now.full /\ ListOf(result) = <<r>>
    BY <2>0, <2>1, SetList
  <2> QED BY <1>2, <2>2, AgreesSingle DEF result
<1>3. CASE seen # NoOrder /\ list # <<>> /\ Listed(list, r.name) = {}
  <2>1. result = [now EXCEPT !.list = Append(@, r)] /\ now \in Order BY <1>3 DEF Integrated
  <2>2. ListOf(now) = now.list /\ now.list \in Seq(Report) BY <2>1, <1>0 DEF ListOf, Order
  <2>4. Append(now.list, r) \in Seq(Report) BY <2>2
  <2> HIDE DEF result
  <2>5. result = [now EXCEPT !.list = Append(now.list, r)] BY <2>1
  <2>3. result \in Order /\ result.full = now.full /\ ListOf(result) = Append(ListOf(now), r)
    BY <2>1, <2>2, <2>4, <2>5, SetList
  <2> QED BY <1>0, <1>3, <2>3, AgreesAppend DEF result
<1>4. CASE seen # NoOrder /\ list # <<>> /\ Listed(list, r.name) # {}
  <2> DEFINE changed == [list EXCEPT ![First(list, r.name)] = r]
  <2>1. result = [now EXCEPT !.list = changed] /\ now \in Order BY <1>4 DEF Integrated
  <2>2. changed \in Seq(Report)
    <3> PICK k : k = First(list, r.name) OBVIOUS
    <3>1. list \in [1 .. Len(list) -> Report] /\ Len(list) \in Nat BY <1>0
    <3>2. [list EXCEPT ![k] = r] \in [1 .. Len(list) -> Report] BY <3>1
    <3> QED BY <3>1, <3>2
  <2> HIDE DEF result, changed
  <2>3. result \in Order /\ result.full = now.full /\ ListOf(result) = changed
    BY <2>1, <2>2, SetList
  <2> USE DEF changed
  <2>4. Agrees(list, last) => Agrees(changed, [last EXCEPT ![r.name] = r.status])
    BY <1>0, <1>4, AgreesReplace
  <2> QED BY <1>4, <2>3, <2>4 DEF result
<1> QED BY <1>1, <1>2, <1>3, <1>4

\* A step that moves one handler on and leaves the order alone.
LEMMA SeenStaysAt ==
  ASSUME TypeInv, SeenStays, NEW p \in Partition, NEW step, order' = order, At(p, step)
  PROVE  SeenStays'
<1> SUFFICES ASSUME NEW q \in Partition, handler'[q].seen # NoOrder PROVE order # NoOrder
  BY DEF SeenStays
<1>1. handler \in [Partition -> [at : {"idle", "write", "status", "commit"},
                                seen : Order \union {NoOrder}]]
  BY DEF TypeInv
<1>2. handler' = [handler EXCEPT ![p].at = step] BY DEF At
<1>3. handler'[q].seen = handler[q].seen BY <1>1, <1>2
<1> QED BY <1>3 DEF SeenStays

LEMMA InitIInv == Init => IInv
<1> SUFFICES ASSUME Init PROVE IInv OBVIOUS
<1>1. TypeInv BY DEF Init, TypeInv, Idle, LastStatus
<1>2. SeenStays /\ OrderKept BY DEF Init, SeenStays, OrderKept, Idle
<1>3. ListedAsReported
  <2>1. ListOf(order) = <<>> BY DEF Init, ListOf
  <2>2. \A n \in Name : Listed(<<>>, n) = {} BY DEF Listed
  <2> QED BY <2>1, <2>2 DEF Init, ListedAsReported, Agrees
<1> QED BY <1>1, <1>2, <1>3 DEF IInv

LEMMA NextIInv == IInv /\ [Next]_vars => IInv'
<1> SUFFICES ASSUME IInv, [Next]_vars PROVE IInv' OBVIOUS
<1> USE DEF IInv
<1>1. ASSUME NEW p \in Partition, Read(p) PROVE IInv'
  <2>1. TypeInv' BY <1>1 DEF Read, TypeInv
  <2>2. SeenStays' BY <1>1 DEF Read, SeenStays, TypeInv
  <2>3. OrderKept' /\ ListedAsReported'
    BY <1>1 DEF Read, OrderKept, ListedAsReported, Agrees
  <2> QED BY <2>1, <2>2, <2>3
<1>2. ASSUME NEW p \in Partition, updateIntegrations(p) PROVE IInv'
  <2> PICK r \in Report : r = Current(p) BY <1>2, CurrentIsReport DEF updateIntegrations
  <2> PICK seen \in Order \union {NoOrder} : seen = handler[p].seen BY DEF TypeInv
  <2>1. seen # NoOrder => order # NoOrder BY DEF SeenStays
  <2>2. /\ order' = Integrated(seen, order, r)
        /\ ledger' = [ledger EXCEPT ![r.name] = r.status]
        /\ raced' = (raced \/ ListOf(order) # ListOf(seen))
        /\ late' = (late \/ (seen = NoOrder /\ order # NoOrder))
        /\ handler' = [handler EXCEPT ![p].at = "status"]
        /\ UNCHANGED <<arrived, next, committed, asked>>
    BY <1>2 DEF updateIntegrations, At
  <2>3. /\ order' \in Order
        /\ seen # NoOrder => order'.full = order.full
        /\ ListOf(order) = ListOf(seen) /\ Agrees(ListOf(order), ledger) => Agrees(ListOf(order)', ledger')
    <3>1. order \in Order \union {NoOrder} /\ ledger \in [Name -> LastStatus] BY DEF TypeInv
    <3>2. ListOf(order)' = ListOf(order') BY DEF ListOf
    <3> QED BY <2>1, <2>2, <3>1, <3>2, WriteAgrees
  <2>4. order' # NoOrder BY <2>3 DEF Order
  <2>5. TypeInv'
    <3>1. ledger' \in [Name -> LastStatus] BY <2>2 DEF TypeInv, Report, LastStatus
    <3> QED BY <1>2, <2>2, <2>3, <3>1 DEF TypeInv, updateIntegrations
  <2>6. SeenStays' BY <2>4 DEF SeenStays
  <2>7. OrderKept' BY <2>1, <2>2, <2>3, <2>4 DEF OrderKept
  <2>8. ListedAsReported' BY <2>2, <2>3 DEF ListedAsReported
  <2> QED BY <2>5, <2>6, <2>7, <2>8
<1>3. ASSUME NEW p \in Partition, SetStatus(p) \/ Fail(p) PROVE IInv'
  <2>1. TypeInv' BY <1>3 DEF SetStatus, Fail, At, TypeInv
  <2>2. SeenStays'
    <3>1. order' = order /\ At(p, "commit") BY <1>3 DEF SetStatus, Fail
    <3> QED BY <3>1, SeenStaysAt
  <2>3. OrderKept' /\ ListedAsReported'
    BY <1>3 DEF SetStatus, Fail, OrderKept, ListedAsReported, Agrees
  <2> QED BY <2>1, <2>2, <2>3
<1>4. ASSUME NEW p \in Partition, Commit(p) PROVE IInv'
  <2>1. TypeInv' BY <1>4 DEF Commit, Idle, TypeInv
  <2>2. SeenStays' BY <1>4 DEF Commit, Idle, SeenStays, TypeInv
  <2>3. OrderKept' /\ ListedAsReported' BY <1>4 DEF Commit, OrderKept, ListedAsReported, Agrees
  <2> QED BY <2>1, <2>2, <2>3
<1>5. ASSUME NEW p \in Partition, intelipostOrderCompensator(p) PROVE IInv'
  <2>1. TypeInv' BY <1>5 DEF intelipostOrderCompensator, TypeInv
  <2>2. SeenStays' /\ OrderKept' /\ ListedAsReported'
    BY <1>5 DEF intelipostOrderCompensator, SeenStays, OrderKept, ListedAsReported, Agrees
  <2> QED BY <2>1, <2>2
<1>6. CASE OrderArrives
  <2>1. order' \in Order /\ ListOf(order)' = ListOf(order) /\ order' # NoOrder /\ order'.full
    <3>1. ListOf(order) \in Seq(Report) BY DEF TypeInv, ListOf, Order
    <3>2. order' = [full |-> TRUE, list |-> ListOf(order)] BY <1>6 DEF OrderArrives
    <3> PICK l \in Seq(Report) : l = ListOf(order) BY <3>1
    <3> PICK o : o = order' OBVIOUS
    <3>3. o \in Order /\ o # NoOrder /\ o.full = TRUE /\ ListOf(o) = l BY <3>2, MakeOrder
    <3>4. ListOf(order)' = ListOf(o) BY DEF ListOf
    <3> QED BY <3>3, <3>4
  <2>2. TypeInv' BY <1>6, <2>1 DEF OrderArrives, TypeInv
  <2>3. SeenStays' BY <1>6, <2>1 DEF OrderArrives, SeenStays
  <2>4. OrderKept' BY <2>1 DEF OrderKept
  <2>5. ListedAsReported' BY <1>6, <2>1 DEF OrderArrives, ListedAsReported
  <2> QED BY <2>2, <2>3, <2>4, <2>5
<1>7. CASE Restart
  <2>1. TypeInv' BY <1>7 DEF Restart, Idle, TypeInv
  <2>2. SeenStays' BY <1>7 DEF Restart, Idle, SeenStays
  <2>3. OrderKept' /\ ListedAsReported' BY <1>7 DEF Restart, OrderKept, ListedAsReported, Agrees
  <2> QED BY <2>1, <2>2, <2>3
<1>8. CASE UNCHANGED vars
  BY <1>8 DEF vars, TypeInv, SeenStays, OrderKept, ListedAsReported, Agrees
<1> QED BY <1>1, <1>2, <1>3, <1>4, <1>5, <1>6, <1>7, <1>8 DEF Next, Step

LEMMA SpecIInv == Spec => []IInv
BY InitIInv, NextIInv, PTL DEF Spec

\* updateIntegrations: without a race the list is what the reports say, one
\* entry for each integration, whatever their order and however often they
\* come.
THEOREM ListedAlways == Spec => []ListedAsReported
BY SpecIInv, PTL DEF IInv

\* updateIntegrations: an order that is stored keeps its data, however many
\* reports of it are handled at once.
THEOREM OrderKeptAlways == Spec => []OrderKept
BY SpecIInv, PTL DEF IInv
==============================================================================
