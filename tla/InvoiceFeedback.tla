--------------------------- MODULE InvoiceFeedback ---------------------------
(* What the reports of the integrations leave behind for one invoice:       *)
(* integrated takes them from their topic and updateIntegrations keeps the  *)
(* last one of each integration in the order's list, by reading the list,   *)
(* changing it and writing it back.  The partitions of the topic are        *)
(* consumed side by side, and intelipostOrderCompensator commits its own    *)
(* offsets on this topic.                                                   *)
EXTENDS Naturals, Sequences, FiniteSets

CONSTANTS
  Partition,
  Name,         \* the integrations
  Log,          \* the reports in each partition
  Asked,        \* how many messages each partition of the compensator has
  MaxMishaps,   \* bound: exceptions in the handler
  MaxRestarts,  \* bound: restarts of the consumers
  NoOrder

Report == [name : Name, status : {"done", "pending", "error"}]

ASSUME FeedbackAssumption ==
  /\ Log \in [Partition -> Seq(Report)]
  /\ Asked \in [Partition -> Nat]
  /\ {MaxMishaps, MaxRestarts} \subseteq Nat
  /\ NoOrder \notin [full : BOOLEAN, list : Seq(Report)]

VARIABLES
  order,      \* the order document with the invoice's key
  status,     \* the status of the invoice
  handler,    \* what the consumer of each partition is doing
  next,       \* its position, in memory
  committed,  \* the position from which it starts again
  asked,      \* the position of the compensator's consumer
  handled,    \* history: the reports whose handler came to its end
  advanced,   \* history: how far the compensator moved the committed position
  ledger,     \* history: the last status written for each integration
  arrived,    \* history: whether the order was stored by the order consumers
  raced,      \* history: whether a list changed between its read and its write
  late,       \* history: whether an order came between a read and the insert
  mishaps, restarts

vars == <<order, status, handler, next, committed, asked, handled, advanced,
          ledger, arrived, raced, late, mishaps, restarts>>

Order == [full : BOOLEAN, list : Seq(Report)]

Idle == [at |-> "idle", seen |-> NoOrder]

Init ==
  /\ order = NoOrder
  /\ status = "created"
  /\ handler = [p \in Partition |-> Idle]
  /\ next = [p \in Partition |-> 0]
  /\ committed = next /\ asked = next /\ advanced = next
  /\ handled = [p \in Partition |-> {}]
  /\ ledger = [n \in Name |-> "none"]
  /\ arrived = FALSE /\ raced = FALSE /\ late = FALSE
  /\ mishaps = 0 /\ restarts = 0

ListOf(o) == IF o = NoOrder THEN <<>> ELSE o.list
Listed(list, n) == {i \in DOMAIN list : list[i].name = n}
First(list, n) == CHOOSE i \in Listed(list, n) : \A j \in Listed(list, n) : i <= j

Current(p) == Log[p][next[p] + 1]

At(p, step) == handler' = [handler EXCEPT ![p].at = step]

------------------------------------------------------------------------------
(* integrated and updateIntegrations                                        *)

\* The order is looked up by the invoice's key.
Read(p) ==
  /\ handler[p].at = "idle" /\ next[p] < Len(Log[p])
  /\ handler' = [handler EXCEPT ![p] = [at |-> "write", seen |-> order]]
  /\ UNCHANGED <<order, status, next, committed, asked, handled, advanced,
                 ledger, arrived, raced, late, mishaps, restarts>>

\* Broken variants: an entry of the integration is not looked for; an order without a list is taken for one that is not there.
Integrated_append(seen, now, report) ==
  IF seen = NoOrder
  THEN [full |-> FALSE, list |-> <<report>>]
  ELSE [now EXCEPT !.list = Append(ListOf(seen), report)]

Integrated_insert(seen, now, report) ==
  IF ListOf(seen) = <<>>
  THEN [full |-> FALSE, list |-> <<report>>]
  ELSE IF Listed(ListOf(seen), report.name) = {} THEN [now EXCEPT !.list = Append(@, report)]
  ELSE [now EXCEPT !.list = [ListOf(seen) EXCEPT ![First(ListOf(seen), report.name)] = report]]

\* The order after the write: what is written depends on what was read.
\* An entry of the integration is replaced in the list that was read, which
\* is written whole; a new one is pushed; the list is begun; and when no order
\* was found one is inserted, or the one stored by now is overwritten.
Integrated(seen, now, report) ==
  IF seen = NoOrder
  THEN [full |-> FALSE, list |-> <<report>>]
  ELSE IF ListOf(seen) = <<>> THEN [now EXCEPT !.list = <<report>>]
  ELSE IF Listed(ListOf(seen), report.name) = {} THEN [now EXCEPT !.list = Append(@, report)]
  ELSE [now EXCEPT !.list = [ListOf(seen) EXCEPT ![First(ListOf(seen), report.name)] = report]]

updateIntegrations(p) ==
  /\ handler[p].at = "write"
  /\ LET seen == handler[p].seen
     IN /\ order' = Integrated(seen, order, Current(p))
        /\ raced' = (raced \/ ListOf(order) # ListOf(seen))
        /\ late' = (late \/ (seen = NoOrder /\ order # NoOrder))
  /\ ledger' = [ledger EXCEPT ![Current(p).name] = Current(p).status]
  /\ At(p, "status")
  /\ UNCHANGED <<status, next, committed, asked, handled, advanced, arrived,
                 mishaps, restarts>>

SetStatus(p) ==
  /\ handler[p].at = "status"
  /\ status' = IF Current(p).status = "done" THEN "success" ELSE Current(p).status
  /\ At(p, "commit")
  /\ UNCHANGED <<order, next, committed, asked, handled, advanced, ledger,
                 arrived, raced, late, mishaps, restarts>>

\* An exception in either write: the invoice gets the status error, and the
\* report is committed all the same.
Fail(p) ==
  /\ handler[p].at \in {"write", "status"} /\ mishaps < MaxMishaps
  /\ status' = "error"
  /\ At(p, "commit")
  /\ mishaps' = mishaps + 1
  /\ UNCHANGED <<order, next, committed, asked, handled, advanced, ledger,
                 arrived, raced, late, restarts>>

\* Broken variant: the offset is incremented by the caller too.
Commit_twice(p) ==
  /\ handler[p].at = "commit"
  /\ committed' = [committed EXCEPT ![p] = next[p] + 2]
  /\ handled' = [handled EXCEPT ![p] = @ \union {next[p]}]
  /\ next' = [next EXCEPT ![p] = @ + 1]
  /\ handler' = [handler EXCEPT ![p] = Idle]
  /\ UNCHANGED <<order, status, asked, advanced, ledger, arrived, raced, late,
                 mishaps, restarts>>

\* finally: the offset after the report is committed.
Commit(p) ==
  /\ handler[p].at = "commit"
  /\ committed' = [committed EXCEPT ![p] = next[p] + 1]
  /\ handled' = [handled EXCEPT ![p] = @ \union {next[p]}]
  /\ next' = [next EXCEPT ![p] = @ + 1]
  /\ handler' = [handler EXCEPT ![p] = Idle]
  /\ UNCHANGED <<order, status, asked, advanced, ledger, arrived, raced, late,
                 mishaps, restarts>>

------------------------------------------------------------------------------
(* The compensator, the order consumers and the process                     *)

\* The invoice it looks up lacks its carrier, so that the attempt to integrate
\* it ends in the status error; the offset goes to the topic of the reports.
intelipostOrderCompensator(p) ==
  /\ asked[p] < Asked[p]
  /\ status' = "error"
  /\ committed' = [committed EXCEPT ![p] = asked[p] + 1]
  /\ advanced' = [advanced EXCEPT ![p] = IF asked[p] + 1 > @ THEN asked[p] + 1 ELSE @]
  /\ asked' = [asked EXCEPT ![p] = @ + 1]
  /\ UNCHANGED <<order, handler, next, handled, ledger, arrived, raced, late,
                 mishaps, restarts>>

\* The order consumers store the order in full and keep its list.
OrderArrives ==
  /\ ~arrived
  /\ order' = [full |-> TRUE, list |-> ListOf(order)]
  /\ arrived' = TRUE
  /\ UNCHANGED <<status, handler, next, committed, asked, handled, advanced,
                 ledger, raced, late, mishaps, restarts>>

\* The consumers start again where the committed positions are; those of the
\* compensator were never committed.
Restart ==
  /\ restarts < MaxRestarts
  /\ next' = committed
  /\ asked' = [p \in Partition |-> 0]
  /\ handler' = [p \in Partition |-> Idle]
  /\ restarts' = restarts + 1
  /\ UNCHANGED <<order, status, committed, handled, advanced, ledger, arrived,
                 raced, late, mishaps>>

Step(p) == Read(p) \/ updateIntegrations(p) \/ SetStatus(p) \/ Commit(p)

Next ==
  \/ \E p \in Partition : Step(p) \/ Fail(p) \/ intelipostOrderCompensator(p)
  \/ OrderArrives
  \/ Restart

Spec == Init /\ [][Next]_vars

\* The consumers keep running.
FairSpec == Spec /\ \A p \in Partition : WF_vars(Step(p))

------------------------------------------------------------------------------
(* Properties                                                               *)

Agrees(list, last) ==
  /\ \A n \in Name : last[n] = "none" <=> Listed(list, n) = {}
  /\ \A i, j \in DOMAIN list : list[i].name = list[j].name => i = j
  /\ \A i \in DOMAIN list : list[i].status = last[list[i].name]

\* The list has one entry for each integration that reported, with the last
\* status written for it (updateIntegrations), unless two handlers read the
\* list before either wrote it.
ListedAsReported == ~raced => Agrees(ListOf(order), ledger)

\* A report never empties an order that the order consumers stored, unless
\* the order came between the lookup and the insert of updateIntegrations.
OrderKept == arrived /\ ~late => order # NoOrder /\ order.full

\* Every report is handled sooner or later, whatever restarts come, unless the
\* compensator committed an offset beyond it in its partition (removeFromQueue
\* in intelipostOrderCompensator).
ReportsHandled ==
  \A p \in Partition : \A offset \in 0 .. Len(Log[p]) - 1 :
    <>(offset \in handled[p] \/ advanced[p] > offset)
==============================================================================
