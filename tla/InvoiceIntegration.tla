------------------------- MODULE InvoiceIntegration --------------------------
(* How an invoice gets to Intelipost: the consumers of invoice.controller.ts *)
(* decide whether it can go (create), try again what could not (reprocess,   *)
(* on a timer or when its order arrives) and take reports about it           *)
(* (integrated, intelipostOrderCompensator); the listener of                 *)
(* intelipost-event.controller.ts sends it.  All of them write the one field *)
(* "status" of the invoice, none looks at it before writing, and a send that *)
(* is under way leaves no trace in it.                                       *)
EXTENDS Naturals, Sequences, FiniteSets

CONSTANTS
  Invoice,
  Sale,
  SaleOf,      \* the sale, whose order number the invoices of it share
  Setups,      \* what the carriers may say about the account and its methods
  Worker,      \* consumers and listeners of invoice.controller.ts in flight
  Sender,      \* bound: sends to Intelipost in flight
  Limit,       \* LIMIT_QUERY_ORDERS
  Resends,     \* INTELIPOST_TOTAL_RESEND
  MaxMishaps,  \* bound: exceptions, lost answers, crashes, failed writes, reports
               \* and messages to the compensator
  NoWork,
  NoSend

(* "none": the carrier lists no delivery methods for the account;           *)
(* "unmatched": none of them is the order's; "inactive": the order's method *)
(* or the account is switched off; "enabled": it can be sent.               *)
SetupKind == {"none", "unmatched", "inactive", "enabled"}

ASSUME SetupAssumption ==
  /\ SaleOf \in [Invoice -> Sale]
  /\ Setups \subseteq [Invoice -> SetupKind]
  /\ IsFiniteSet(Invoice)

ASSUME BoundAssumption == {Limit, Resends} \subseteq Nat \ {0} /\ MaxMishaps \in Nat

VARIABLES
  setup,    \* what the carrier of each invoice says; it stays as it is
  status,   \* the status of each invoice
  age,      \* the place of each invoice by updatedAt, the least recent first
  order,    \* the order document of each invoice
  inbox,    \* invoices whose INVOICE_CREATED message is not committed yet
  events,   \* invoice.reprocess events emitted for an order, not handled yet
  asked,    \* sales that the jobs endpoint sent to the compensator topic
  work,     \* what each worker is doing
  send,     \* what each sender is doing
  taken,    \* order numbers known at Intelipost: invoice, with suffix or not
  mishap,   \* history: what went wrong for which invoice
  mishaps   \* bookkeeping of the bound

vars ==
  <<setup, status, age, order, inbox, events, asked, work, send, taken, mishap, mishaps>>

\* "other" is a status that an integration reported and no query looks for.
Status == {"created", "pending", "error", "success", "other"}

\* "bare" documents were made by a report and know no delivery method.
OrderDocument == {"none", "bare", "full"}

\* A worker goes through a list of invoices; "at" is its next step for the head.
Work == [from : {"message", "reprocess", "compensator"},
         list : Seq(Invoice), at : {"look", "pend", "reject", "caught"}]

Send == [invoice : Invoice, retry : BOOLEAN, tries : 1 .. Resends,
         at : {"post", "success", "error"}]

ASSUME NullAssumption == NoWork \notin Work /\ NoSend \notin Send

Mishap == {"threw", "lost", "stopped", "unwritten", "again", "compensated", "reported"}

------------------------------------------------------------------------------

\* Mutants: the update time stays; the others keep their places; successful
\* invoices are tried again.
Touch_not(i) == age
Touch_tied(i) == [age EXCEPT ![i] = Cardinality(Invoice)]
Retried_all == {"pending", "error", "success"}

\* updateStatus also makes the invoice the most recently updated one.
Touch(i) ==
  [j \in Invoice |-> IF j = i THEN Cardinality(Invoice)
                     ELSE IF age[j] > age[i] THEN age[j] - 1 ELSE age[j]]

\* The statuses that reprocess and the jobs endpoint look for.
Retried == {"pending", "error"}

Failed == {i \in Invoice : status[i] \in Retried}

\* The Limit least recently updated ones.
Due == {i \in Failed : Cardinality({j \in Failed : age[j] < age[i]}) < Limit}

\* The list of them, by updatedAt.
findByStatus ==
  {list \in [1 .. Cardinality(Due) -> Due] :
     \A m, n \in DOMAIN list : m < n => age[list[m]] < age[list[n]]}

Elements(list) == {list[n] : n \in DOMAIN list}

Doing(w) == IF work[w] = NoWork THEN {} ELSE Elements(work[w].list)

InFlight ==
  (UNION {Doing(w) : w \in Worker})
    \union {send[s].invoice : s \in {t \in Sender : send[t] # NoSend}}

\* The order number of a send is the sale's, or, on the retry, the sale's
\* number with the invoice number appended.
Taken(i, retry) ==
  IF retry THEN <<i, TRUE>> \in taken
  ELSE \E j \in Invoice : SaleOf[j] = SaleOf[i] /\ <<j, FALSE>> \in taken

Init ==
  /\ setup \in Setups
  /\ status = [i \in Invoice |-> "created"]
  /\ age \in [Invoice -> 1 .. Cardinality(Invoice)]
  /\ \A i, j \in Invoice : age[i] = age[j] => i = j
  /\ order = [i \in Invoice |-> "none"]
  /\ inbox = Invoice
  /\ events = {}
  /\ asked = {}
  /\ work = [w \in Worker |-> NoWork]
  /\ send = [s \in Sender |-> NoSend]
  /\ taken = {}
  /\ mishap = {}
  /\ mishaps = 0

------------------------------------------------------------------------------
(* Where work comes from.                                                   *)

\* A worker takes a list of invoices.  "again" records those that another
\* worker or sender is still busy with.
Take(w, from, list) ==
  /\ work[w] = NoWork
  /\ work' = [work EXCEPT ![w] = [from |-> from, list |-> list, at |-> "look"]]
  /\ mishap' = mishap \union {<<i, "again">> : i \in Elements(list) \intersect InFlight}

\* create: the message stays until the handler is done with it.
Deliver(w, i) ==
  /\ i \in inbox
  /\ \A v \in Worker : work[v] # NoWork => work[v].from # "message" \/ i \notin Doing(v)
  /\ Take(w, "message", <<i>>)
  /\ UNCHANGED <<setup, status, age, order, inbox, events, asked, send, taken, mishaps>>

\* The cron emits invoice.reprocess without a filter.
Cron(w) ==
  /\ Due # {}
  /\ \E list \in findByStatus : Take(w, "reprocess", list)
  /\ UNCHANGED <<setup, status, age, order, inbox, events, asked, send, taken, mishaps>>

\* orderNotificationHandler has merged the order of an invoice and announces it.
OrderArrives(i) ==
  /\ i \notin events
  /\ order' = [order EXCEPT ![i] = "full"]
  /\ events' = events \union {i}
  /\ UNCHANGED <<setup, status, age, inbox, asked, work, send, taken, mishap, mishaps>>

\* reprocess with a filter: only if the invoice has failed before.
Reprocess(w, i) ==
  /\ i \in events
  /\ status[i] \in Retried
  /\ Take(w, "reprocess", <<i>>)
  /\ events' = events \ {i}
  /\ UNCHANGED <<setup, status, age, order, inbox, asked, send, taken, mishaps>>

ReprocessNothing(i) ==
  /\ i \in events
  /\ status[i] \notin Retried
  /\ events' = events \ {i}
  /\ UNCHANGED <<setup, status, age, order, inbox, asked, work, send, taken, mishap, mishaps>>

\* GET jobs/intelipost-order-integrate.
Ask ==
  /\ Due # {}
  /\ asked' = asked \union {SaleOf[i] : i \in Due}
  /\ UNCHANGED <<setup, status, age, order, inbox, events, work, send, taken, mishap, mishaps>>

\* The compensator takes some invoice with the order number of the message,
\* and reads its key and order only.  The message may be delivered at any later
\* time and again: its offset is never committed.
Compensate(w, i) ==
  /\ SaleOf[i] \in asked
  /\ work[w] = NoWork
  /\ mishaps < MaxMishaps
  /\ mishaps' = mishaps + 1
  /\ work' = [work EXCEPT ![w] = [from |-> "compensator", list |-> <<i>>, at |-> "look"]]
  /\ mishap' = mishap \union {<<i, "compensated">>}
  /\ UNCHANGED <<setup, status, age, order, inbox, events, asked, send, taken>>

\* integrated: the report of another integration; a missing order is created,
\* unless that fails, which is an error of the invoice.
Report(i) ==
  /\ mishaps < MaxMishaps
  /\ mishaps' = mishaps + 1
  /\ mishap' = mishap \union {<<i, "reported">>}
  /\ \E new \in {"success", "error", "other"} : status' = [status EXCEPT ![i] = new]
  /\ \/ order' = [order EXCEPT ![i] = IF @ = "none" THEN "bare" ELSE @]
     \/ status'[i] = "error" /\ order' = order
  /\ age' = Touch(i)
  /\ UNCHANGED <<setup, inbox, events, asked, work, send, taken>>

------------------------------------------------------------------------------
(* generateIntegration, for the head of a worker's list.                    *)

Subject(w) == Head(work[w].list)

At(w, place) == work[w] # NoWork /\ work[w].at = place

Goto(w, place) == work' = [work EXCEPT ![w].at = place]

\* The worker is done with the head of its list.  At the end of the list of a
\* message its offset is committed.
Advance(w) ==
  LET rest == Tail(work[w].list)
  IN  /\ work' = [work EXCEPT ![w] =
                    IF rest = <<>> THEN NoWork ELSE [@ EXCEPT !.list = rest, !.at = "look"]]
      /\ inbox' = IF work[w].from = "message" THEN inbox \ {Subject(w)} ELSE inbox

\* The order is there, and everything is switched on: intelipost.sent is
\* emitted, and the worker goes on without waiting for the listener.
CanSend(w) ==
  /\ At(w, "look")
  /\ work[w].from # "compensator"
  /\ setup[Subject(w)] = "enabled" /\ order[Subject(w)] = "full"

Emit(w) ==
  /\ CanSend(w)
  /\ \E s \in Sender :
       /\ send[s] = NoSend
       /\ send' = [send EXCEPT ![s] =
                     [invoice |-> Subject(w), retry |-> FALSE, tries |-> 1, at |-> "post"]]
  /\ Advance(w)
  /\ UNCHANGED <<setup, status, age, order, events, asked, taken, mishap, mishaps>>

\* The order is missing: the invoice has to wait.
Postpone(w) ==
  /\ At(w, "look")
  /\ work[w].from # "compensator" /\ order[Subject(w)] = "none"
  /\ Goto(w, "pend")
  /\ UNCHANGED <<setup, status, age, order, inbox, events, asked, send, taken, mishap, mishaps>>

\* The order is there and cannot be sent.
Reject(w) ==
  /\ At(w, "look")
  /\ work[w].from # "compensator" /\ order[Subject(w)] # "none" /\ ~CanSend(w)
  /\ Goto(w, "reject")
  /\ UNCHANGED <<setup, status, age, order, inbox, events, asked, send, taken, mishap, mishaps>>

\* Anything on the way throws: the file transfer, a query, the broker.
Stumble(w) ==
  /\ \E place \in {"look", "pend", "reject"} : At(w, place)
  /\ mishaps < MaxMishaps
  /\ mishaps' = mishaps + 1
  /\ mishap' = mishap \union {<<Subject(w), "threw">>}
  /\ Goto(w, "caught")
  /\ UNCHANGED <<setup, status, age, order, inbox, events, asked, send, taken>>

\* What the compensator read has no carrier, so generateIntegration throws.
StumbleOnCarrier(w) ==
  /\ At(w, "look")
  /\ work[w].from = "compensator"
  /\ Goto(w, "caught")
  /\ UNCHANGED <<setup, status, age, order, inbox, events, asked, send, taken, mishap, mishaps>>

SetStatus(i, new) == status' = [status EXCEPT ![i] = new] /\ age' = Touch(i)

\* setInvoiceStatusPending.  With delivery methods, getDeliveryMethodFromOrder
\* then throws.
SetPending(w) ==
  /\ At(w, "pend")
  /\ SetStatus(Subject(w), "pending")
  /\ IF setup[Subject(w)] = "none" THEN Advance(w) ELSE Goto(w, "caught") /\ UNCHANGED inbox
  /\ UNCHANGED <<setup, order, events, asked, send, taken, mishap, mishaps>>

\* setInvoiceStatusError: by getDeliveryMethodFromOrder, which then throws
\* (no method of the carrier is the order's), or by integrateInvoice.
Unmatched(i) == setup[i] = "unmatched" \/ (order[i] = "bare" /\ setup[i] # "none")

SetRejected(w) ==
  /\ At(w, "reject")
  /\ SetStatus(Subject(w), "error")
  /\ IF Unmatched(Subject(w)) THEN Goto(w, "caught") /\ UNCHANGED inbox ELSE Advance(w)
  /\ UNCHANGED <<setup, order, events, asked, send, taken, mishap, mishaps>>

\* Mutant: the catch only logs.
SetError_logs(w) ==
  /\ At(w, "caught")
  /\ Advance(w)
  /\ UNCHANGED <<setup, status, age, order, events, asked, send, taken, mishap, mishaps>>

\* The catch of create, reprocess and the compensator.
SetError(w) ==
  /\ At(w, "caught")
  /\ SetStatus(Subject(w), "error")
  /\ Advance(w)
  /\ UNCHANGED <<setup, order, events, asked, send, taken, mishap, mishaps>>

\* Even that write fails: the handler ends, the rest of its list with it, and
\* the offset of a message is committed all the same.
GiveUp(w) ==
  /\ At(w, "caught")
  /\ mishaps < MaxMishaps
  /\ mishaps' = mishaps + 1
  /\ mishap' = mishap \union {<<Subject(w), "unwritten">>}
  /\ work' = [work EXCEPT ![w] = NoWork]
  /\ inbox' = IF work[w].from = "message" THEN inbox \ {Subject(w)} ELSE inbox
  /\ UNCHANGED <<setup, status, age, order, events, asked, send, taken>>

------------------------------------------------------------------------------
(* sendIntelipostData.                                                      *)

Sending(s, place) == send[s] # NoSend /\ send[s].at = place

SendAt(s, place) == send' = [send EXCEPT ![s].at = place]

\* 429 or 502: once more, unless that was the last try.
TryAgain(s) ==
  IF send[s].tries = Resends THEN SendAt(s, "error")
  ELSE send' = [send EXCEPT ![s].tries = @ + 1]

Registers(s) ==
  /\ ~Taken(send[s].invoice, send[s].retry)
  /\ taken' = taken \union {<<send[s].invoice, send[s].retry>>}

\* 200.
Accept(s) ==
  /\ Sending(s, "post")
  /\ Registers(s)
  /\ SendAt(s, "success")
  /\ UNCHANGED <<setup, status, age, order, inbox, events, asked, work, mishap, mishaps>>

\* Intelipost has registered the order, the answer does not say so.
AcceptUnheard(s) ==
  /\ Sending(s, "post")
  /\ mishaps < MaxMishaps
  /\ Registers(s)
  /\ TryAgain(s) \/ SendAt(s, "error")
  /\ mishaps' = mishaps + 1
  /\ mishap' = mishap \union {<<send[s].invoice, "lost">>}
  /\ UNCHANGED <<setup, status, age, order, inbox, events, asked, work>>

\* Mutant: an order number that exists is taken for the invoice's own.
AlreadyExisting_done(s) ==
  /\ Sending(s, "post")
  /\ Taken(send[s].invoice, send[s].retry)
  /\ SendAt(s, "success")
  /\ UNCHANGED <<setup, status, age, order, inbox, events, asked, work, taken, mishap, mishaps>>

\* 400, already.existing.order.number: retryIntelipostIntegration, once.
AlreadyExisting(s) ==
  /\ Sending(s, "post")
  /\ Taken(send[s].invoice, send[s].retry)
  /\ IF send[s].retry THEN SendAt(s, "error")
     ELSE send' = [send EXCEPT ![s].retry = TRUE, ![s].tries = 1]
  /\ UNCHANGED <<setup, status, age, order, inbox, events, asked, work, taken, mishap, mishaps>>

Busy(s) ==
  /\ Sending(s, "post")
  /\ TryAgain(s)
  /\ UNCHANGED <<setup, status, age, order, inbox, events, asked, work, taken, mishap, mishaps>>

\* Any other answer or none, or the location of the emitter is not configured.
Refuse(s) ==
  /\ Sending(s, "post")
  /\ SendAt(s, "error")
  /\ UNCHANGED <<setup, status, age, order, inbox, events, asked, work, taken, mishap, mishaps>>

\* Mutant: no return after success, so the error is thrown as well.
SetSuccess_noReturn(s) ==
  /\ Sending(s, "success")
  /\ SetStatus(send[s].invoice, "success")
  /\ SendAt(s, "error")
  /\ UNCHANGED <<setup, order, inbox, events, asked, work, taken, mishap, mishaps>>

\* The answer has been handed to intelipost(); the invoice is done.
SetSuccess(s) ==
  /\ Sending(s, "success")
  /\ SetStatus(send[s].invoice, "success")
  /\ send' = [send EXCEPT ![s] = NoSend]
  /\ UNCHANGED <<setup, order, inbox, events, asked, work, taken, mishap, mishaps>>

SetFailed(s) ==
  /\ Sending(s, "error")
  /\ SetStatus(send[s].invoice, "error")
  /\ send' = [send EXCEPT ![s] = NoSend]
  /\ UNCHANGED <<setup, order, inbox, events, asked, work, taken, mishap, mishaps>>

\* What follows the answer fails, or the write of the outcome: a success becomes
\* an error, an error is lost.
Unwritten(s) ==
  /\ Sending(s, "success") \/ Sending(s, "error")
  /\ mishaps < MaxMishaps
  /\ mishaps' = mishaps + 1
  /\ mishap' = mishap \union {<<send[s].invoice, "unwritten">>}
  /\ IF Sending(s, "success") THEN SendAt(s, "error")
     ELSE send' = [send EXCEPT ![s] = NoSend]
  /\ UNCHANGED <<setup, status, age, order, inbox, events, asked, work, taken>>

\* The process stops; what was only in its memory is gone.
Crash ==
  /\ mishaps < MaxMishaps
  /\ mishaps' = mishaps + 1
  /\ mishap' = mishap \union {<<i, "stopped">> : i \in InFlight}
  /\ work' = [w \in Worker |-> NoWork]
  /\ send' = [s \in Sender |-> NoSend]
  /\ events' = {}
  /\ UNCHANGED <<setup, status, age, order, inbox, asked, taken>>

Integrate(w) ==
  \/ Emit(w) \/ Postpone(w) \/ Reject(w) \/ SetPending(w) \/ SetRejected(w) \/ SetError(w)
  \/ StumbleOnCarrier(w)

Post(s) == Accept(s) \/ AlreadyExisting(s) \/ Busy(s) \/ Refuse(s)

Outcome(s) == SetSuccess(s) \/ SetFailed(s)

Next ==
  \/ \E w \in Worker :
       \/ Cron(w) \/ Integrate(w) \/ Stumble(w) \/ GiveUp(w)
       \/ \E i \in Invoice : Deliver(w, i) \/ Reprocess(w, i) \/ Compensate(w, i)
  \/ \E i \in Invoice : OrderArrives(i) \/ ReprocessNothing(i) \/ Report(i)
  \/ \E s \in Sender : Post(s) \/ AcceptUnheard(s) \/ Outcome(s) \/ Unwritten(s)
  \/ Ask \/ Crash

Spec == Init /\ [][Next]_vars

Posting(s, i) == Sending(s, "post") /\ send[s].invoice = i

\* Handlers and listeners that have begun go on; the cron keeps firing (strong,
\* because here it competes for a worker with the other handlers); a step that
\* is possible again and again does not fail for ever, and Intelipost does not
\* refuse for ever what it could accept.
Fairness ==
  /\ \A w \in Worker : WF_vars(Integrate(w)) /\ SF_vars(Cron(w))
  /\ \A s \in Sender : WF_vars(Post(s)) /\ WF_vars(Outcome(s))
  /\ \A i \in Invoice :
       /\ SF_vars(\E w \in Worker : i \in Doing(w) /\ Subject(w) = i /\ Emit(w))
       /\ SF_vars(\E s \in Sender : Posting(s, i) /\ Accept(s))
       /\ SF_vars(\E s \in Sender : Posting(s, i) /\ AlreadyExisting(s))

FairSpec == Spec /\ Fairness

------------------------------------------------------------------------------
(* Properties.                                                              *)

\* Every variable keeps to its values; no two invoices have the same age.
TypeOK ==
  /\ setup \in Setups
  /\ status \in [Invoice -> Status]
  /\ age \in [Invoice -> 1 .. Cardinality(Invoice)]
  /\ \A i, j \in Invoice : age[i] = age[j] => i = j
  /\ order \in [Invoice -> OrderDocument]
  /\ inbox \subseteq Invoice /\ events \subseteq Invoice /\ asked \subseteq Sale
  /\ work \in [Worker -> Work \union {NoWork}]
  /\ \A w \in Worker : work[w] # NoWork => work[w].list # <<>>
  /\ send \in [Sender -> Send \union {NoSend}]
  /\ taken \subseteq Invoice \X BOOLEAN
  /\ mishap \subseteq Invoice \X Mishap
  /\ mishaps \in 0 .. MaxMishaps

\* An exception that was caught is no excuse for anything.
Suffered(i) == {kind \in Mishap \ {"threw"} : <<i, kind>> \in mishap}

Registered(i) == {<<i, FALSE>>, <<i, TRUE>>} \intersect taken # {}

AtRest(i) == i \notin inbox /\ i \notin InFlight

\* An invoice says success only if Intelipost registered it or another
\* integration reported it done.
SuccessIsEarned ==
  \A i \in Invoice : status[i] = "success" => Registered(i) \/ "reported" \in Suffered(i)

\* Intelipost gets an invoice under both order numbers only if an answer was
\* lost, the process stopped, an outcome was not written or a status was
\* overwritten from outside, or if two handlers were at it at the same time.
RegisteredTwiceOnlyAfterMishap ==
  \A i \in Invoice : {<<i, FALSE>>, <<i, TRUE>>} \subseteq taken => Suffered(i) # {}

\* Likewise for an invoice at rest that Intelipost has and that does not say so.
ShippedSaysSo ==
  \A i \in Invoice :
    AtRest(i) /\ Registered(i) /\ Suffered(i) = {} => status[i] = "success"

\* reprocess looks for pending and error only.  An invoice at rest in another
\* status is forgotten, and that happens only when the process stops during a
\* send, when no status could be written, or by a report.
NotForgotten ==
  \A i \in Invoice :
    AtRest(i) /\ status[i] \notin {"pending", "error", "success"}
      => Suffered(i) \intersect {"stopped", "unwritten", "reported"} # {}

\* A success is undone only by a handler that was at the invoice at the same
\* time or again after a crash, by the compensator or by a report.
SuccessUndoneOnlyByMishap ==
  [][\A i \in Invoice : status[i] = "success" /\ status'[i] # "success" =>
       \E kind \in {"again", "stopped", "compensated", "reported"} :
         <<i, kind>> \in mishap']_vars

\* An invoice whose order has arrived and that can be sent is integrated,
\* whatever its neighbours do: the cron comes to it although it takes only the
\* first few (findByStatus), because every failure of a neighbour moves that
\* neighbour back; a neighbour that has the order number does not stop it.
IntegratedEventually ==
  \A i \in Invoice :
    (setup[i] = "enabled" /\ order[i] = "full" /\ status[i] \in Retried /\ ~Registered(i))
      ~> (status[i] = "success")

\* getDeliveryMethodFromOrder throws "Order not found ... invoice pending.": an
\* invoice whose order is missing is left pending.
PendingWhenOrderMissing ==
  \A i \in Invoice :
    AtRest(i) /\ order[i] = "none" /\ mishap = {} => status[i] \in {"created", "pending"}
==============================================================================
