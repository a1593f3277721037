---------------------- MODULE InvoiceIntegrationProofs -----------------------
(* What the steps of InvoiceIntegration keep, for any number of invoices,    *)
(* workers and senders, any limits, and whatever goes wrong: the types; that *)
(* success is earned; that no invoice is forgotten; that one worker or one   *)
(* sender is at an invoice that nothing disturbs, so that its success stays  *)
(* and Intelipost gets it once.                                              *)
EXTENDS InvoiceIntegration, FiniteSetTheorems, SequenceTheorems, TLAPS

------------------------------------------------------------------------------
(* Types.                                                                   *)

Ranks(a) ==
  /\ a \in [Invoice -> 1 .. Cardinality(Invoice)]
  /\ \A i, j \in Invoice : a[i] = a[j] => i = j

\* Touching an invoice keeps the ages a ranking.
LEMMA TouchRanks ==
  ASSUME Ranks(age), NEW i \in Invoice PROVE Ranks(Touch(i))
<1> DEFINE N == Cardinality(Invoice)
<1>1. N \in Nat /\ N >= 1
  BY FS_CardinalityType, FS_EmptySet, SetupAssumption
<1>2. \A j \in Invoice : age[j] \in Int /\ 1 <= age[j] /\ age[j] <= N
  BY <1>1 DEF Ranks
<1> HIDE DEF N
<1>3. \A j \in Invoice : Touch(i)[j] = IF j = i THEN N ELSE IF age[j] > age[i] THEN age[j] - 1 ELSE age[j]
  BY DEF Touch, N
<1>4. \A j \in Invoice : Touch(i)[j] \in Int /\ 1 <= Touch(i)[j] /\ Touch(i)[j] <= N
  BY <1>1, <1>2, <1>3
<1>5. \A j \in Invoice \ {i} : age[j] # age[i] /\ Touch(i)[j] < N
  BY <1>1, <1>2, <1>3 DEF Ranks
<1>6. ASSUME NEW j \in Invoice, NEW k \in Invoice, Touch(i)[j] = Touch(i)[k] PROVE j = k
  <2>1. CASE j = i \/ k = i
    BY <1>1, <1>3, <1>5, <1>6, <2>1
  <2>2. CASE j # i /\ k # i
    <3>1. age[j] = age[k]
      BY <1>2, <1>3, <1>5, <1>6, <2>2
    <3>2. QED
      BY <3>1 DEF Ranks
  <2>3. QED
    BY <2>1, <2>2
<1>7. Touch(i) \in [Invoice -> 1 .. N]
  <2>1. \A j \in Invoice : Touch(i)[j] \in 1 .. N
    BY <1>1, <1>4
  <2>2. Touch(i) = [j \in Invoice |-> Touch(i)[j]]
    BY DEF Touch
  <2>3. QED
    BY <2>1, <2>2
<1>8. QED
  BY <1>6, <1>7 DEF Ranks, N

\* A list of work names no invoice twice, and the list of a message one only.
IsList(list, from) ==
  /\ list \in Seq(Invoice) /\ list # <<>>
  /\ \A m, n \in 1 .. Len(list) : list[m] = list[n] => m = n
  /\ from = "message" => Len(list) = 1

From == {"message", "reprocess", "compensator"}

Place == {"look", "pend", "reject", "caught"}

WorkOK ==
  /\ work = [w \in Worker |-> work[w]]
  /\ \A w \in Worker : work[w] # NoWork => work[w] \in Work /\ IsList(work[w].list, work[w].from)

LEMMA WorkType ==
  /\ WorkOK => work \in [Worker -> Work \union {NoWork}]
  /\ WorkOK => \A w \in Worker : work[w] # NoWork => work[w].list # <<>>
BY DEF WorkOK, IsList

\* The first invoice of a list, and what is left without it.
LEMMA ListRest ==
  ASSUME NEW list, NEW from, IsList(list, from)
  PROVE  /\ Head(list) \in Invoice /\ Head(list) \in Elements(list)
         /\ Elements(Tail(list)) = Elements(list) \ {Head(list)}
         /\ Tail(list) # <<>> => IsList(Tail(list), from) /\ from # "message"
         /\ Tail(list) = <<>> => Elements(list) = {Head(list)}
<1>1. list \in Seq(Invoice) /\ list # <<>>
  BY DEF IsList
<1>2. Len(list) \in Nat \ {0} /\ DOMAIN list = 1 .. Len(list) /\ \A n \in 1 .. Len(list) : list[n] \in Invoice
  BY <1>1, EmptySeq, LenProperties, ElementOfSeq
<1>3. /\ Head(list) \in Invoice /\ Head(list) = list[1]
      /\ Tail(list) \in Seq(Invoice) /\ Len(Tail(list)) = Len(list) - 1
      /\ DOMAIN Tail(list) = 1 .. Len(list) - 1
      /\ \A n \in 1 .. Len(list) - 1 : Tail(list)[n] = list[n + 1]
  BY <1>1, <1>2, HeadTailProperties, LenProperties
<1>4. Head(list) \in Elements(list)
  BY <1>2, <1>3 DEF Elements
<1>5. Elements(Tail(list)) = Elements(list) \ {Head(list)}
  <2>1. ASSUME NEW i \in Elements(Tail(list)) PROVE i \in Elements(list) /\ i # Head(list)
    <3>1. PICK n \in 1 .. Len(list) - 1 : i = Tail(list)[n]
      BY <1>3 DEF Elements
    <3>2. n + 1 \in 1 .. Len(list) /\ 1 \in 1 .. Len(list) /\ n + 1 # 1 /\ i = list[n + 1]
      BY <3>1, <1>2, <1>3
    <3>3. QED
      BY <3>2, <1>2, <1>3 DEF IsList, Elements
  <2>2. ASSUME NEW i \in Elements(list), i # Head(list) PROVE i \in Elements(Tail(list))
    <3>1. PICK n \in 1 .. Len(list) : i = list[n]
      BY <1>2 DEF Elements
    <3>2. n - 1 \in 1 .. Len(list) - 1 /\ (n - 1) + 1 = n
      BY <3>1, <2>2, <1>2, <1>3
    <3>3. i = Tail(list)[n - 1]
      BY <3>1, <3>2, <1>3
    <3>4. QED
      BY <3>2, <3>3, <1>3 DEF Elements
  <2>3. QED
    BY <2>1, <2>2
<1>6. ASSUME Tail(list) # <<>> PROVE IsList(Tail(list), from) /\ from # "message"
  <2>1. Len(Tail(list)) \in Nat \ {0}
    BY <1>3, <1>6, EmptySeq
  <2>2. from # "message"
    BY <1>2, <1>3, <2>1 DEF IsList
  <2>3. ASSUME NEW m \in 1 .. Len(Tail(list)), NEW n \in 1 .. Len(Tail(list)),
               Tail(list)[m] = Tail(list)[n]
        PROVE  m = n
    <3>1. m + 1 \in 1 .. Len(list) /\ n + 1 \in 1 .. Len(list) /\ list[m + 1] = list[n + 1]
      BY <2>3, <1>2, <1>3
    <3>2. m + 1 = n + 1
      BY <3>1 DEF IsList
    <3>3. QED
      BY <3>2, <1>2, <1>3
  <2>4. QED
    BY <1>3, <1>6, <2>2, <2>3 DEF IsList
<1>7. ASSUME Tail(list) = <<>> PROVE Elements(list) = {Head(list)}
  <2>1. Len(list) = 1
    BY <1>1, <1>2, <1>3, <1>7, EmptySeq
  <2>2. QED
    BY <2>1, <1>2, <1>3 DEF Elements
<1>8. QED
  BY <1>3, <1>4, <1>5, <1>6, <1>7

\* A single invoice is a list.
LEMMA ListOfOne ==
  ASSUME NEW i \in Invoice, NEW from PROVE IsList(<<i>>, from) /\ Elements(<<i>>) = {i}
BY DEF IsList, Elements

\* So is what findByStatus returns.
LEMMA ListOfDue ==
  ASSUME TypeOK, Due # {}, NEW list \in findByStatus
  PROVE  IsList(list, "reprocess") /\ Elements(list) \subseteq Failed
<1> DEFINE N == Cardinality(Due)
<1>1. Due \subseteq Invoice /\ Due \subseteq Failed
  BY DEF Due, Failed
<1>2. N \in Nat \ {0}
  BY <1>1, FS_Subset, FS_CardinalityType, FS_EmptySet, SetupAssumption
<1>3. list \in [1 .. N -> Due] /\ \A m, n \in DOMAIN list : m < n => age[list[m]] < age[list[n]]
  BY DEF findByStatus
<1> HIDE DEF N
<1>4. list \in Seq(Invoice) /\ Len(list) = N /\ DOMAIN list = 1 .. N
  BY <1>1, <1>2, <1>3
<1>5. list # <<>>
  BY <1>2, <1>4
<1>6. \A m \in 1 .. N : age[list[m]] \in Int
  BY <1>1, <1>3, <1>4 DEF TypeOK
<1>7. \A m, n \in 1 .. N : list[m] = list[n] => m = n
  BY <1>2, <1>3, <1>4, <1>6
<1>8. QED
  BY <1>1, <1>3, <1>4, <1>5, <1>7 DEF IsList, Elements

\* What a worker takes up.
LEMMA TakeWork ==
  ASSUME WorkOK, NEW w \in Worker, NEW from \in From, NEW list, IsList(list, from),
         work[w] = NoWork,
         work' = [work EXCEPT ![w] = [from |-> from, list |-> list, at |-> "look"]]
  PROVE  /\ WorkOK' /\ work'[w].from = from
         /\ \A v \in Worker : Doing(v)' = IF v = w THEN Elements(list) ELSE Doing(v)
         /\ \A v \in Worker \ {w} : work'[v] = work[v]
<1> DEFINE r == [from |-> from, list |-> list, at |-> "look"]
<1>1. r \in Work /\ r.list = list /\ r.from = from
  BY DEF From, Work, IsList
<1>2. r # NoWork
  BY <1>1, NullAssumption
<1> HIDE DEF r
<1>3. work' = [work EXCEPT ![w] = r]
  BY DEF r
<1>4. WorkOK'
  BY <1>1, <1>3 DEF WorkOK
<1>5. \A v \in Worker : work'[v] = IF v = w THEN r ELSE work[v]
  BY <1>3 DEF WorkOK
<1>6. QED
  BY <1>1, <1>2, <1>4, <1>5 DEF Doing

\* A worker that goes on with the same invoice.
LEMMA GotoWork ==
  ASSUME WorkOK, NEW w \in Worker, work[w] # NoWork, NEW place \in Place, Goto(w, place)
  PROVE  /\ WorkOK' /\ \A v \in Worker : Doing(v)' = Doing(v)
         /\ \A v \in Worker : work[v] # NoWork => work'[v] # NoWork /\ work'[v].from = work[v].from
<1>1. PICK r : r = [work[w] EXCEPT !.at = place]
  OBVIOUS
<1>2. work[w] \in Work /\ IsList(work[w].list, work[w].from)
  BY DEF WorkOK
<1>3. r \in Work /\ r.list = work[w].list /\ r.from = work[w].from
  BY <1>1, <1>2 DEF Work, Place
<1>4. r # NoWork
  BY <1>3, NullAssumption
<1>5. work' = [work EXCEPT ![w] = r]
  BY <1>1 DEF Goto
<1>6. WorkOK'
  BY <1>2, <1>3, <1>5 DEF WorkOK
<1>7. \A v \in Worker : work'[v] = IF v = w THEN r ELSE work[v]
  BY <1>5 DEF WorkOK
<1>8. QED
  BY <1>3, <1>4, <1>6, <1>7 DEF Doing

\* A worker that is done with an invoice.
LEMMA AdvanceWork ==
  ASSUME WorkOK, NEW w \in Worker, work[w] # NoWork, Advance(w)
  PROVE  /\ WorkOK'
         /\ \A v \in Worker : Doing(v)' = IF v = w THEN Doing(w) \ {Subject(w)} ELSE Doing(v)
         /\ \A v \in Worker : work'[v] # NoWork => work[v] # NoWork /\ work'[v].from = work[v].from
<1> DEFINE rest == Tail(work[w].list)
<1>1. work[w] \in Work /\ IsList(work[w].list, work[w].from)
  BY DEF WorkOK
<1>2. Elements(rest) = Doing(w) \ {Subject(w)}
  BY <1>1, ListRest DEF Doing, Subject
<1>3. CASE rest = <<>>
  <2>1. work' = [work EXCEPT ![w] = NoWork]
    BY <1>3 DEF Advance
  <2>2. Doing(w) \ {Subject(w)} = {}
    BY <1>1, <1>3, ListRest DEF Doing, Subject
  <2>3. \A v \in Worker : work'[v] = IF v = w THEN NoWork ELSE work[v]
    BY <2>1 DEF WorkOK
  <2>4. WorkOK'
    BY <2>1 DEF WorkOK
  <2>5. QED
    BY <2>2, <2>3, <2>4 DEF Doing
<1>4. CASE rest # <<>>
  <2>1. PICK r : r = [work[w] EXCEPT !.list = rest, !.at = "look"]
    OBVIOUS
  <2>2. IsList(rest, work[w].from)
    BY <1>1, <1>4, ListRest
  <2> HIDE DEF rest
  <2>3. r \in Work /\ r.list = rest /\ r.from = work[w].from
    BY <1>1, <2>1, <2>2 DEF Work, IsList
  <2>4. r # NoWork
    BY <2>3, NullAssumption
  <2>5. work' = [work EXCEPT ![w] = r]
    BY <1>4, <2>1 DEF Advance, rest
  <2>6. WorkOK'
    BY <1>1, <2>2, <2>3, <2>5 DEF WorkOK
  <2>7. \A v \in Worker : work'[v] = IF v = w THEN r ELSE work[v]
    BY <2>5 DEF WorkOK
  <2>8. QED
    BY <1>2, <2>3, <2>4, <2>6, <2>7 DEF Doing
<1>5. QED
  BY <1>3, <1>4

\* The worker's present invoice is one of those it is at.
LEMMA SubjectOf ==
  ASSUME WorkOK, NEW w \in Worker, work[w] # NoWork
  PROVE  /\ Subject(w) \in Invoice /\ Subject(w) \in Doing(w)
         /\ work[w].from = "message" => Doing(w) = {Subject(w)}
<1>1. IsList(work[w].list, work[w].from)
  BY DEF WorkOK
<1>2. QED
  BY <1>1, ListRest DEF Subject, Doing

\* The type of the rest, and the strengthening of TypeOK: what a worker goes
\* through is a list.
RestOK ==
  /\ setup \in Setups
  /\ status \in [Invoice -> Status]
  /\ Ranks(age)
  /\ order \in [Invoice -> OrderDocument]
  /\ inbox \subseteq Invoice /\ events \subseteq Invoice /\ asked \subseteq Sale
  /\ taken \subseteq Invoice \X BOOLEAN
  /\ mishap \subseteq Invoice \X Mishap
  /\ mishaps \in 0 .. MaxMishaps

SendType == send \in [Sender -> Send \union {NoSend}]

Typed == RestOK /\ WorkOK /\ SendType

LEMMA TypedIs == Typed => TypeOK
BY WorkType DEF Typed, TypeOK, RestOK, SendType, Ranks

LEMMA DoingType ==
  ASSUME WorkOK, NEW w \in Worker PROVE Doing(w) \subseteq Invoice
<1>1. ASSUME NEW i \in Doing(w) PROVE i \in Invoice
  <2>1. work[w] # NoWork /\ work[w].list \in Seq(Invoice) /\ i \in Elements(work[w].list)
    BY <1>1 DEF WorkOK, IsList, Doing
  <2>2. QED
    BY <2>1, LenProperties, ElementOfSeq DEF Elements
<1>2. QED
  BY <1>1

\* The sender is at the invoice.
On(s, i) == send[s] # NoSend /\ send[s].invoice = i

LEMMA InFlightIs ==
  ASSUME NEW i
  PROVE  i \in InFlight <=> (\E w \in Worker : i \in Doing(w)) \/ (\E s \in Sender : On(s, i))
<1> DEFINE A == UNION {Doing(w) : w \in Worker}
           B == {send[s].invoice : s \in {t \in Sender : send[t] # NoSend}}
<1>1. InFlight = A \union B
  BY DEF InFlight
<1>2. i \in A <=> \E w \in Worker : i \in Doing(w)
  OBVIOUS
<1>3. i \in B <=> \E s \in Sender : On(s, i)
  BY DEF On
<1>4. QED
  BY <1>1, <1>2, <1>3

LEMMA InFlightType == Typed => InFlight \subseteq Invoice
BY DoingType, InFlightIs DEF Typed, SendType, On, Send

\* A sender that goes on with its invoice, and one that is done with it.
Moves(s) ==
  /\ send[s] # NoSend
  /\ \E r \in Send : r.invoice = send[s].invoice /\ send' = [send EXCEPT ![s] = r]

Frees(s) == send' = [send EXCEPT ![s] = NoSend]

LEMMA MovesType ==
  ASSUME SendType, NEW s \in Sender, Moves(s) \/ Frees(s) \/ UNCHANGED send
  PROVE  SendType'
BY DEF SendType, Moves, Frees

\* What a sender at an invoice may become.
LEMMA SendAtMoves ==
  ASSUME SendType, NEW s \in Sender, send[s] # NoSend, NEW place \in {"post", "success", "error"},
         SendAt(s, place)
  PROVE  Moves(s)
<1> PICK r : r = [send[s] EXCEPT !.at = place]
  OBVIOUS
<1>1. r \in Send /\ r.invoice = send[s].invoice
  BY DEF SendType, Send
<1>2. QED
  BY <1>1 DEF SendAt, Moves

LEMMA TryAgainMoves ==
  ASSUME SendType, NEW s \in Sender, send[s] # NoSend, TryAgain(s)
  PROVE  Moves(s)
<1>1. CASE send[s].tries = Resends
  BY <1>1, SendAtMoves DEF TryAgain
<1>2. CASE send[s].tries # Resends
  <2> PICK r : r = [send[s] EXCEPT !.tries = @ + 1]
    OBVIOUS
  <2>1. send[s] \in Send
    BY DEF SendType
  <2>2. send[s].tries + 1 \in 1 .. Resends
    BY <1>2, <2>1, BoundAssumption DEF Send
  <2>3. r \in Send /\ r.invoice = send[s].invoice
    BY <2>1, <2>2 DEF Send
  <2>4. QED
    BY <1>2, <2>3 DEF TryAgain, Moves
<1>3. QED
  BY <1>1, <1>2

LEMMA PostMoves ==
  ASSUME SendType, NEW s \in Sender, Post(s) \/ AcceptUnheard(s)
  PROVE  Moves(s)
<1>1. CASE Accept(s) \/ Refuse(s)
  BY <1>1, SendAtMoves DEF Accept, Refuse, Sending
<1>2. CASE Busy(s)
  BY <1>2, TryAgainMoves DEF Busy, Sending
<1>3. CASE AcceptUnheard(s)
  BY <1>3, TryAgainMoves, SendAtMoves DEF AcceptUnheard, Sending
<1>4. CASE AlreadyExisting(s)
  <2>1. CASE SendAt(s, "error")
    BY <1>4, <2>1, SendAtMoves DEF AlreadyExisting, Sending
  <2>2. CASE send' = [send EXCEPT ![s].retry = TRUE, ![s].tries = 1]
    <3> PICK r : r = [send[s] EXCEPT !.retry = TRUE, !.tries = 1]
      OBVIOUS
    <3>1. send[s] # NoSend /\ send[s] \in Send
      BY <1>4 DEF AlreadyExisting, Sending, SendType
    <3>2. r \in Send /\ r.invoice = send[s].invoice
      <4>1. 1 \in 1 .. Resends
        BY BoundAssumption
      <4>2. QED
        BY <3>1, <4>1 DEF Send
    <3>3. send' = [send EXCEPT ![s] = r]
      BY <2>2 DEF SendType
    <3>4. QED
      BY <3>1, <3>2, <3>3 DEF Moves
  <2>3. QED
    BY <1>4, <2>1, <2>2 DEF AlreadyExisting
<1>5. QED
  BY <1>1, <1>2, <1>3, <1>4 DEF Post

LEMMA UnwrittenMoves ==
  ASSUME SendType, NEW s \in Sender, Unwritten(s)
  PROVE  Moves(s) \/ Frees(s)
BY SendAtMoves DEF Unwritten, Sending, Frees

\* A free sender takes the invoice of a worker.
LEMMA EmitSend ==
  ASSUME Typed, NEW w \in Worker, Emit(w)
  PROVE  /\ SendType'
         /\ \E s \in Sender : /\ send[s] = NoSend
                              /\ \A i : On(s, i)' <=> i = Subject(w)
                              /\ \A t \in Sender \ {s} : send'[t] = send[t]
                              /\ send'[s] # NoSend /\ send'[s].at = "post"
<1>1. work[w] # NoWork /\ WorkOK /\ SendType
  BY DEF Typed, Emit, CanSend, At
<1> DEFINE r == [invoice |-> Subject(w), retry |-> FALSE, tries |-> 1, at |-> "post"]
<1>2. PICK s \in Sender : send[s] = NoSend /\ send' = [send EXCEPT ![s] = r]
  BY DEF Emit
<1>3. Subject(w) \in Invoice
  BY <1>1, SubjectOf
<1>4. r \in Send /\ r.invoice = Subject(w) /\ r.at = "post"
  BY <1>3, BoundAssumption DEF Send
<1>5. r # NoSend
  BY <1>4, NullAssumption
<1> HIDE DEF r
<1>6. \A t \in Sender : send'[t] = IF t = s THEN r ELSE send[t]
  BY <1>1, <1>2 DEF SendType
<1>7. SendType'
  BY <1>1, <1>2, <1>4 DEF SendType
<1>8. QED
  BY <1>2, <1>4, <1>5, <1>6, <1>7 DEF On

------------------------------------------------------------------------------
(* What the steps have in common.                                           *)

\* A worker takes up a list of new or of failed invoices, and meets those who
\* are at them, or what the compensator gives it.
Takes(w, from, list) ==
  /\ IsList(list, from) /\ work[w] = NoWork
  /\ work' = [work EXCEPT ![w] = [from |-> from, list |-> list, at |-> "look"]]
  /\ \/ /\ \/ from = "message" /\ Elements(list) \subseteq inbox
           \/ from = "reprocess" /\ Elements(list) \subseteq Failed
        /\ mishap' = mishap \union {<<i, "again">> : i \in Elements(list) \intersect InFlight}
        /\ UNCHANGED mishaps
     \/ /\ from = "compensator"
        /\ mishap' = mishap \union {<<i, "compensated">> : i \in Elements(list)}
        /\ mishaps < MaxMishaps /\ mishaps' = mishaps + 1
  /\ events' \subseteq events
  /\ UNCHANGED <<setup, status, age, order, inbox, asked, send, taken>>

\* A worker goes on, or ends with the status of its invoice written.
Works(w) ==
  /\ work[w] # NoWork
  /\ \/ /\ \E place \in Place : Goto(w, place)
        /\ UNCHANGED inbox
        /\ \/ UNCHANGED <<status, age>>
           \/ \E new \in {"pending", "error"} : SetStatus(Subject(w), new)
     \/ Advance(w) /\ \E new \in {"pending", "error"} : SetStatus(Subject(w), new)
  /\ \/ UNCHANGED <<mishap, mishaps>>
     \/ /\ mishaps < MaxMishaps /\ mishaps' = mishaps + 1
        /\ mishap' = mishap \union {<<Subject(w), "threw">>}
  /\ UNCHANGED <<setup, order, events, asked, send, taken>>

\* The order's arrival, and other steps that leave the invoices alone.
Elsewhere ==
  \/ \E i \in Invoice : OrderArrives(i) \/ ReprocessNothing(i)
  \/ Ask
  \/ UNCHANGED vars

LEMMA TakesStep ==
  ASSUME Typed, NEW w \in Worker,
         Cron(w) \/ \E i \in Invoice : Deliver(w, i) \/ Reprocess(w, i) \/ Compensate(w, i)
  PROVE  \E from \in From : \E list : Takes(w, from, list)
<1>1. CASE Cron(w)
  <2>1. PICK list \in findByStatus : Take(w, "reprocess", list)
    BY <1>1 DEF Cron
  <2>2. IsList(list, "reprocess") /\ Elements(list) \subseteq Failed
    BY <1>1, <2>1, ListOfDue, TypedIs DEF Cron
  <2>3. Takes(w, "reprocess", list)
    BY <1>1, <2>1, <2>2 DEF Cron, Take, Takes
  <2>4. QED
    BY <2>3 DEF From
<1>2. ASSUME NEW i \in Invoice, Deliver(w, i) PROVE Takes(w, "message", <<i>>)
  BY <1>2, ListOfOne DEF Deliver, Take, Takes
<1>3. ASSUME NEW i \in Invoice, Reprocess(w, i) PROVE Takes(w, "reprocess", <<i>>)
  BY <1>3, ListOfOne DEF Reprocess, Take, Takes, Failed
<1>4. ASSUME NEW i \in Invoice, Compensate(w, i) PROVE Takes(w, "compensator", <<i>>)
  <2>1. IsList(<<i>>, "compensator") /\ {<<j, "compensated">> : j \in Elements(<<i>>)} = {<<i, "compensated">>}
    BY ListOfOne
  <2>2. QED
    BY <1>4, <2>1 DEF Compensate, Takes
<1>5. QED
  BY <1>1, <1>2, <1>3, <1>4 DEF From

LEMMA WorksStep ==
  ASSUME NEW w \in Worker,
         \/ Postpone(w) \/ Reject(w) \/ StumbleOnCarrier(w) \/ Stumble(w)
         \/ SetPending(w) \/ SetRejected(w) \/ SetError(w)
  PROVE  Works(w)
<1>1. CASE Postpone(w) \/ Reject(w) \/ StumbleOnCarrier(w)
  BY <1>1 DEF Postpone, Reject, StumbleOnCarrier, Works, At, Place
<1>2. CASE Stumble(w)
  BY <1>2 DEF Stumble, Works, At, Place
<1>3. CASE SetPending(w)
  BY <1>3 DEF SetPending, Works, At, Place
<1>4. CASE SetRejected(w)
  BY <1>4 DEF SetRejected, Works, At, Place
<1>5. CASE SetError(w)
  BY <1>5 DEF SetError, Works, At, Place
<1>6. QED
  BY <1>1, <1>2, <1>3, <1>4, <1>5

\* Every step is of one of these kinds.
LEMMA Kinds ==
  ASSUME Typed, [Next]_vars
  PROVE  \/ \E w \in Worker : \/ \E from \in From : \E list : Takes(w, from, list)
                              \/ Works(w) \/ Emit(w) \/ GiveUp(w)
         \/ \E s \in Sender : Post(s) \/ AcceptUnheard(s) \/ Outcome(s) \/ Unwritten(s)
         \/ \E i \in Invoice : Report(i)
         \/ Crash
         \/ Elsewhere
<1>1. CASE Next
  <2>1. ASSUME NEW w \in Worker, Cron(w) \/ Integrate(w) \/ Stumble(w) \/ GiveUp(w)
        PROVE  \/ \E from \in From : \E list : Takes(w, from, list)
               \/ Works(w) \/ Emit(w) \/ GiveUp(w)
    BY <2>1, TakesStep, WorksStep DEF Integrate
  <2>2. ASSUME NEW w \in Worker, NEW i \in Invoice,
               Deliver(w, i) \/ Reprocess(w, i) \/ Compensate(w, i)
        PROVE  \E from \in From : \E list : Takes(w, from, list)
    BY <2>2, TakesStep
  <2>3. QED
    BY <1>1, <2>1, <2>2 DEF Next, Elsewhere
<1>2. CASE UNCHANGED vars
  BY <1>2 DEF Elsewhere
<1>3. QED
  BY <1>1, <1>2

------------------------------------------------------------------------------
(* The types are kept.                                                      *)

\* What went wrong happened to an invoice.
LEMMA MishapType ==
  ASSUME RestOK, NEW S \in SUBSET Invoice, NEW kind \in Mishap,
         mishap' = mishap \union {<<i, kind>> : i \in S}
  PROVE  mishap' \subseteq Invoice \X Mishap
BY DEF RestOK

LEMMA MishapsType ==
  ASSUME RestOK, \/ UNCHANGED mishaps
                 \/ mishaps < MaxMishaps /\ mishaps' = mishaps + 1
  PROVE  mishaps' \in 0 .. MaxMishaps
BY BoundAssumption DEF RestOK

LEMMA StatusType ==
  ASSUME RestOK, NEW i \in Invoice, NEW new \in Status,
         SetStatus(i, new)
  PROVE  status' \in [Invoice -> Status] /\ Ranks(age)'
BY TouchRanks DEF RestOK, SetStatus, Ranks

LEMMA TakesTyped ==
  ASSUME Typed, NEW w \in Worker, NEW from \in From, NEW list, Takes(w, from, list)
  PROVE  Typed'
<1>1. RestOK /\ WorkOK /\ SendType
  BY DEF Typed
<1>2. WorkOK' /\ SendType'
  BY <1>1, TakeWork DEF Takes, SendType
<1>3. Elements(list) \subseteq Invoice
  BY LenProperties, ElementOfSeq DEF Takes, IsList, Elements
<1>4. mishap' \subseteq Invoice \X Mishap
  <2>1. CASE mishap' = mishap \union {<<i, "again">> : i \in Elements(list) \intersect InFlight}
    BY <1>1, <1>3, <2>1, MishapType DEF Mishap
  <2>2. CASE mishap' = mishap \union {<<i, "compensated">> : i \in Elements(list)}
    BY <1>1, <1>3, <2>2, MishapType DEF Mishap
  <2>3. QED
    BY <2>1, <2>2 DEF Takes
<1>5. mishaps' \in 0 .. MaxMishaps
  <2>1. \/ UNCHANGED mishaps
        \/ mishaps < MaxMishaps /\ mishaps' = mishaps + 1
    BY DEF Takes
  <2>2. QED
    BY <1>1, <2>1, MishapsType
<1>6. RestOK'
  BY <1>1, <1>4, <1>5 DEF RestOK, Takes, Ranks
<1>7. QED
  BY <1>2, <1>6 DEF Typed

LEMMA WorksTyped ==
  ASSUME Typed, NEW w \in Worker, Works(w) PROVE Typed'
<1>1. RestOK /\ WorkOK /\ SendType
  BY DEF Typed
<1>2. Subject(w) \in Invoice
  BY <1>1, SubjectOf DEF Works
<1>3. WorkOK' /\ SendType'
  BY <1>1, GotoWork, AdvanceWork DEF Works, SendType
<1>4. status' \in [Invoice -> Status] /\ Ranks(age)'
  <2>1. CASE UNCHANGED <<status, age>>
    BY <1>1, <2>1 DEF RestOK, Ranks
  <2>2. CASE \E new \in {"pending", "error"} : SetStatus(Subject(w), new)
    BY <1>1, <1>2, <2>2, StatusType DEF Status
  <2>3. QED
    BY <2>1, <2>2 DEF Works
<1>5. mishap' \subseteq Invoice \X Mishap
  BY <1>1, <1>2 DEF Works, RestOK, Mishap
<1>6. mishaps' \in 0 .. MaxMishaps
  <2>1. \/ UNCHANGED mishaps
        \/ mishaps < MaxMishaps /\ mishaps' = mishaps + 1
    BY DEF Works
  <2>2. QED
    BY <1>1, <2>1, MishapsType
<1>7. inbox' \subseteq Invoice
  BY <1>1 DEF Works, Advance, RestOK
<1>8. RestOK'
  BY <1>1, <1>4, <1>5, <1>6, <1>7 DEF RestOK, Works
<1>9. QED
  BY <1>3, <1>8 DEF Typed

LEMMA EmitTyped ==
  ASSUME Typed, NEW w \in Worker, Emit(w) PROVE Typed'
<1>1. RestOK /\ WorkOK /\ SendType
  BY DEF Typed
<1>2. WorkOK' /\ SendType'
  BY <1>1, AdvanceWork, EmitSend DEF Emit, CanSend, At
<1>3. RestOK'
  BY <1>1 DEF RestOK, Emit, Advance, Ranks
<1>4. QED
  BY <1>2, <1>3 DEF Typed

LEMMA GiveUpTyped ==
  ASSUME Typed, NEW w \in Worker, GiveUp(w) PROVE Typed'
<1>1. RestOK /\ WorkOK /\ SendType
  BY DEF Typed
<1>2. work[w] # NoWork /\ Subject(w) \in Invoice
  BY <1>1, SubjectOf DEF GiveUp, At
<1>3. WorkOK' /\ SendType'
  BY <1>1 DEF GiveUp, WorkOK, SendType
<1>4. mishap' \subseteq Invoice \X Mishap /\ mishaps' \in 0 .. MaxMishaps
  <2>1. mishaps' \in 0 .. MaxMishaps
    BY <1>1, MishapsType DEF GiveUp
  <2>2. QED
    BY <1>1, <1>2, <2>1 DEF GiveUp, RestOK, Mishap
<1>5. RestOK'
  BY <1>1, <1>4 DEF RestOK, GiveUp, Ranks
<1>6. QED
  BY <1>3, <1>5 DEF Typed

LEMMA SenderTyped ==
  ASSUME Typed, NEW s \in Sender, Post(s) \/ AcceptUnheard(s) \/ Outcome(s) \/ Unwritten(s)
  PROVE  Typed'
<1>1. RestOK /\ WorkOK /\ SendType
  BY DEF Typed
<1>2. send[s] # NoSend /\ send[s].invoice \in Invoice /\ send[s].retry \in BOOLEAN
  <2>1. send[s] # NoSend
    BY DEF Post, Accept, AlreadyExisting, Busy, Refuse, AcceptUnheard, Outcome, SetSuccess,
           SetFailed, Unwritten, Sending
  <2>2. QED
    BY <1>1, <2>1 DEF SendType, Send
<1>3. UNCHANGED work
  BY DEF Post, Accept, AlreadyExisting, Busy, Refuse, AcceptUnheard, Outcome, SetSuccess,
         SetFailed, Unwritten
<1>4. WorkOK'
  BY <1>1, <1>3 DEF WorkOK
<1>5. SendType'
  BY <1>1, MovesType, PostMoves, UnwrittenMoves DEF Outcome, SetSuccess, SetFailed, Frees
<1>6. CASE Accept(s) \/ AlreadyExisting(s) \/ Busy(s) \/ Refuse(s)
  <2>1. taken' \subseteq Invoice \X BOOLEAN
    BY <1>1, <1>2, <1>6 DEF RestOK, Accept, AlreadyExisting, Busy, Refuse, Registers
  <2>2. RestOK'
    BY <1>1, <1>6, <2>1 DEF RestOK, Ranks, Accept, AlreadyExisting, Busy, Refuse
  <2>3. QED
    BY <1>4, <1>5, <2>2 DEF Typed
<1>7. CASE AcceptUnheard(s) \/ Unwritten(s)
  <2>1. taken' \subseteq Invoice \X BOOLEAN
    BY <1>1, <1>2, <1>7 DEF RestOK, AcceptUnheard, Unwritten, Registers
  <2>2. mishap' \subseteq Invoice \X Mishap
    BY <1>1, <1>2, <1>7 DEF RestOK, AcceptUnheard, Unwritten, Mishap
  <2>3. mishaps' \in 0 .. MaxMishaps
    BY <1>1, <1>7, MishapsType DEF AcceptUnheard, Unwritten
  <2>4. RestOK'
    BY <1>1, <1>7, <2>1, <2>2, <2>3 DEF RestOK, Ranks, AcceptUnheard, Unwritten
  <2>5. QED
    BY <1>4, <1>5, <2>4 DEF Typed
<1>8. CASE Outcome(s)
  <2>1. status' \in [Invoice -> Status] /\ Ranks(age)'
    BY <1>1, <1>2, <1>8, StatusType DEF Outcome, SetSuccess, SetFailed, Status
  <2>2. RestOK'
    BY <1>1, <1>8, <2>1 DEF RestOK, Outcome, SetSuccess, SetFailed
  <2>3. QED
    BY <1>4, <1>5, <2>2 DEF Typed
<1>9. QED
  BY <1>6, <1>7, <1>8 DEF Post

LEMMA ReportTyped ==
  ASSUME Typed, NEW i \in Invoice, Report(i) PROVE Typed'
<1>1. RestOK /\ WorkOK /\ SendType
  BY DEF Typed
<1>2. WorkOK' /\ SendType'
  BY <1>1 DEF Report, WorkOK, SendType
<1>3. status' \in [Invoice -> Status] /\ Ranks(age)'
  BY <1>1, StatusType DEF Report, SetStatus, Status
<1>4. order' \in [Invoice -> OrderDocument]
  BY <1>1 DEF Report, RestOK, OrderDocument
<1>5. mishap' \subseteq Invoice \X Mishap
  BY <1>1 DEF Report, RestOK, Mishap
<1>6. mishaps' \in 0 .. MaxMishaps
  BY <1>1, MishapsType DEF Report
<1>7. RestOK'
  BY <1>1, <1>3, <1>4, <1>5, <1>6 DEF RestOK, Report
<1>8. QED
  BY <1>2, <1>7 DEF Typed

LEMMA CrashTyped ==
  ASSUME Typed, Crash PROVE Typed'
<1>1. RestOK /\ WorkOK /\ SendType
  BY DEF Typed
<1>2. WorkOK' /\ SendType'
  BY DEF Crash, WorkOK, SendType
<1>3. mishap' \subseteq Invoice \X Mishap
  BY <1>1, InFlightType, MishapType DEF Crash, Mishap
<1>4. mishaps' \in 0 .. MaxMishaps
  BY <1>1, MishapsType DEF Crash
<1>5. RestOK'
  BY <1>1, <1>3, <1>4 DEF RestOK, Ranks, Crash
<1>6. QED
  BY <1>2, <1>5 DEF Typed

LEMMA ElsewhereTyped ==
  ASSUME Typed, Elsewhere PROVE Typed'
<1>1. RestOK /\ WorkOK /\ SendType
  BY DEF Typed
<1>2. UNCHANGED <<work, send, setup, status, age, inbox, taken, mishap, mishaps>>
  BY DEF Elsewhere, OrderArrives, ReprocessNothing, Ask, vars
<1>3. WorkOK' /\ SendType'
  BY <1>1, <1>2 DEF WorkOK, SendType
<1>4. order' \in [Invoice -> OrderDocument] /\ events' \subseteq Invoice
  BY <1>1 DEF RestOK, OrderDocument, Elsewhere, OrderArrives, ReprocessNothing, Ask, vars
<1>5. asked' \subseteq Sale
  <2>1. {SaleOf[i] : i \in Due} \subseteq Sale
    BY SetupAssumption DEF Due, Failed
  <2>2. QED
    BY <1>1, <2>1 DEF RestOK, Elsewhere, OrderArrives, ReprocessNothing, Ask, vars
<1>6. RestOK'
  BY <1>1, <1>2, <1>4, <1>5 DEF RestOK, Ranks
<1>7. QED
  BY <1>3, <1>6 DEF Typed

LEMMA TypedStep == Typed /\ [Next]_vars => Typed'
BY Kinds, TakesTyped, WorksTyped, EmitTyped, GiveUpTyped, SenderTyped, ReportTyped,
   CrashTyped, ElsewhereTyped

LEMMA TypedInit == Init => Typed
<1> SUFFICES ASSUME Init PROVE Typed
  OBVIOUS
<1>1. RestOK /\ WorkOK /\ SendType
  BY BoundAssumption DEF Init, RestOK, WorkOK, SendType, Ranks, Status, OrderDocument
<1>2. QED
  BY <1>1 DEF Typed

LEMMA TypedAlways == Spec => []Typed
BY TypedInit, TypedStep, PTL DEF Spec

\* Every variable keeps to its values.
THEOREM TypeCorrect == Spec => []TypeOK
BY TypedAlways, TypedIs, PTL

------------------------------------------------------------------------------
(* Success is earned.                                                       *)

Fields == {"invoice", "retry", "tries", "at"}

\* A sender is free or has the fields of a send; one that has come to "success"
\* has registered its invoice.
SendOK ==
  /\ send = [s \in Sender |-> send[s]]
  /\ \A s \in Sender : send[s] # NoSend => /\ DOMAIN send[s] = Fields
                                           /\ send[s] = [f \in Fields |-> send[s][f]]
                                           /\ send[s].retry \in BOOLEAN
  /\ \A s \in Sender : Sending(s, "success") => Registered(send[s].invoice)

\* The strengthening of SuccessIsEarned.
EarnedOK ==
  /\ status \in [Invoice -> Status]
  /\ SendOK
  /\ SuccessIsEarned

\* Success that was earned stays earned.
Kept == taken \subseteq taken' /\ mishap \subseteq mishap'

\* A step that leaves the sends alone, or frees some of them.
LEMMA SendKept ==
  ASSUME SendOK, Kept, \/ UNCHANGED send
                       \/ send' = [s \in Sender |-> NoSend]
                       \/ \E s \in Sender : send' = [send EXCEPT ![s] = NoSend]
  PROVE  SendOK'
BY DEF SendOK, Kept, Sending, Registered

\* A step that writes no success.
LEMMA StatusKept ==
  ASSUME EarnedOK, Kept, NEW i, NEW new \in Status \ {"success"},
         UNCHANGED status \/ status' = [status EXCEPT ![i] = new]
  PROVE  status' \in [Invoice -> Status] /\ SuccessIsEarned'
BY DEF EarnedOK, Kept, SuccessIsEarned, Registered, Suffered, Mishap, Status

IsSend(r) ==
  DOMAIN r = Fields /\ r = [f \in Fields |-> r[f]] /\ r.retry \in BOOLEAN

\* A step of one sender: what it does next is a send, and a success is earned.
LEMMA SendMoved ==
  ASSUME SendOK, Kept, NEW s \in Sender, NEW r, IsSend(r),
         send' = [send EXCEPT ![s] = r],
         r.at = "success" =>
           {<<r.invoice, FALSE>>, <<r.invoice, TRUE>>} \intersect taken' # {}
  PROVE  SendOK'
<1>1. send' = [q \in Sender |-> send'[q]] /\ send'[s] = r
  BY DEF SendOK
<1>2. \A q \in Sender \ {s} : send'[q] = send[q]
  BY DEF SendOK
<1>3. \A q \in Sender : send'[q] # NoSend => /\ DOMAIN send'[q] = Fields
                                             /\ send'[q] = [f \in Fields |-> send'[q][f]]
                                             /\ send'[q].retry \in BOOLEAN
  BY <1>1, <1>2 DEF SendOK, IsSend
<1>4. ASSUME NEW q \in Sender, Sending(q, "success")' PROVE Registered(send[q].invoice)'
  <2>1. CASE q = s
    BY <1>1, <1>4, <2>1 DEF Kept, Sending, Registered
  <2>2. CASE q # s
    BY <1>2, <1>4, <2>2 DEF SendOK, Kept, Sending, Registered
  <2>3. QED
    BY <2>1, <2>2
<1>5. QED
  BY <1>1, <1>3, <1>4 DEF SendOK

\* A step that succeeds.
LEMMA SendSucceeds ==
  ASSUME SendOK, Kept, NEW s \in Sender, send[s] # NoSend, SendAt(s, "success"),
         NEW i, i = send[s].invoice, {<<i, FALSE>>, <<i, TRUE>>} \intersect taken' # {}
  PROVE  SendOK'
<1> PICK r : r = [send[s] EXCEPT !.at = "success"]
  OBVIOUS
<1>1. IsSend(r) /\ r.at = "success" /\ r.invoice = i
  BY DEF SendOK, IsSend, Fields
<1>2. send' = [send EXCEPT ![s] = r]
  BY DEF SendAt
<1>3. QED
  BY <1>1, <1>2, SendMoved

\* A step that fails.
LEMMA SendFails ==
  ASSUME SendOK, Kept, NEW s \in Sender, send[s] # NoSend, SendAt(s, "error")
  PROVE  SendOK'
<1> PICK r : r = [send[s] EXCEPT !.at = "error"]
  OBVIOUS
<1>1. IsSend(r) /\ r.at = "error"
  BY DEF SendOK, IsSend, Fields
<1>2. send' = [send EXCEPT ![s] = r]
  BY DEF SendAt
<1>3. QED
  BY <1>1, <1>2, SendMoved

\* A step that posts again.
LEMMA TryAgainOK ==
  ASSUME SendOK, Kept, NEW s \in Sender, Sending(s, "post"), TryAgain(s)
  PROVE  SendOK'
<1>1. CASE SendAt(s, "error")
  BY <1>1, SendFails DEF Sending
<1>2. CASE send' = [send EXCEPT ![s].tries = @ + 1]
  <2> PICK r : r = [send[s] EXCEPT !.tries = @ + 1]
    OBVIOUS
  <2>1. IsSend(r) /\ r.at = "post"
    BY DEF SendOK, IsSend, Fields, Sending
  <2>2. send' = [send EXCEPT ![s] = r]
    BY <1>2
  <2>3. QED
    BY <2>1, <2>2, SendMoved
<1>3. QED
  BY <1>1, <1>2 DEF TryAgain

\* Now the steps.

\* Where work comes from, and what leaves status and sends alone.
LEMMA ElsewhereStep ==
  ASSUME EarnedOK,
         \/ \E w \in Worker :
              \/ Cron(w) \/ Postpone(w) \/ Reject(w) \/ StumbleOnCarrier(w)
              \/ Stumble(w) \/ GiveUp(w)
              \/ \E i \in Invoice : Deliver(w, i) \/ Reprocess(w, i) \/ Compensate(w, i)
         \/ \E i \in Invoice : OrderArrives(i) \/ ReprocessNothing(i)
         \/ Ask
         \/ UNCHANGED vars
  PROVE  EarnedOK'
<1>1. UNCHANGED <<status, send, taken>> /\ mishap \subseteq mishap'
  BY DEF Cron, Postpone, Reject, StumbleOnCarrier, Stumble, GiveUp, Deliver, Reprocess,
         Compensate, OrderArrives, ReprocessNothing, Ask, vars, Take
<1>2. Kept /\ SendOK
  BY <1>1 DEF Kept, EarnedOK
<1>3. SendOK'
  BY <1>1, <1>2, SendKept
<1>4. status' \in [Invoice -> Status] /\ SuccessIsEarned'
  BY <1>1, <1>2, StatusKept DEF Status
<1>5. QED
  BY <1>3, <1>4 DEF EarnedOK

\* generateIntegration and its callers write pending and error only.
LEMMA WorkerStep ==
  ASSUME EarnedOK, NEW w \in Worker, SetPending(w) \/ SetRejected(w) \/ SetError(w)
  PROVE  EarnedOK'
<1>1. Kept /\ SendOK /\ UNCHANGED send
  BY DEF Kept, EarnedOK, SetPending, SetRejected, SetError
<1> PICK i : i = Subject(w)
  OBVIOUS
<1>2. \E new \in Status \ {"success"} : status' = [status EXCEPT ![i] = new]
  BY DEF SetPending, SetRejected, SetError, SetStatus, Status
<1>3. SendOK'
  BY <1>1, SendKept
<1>4. status' \in [Invoice -> Status] /\ SuccessIsEarned'
  BY <1>1, <1>2, StatusKept
<1>5. QED
  BY <1>3, <1>4 DEF EarnedOK

\* The worker hands an invoice to a sender.
LEMMA EmitStep ==
  ASSUME EarnedOK, NEW w \in Worker, Emit(w)
  PROVE  EarnedOK'
<1>1. Kept /\ SendOK /\ UNCHANGED status
  BY DEF Kept, EarnedOK, Emit
<1>2. PICK s \in Sender :
        send' = [send EXCEPT ![s] =
                   [invoice |-> Subject(w), retry |-> FALSE, tries |-> 1, at |-> "post"]]
  BY DEF Emit
<1> PICK r : r = [invoice |-> Subject(w), retry |-> FALSE, tries |-> 1, at |-> "post"]
  OBVIOUS
<1>3. IsSend(r) /\ r.at = "post"
  BY DEF IsSend, Fields
<1>4. SendOK'
  BY <1>1, <1>2, <1>3, SendMoved
<1>5. status' \in [Invoice -> Status] /\ SuccessIsEarned'
  BY <1>1, StatusKept DEF Status
<1>6. QED
  BY <1>4, <1>5 DEF EarnedOK

\* A report may write success: that is one of the two ways to earn it.
LEMMA ReportStep ==
  ASSUME EarnedOK, NEW i \in Invoice, Report(i)
  PROVE  EarnedOK'
<1>1. Kept /\ SendOK /\ UNCHANGED send /\ <<i, "reported">> \in mishap'
  BY DEF Kept, EarnedOK, Report
<1>2. PICK new \in {"success", "error", "other"} : status' = [status EXCEPT ![i] = new]
  BY DEF Report
<1>3. SendOK'
  BY <1>1, SendKept
<1>4. status' \in [Invoice -> Status]
  BY <1>2 DEF EarnedOK, Status
<1>5. SuccessIsEarned'
  BY <1>1, <1>2 DEF EarnedOK, Kept, SuccessIsEarned, Registered, Suffered, Mishap
<1>6. QED
  BY <1>3, <1>4, <1>5 DEF EarnedOK

\* Intelipost accepts: the invoice is registered before its sender says so.
LEMMA AcceptStep ==
  ASSUME EarnedOK, NEW s \in Sender, Accept(s)
  PROVE  EarnedOK'
<1>1. Kept /\ SendOK /\ UNCHANGED status
  BY DEF Kept, EarnedOK, Accept, Registers
<1> PICK i : i = send[s].invoice
  OBVIOUS
<1>2. \/ <<i, FALSE>> \in taken' \/ <<i, TRUE>> \in taken'
  <2>1. <<i, send[s].retry>> \in taken'
    BY DEF Accept, Registers
  <2>2. send[s].retry \in BOOLEAN
    BY <1>1 DEF SendOK, Accept, Sending
  <2>3. QED
    BY <2>1, <2>2
<1>3. SendOK'
  BY <1>1, <1>2, SendSucceeds DEF Accept, Sending
<1>4. QED
  BY <1>1, <1>3, StatusKept DEF EarnedOK, Status

\* It has registered the invoice, and the sender does not know.
LEMMA AcceptUnheardStep ==
  ASSUME EarnedOK, NEW s \in Sender, AcceptUnheard(s)
  PROVE  EarnedOK'
<1>1. Kept /\ SendOK /\ UNCHANGED status
  BY DEF Kept, EarnedOK, AcceptUnheard, Registers
<1>2. SendOK'
  BY <1>1, TryAgainOK, SendFails DEF AcceptUnheard, Sending
<1>3. QED
  BY <1>1, <1>2, StatusKept DEF EarnedOK, Status

\* The other answers, and a failure of what follows.
LEMMA AnswerStep ==
  ASSUME EarnedOK, NEW s \in Sender, AlreadyExisting(s) \/ Busy(s) \/ Refuse(s) \/ Unwritten(s)
  PROVE  EarnedOK'
<1>1. Kept /\ SendOK /\ UNCHANGED status
  BY DEF Kept, EarnedOK, AlreadyExisting, Busy, Refuse, Unwritten
<1> SUFFICES SendOK'
  BY <1>1, StatusKept DEF EarnedOK, Status
<1>2. CASE AlreadyExisting(s)
  <2>1. CASE SendAt(s, "error")
    BY <1>1, <1>2, <2>1, SendFails DEF AlreadyExisting, Sending
  <2>2. CASE send' = [send EXCEPT ![s].retry = TRUE, ![s].tries = 1]
    <3> PICK r : r = [send[s] EXCEPT !.retry = TRUE, !.tries = 1]
      OBVIOUS
    <3>1. IsSend(r) /\ r.at = "post"
      BY <1>1, <1>2 DEF SendOK, IsSend, Fields, AlreadyExisting, Sending
    <3>2. send' = [send EXCEPT ![s] = r]
      BY <1>1, <2>2 DEF SendOK
    <3>3. QED
      BY <1>1, <3>1, <3>2, SendMoved
  <2>3. QED
    BY <1>2, <2>1, <2>2 DEF AlreadyExisting
<1>3. CASE Busy(s)
  BY <1>1, <1>3, TryAgainOK DEF Busy
<1>4. CASE Refuse(s)
  BY <1>1, <1>4, SendFails DEF Refuse, Sending
<1>5. CASE Unwritten(s)
  BY <1>1, <1>5, SendFails, SendKept DEF Unwritten, Sending
<1>6. QED
  BY <1>2, <1>3, <1>4, <1>5

\* The outcome is written: a success only by a sender that registered.
LEMMA OutcomeStep ==
  ASSUME EarnedOK, NEW s \in Sender, Outcome(s)
  PROVE  EarnedOK'
<1>1. Kept /\ SendOK /\ send' = [send EXCEPT ![s] = NoSend]
  BY DEF Kept, EarnedOK, Outcome, SetSuccess, SetFailed
<1>2. SendOK'
  BY <1>1, SendKept
<1> PICK i : i = send[s].invoice
  OBVIOUS
<1>3. CASE SetSuccess(s)
  <2>1. Registered(i) /\ status' = [status EXCEPT ![i] = "success"]
    BY <1>1, <1>3 DEF SetSuccess, SetStatus, SendOK
  <2>2. status' \in [Invoice -> Status] /\ SuccessIsEarned'
    BY <1>1, <2>1 DEF EarnedOK, Status, Kept, SuccessIsEarned, Registered, Suffered, Mishap
  <2>3. QED
    BY <1>2, <2>2 DEF EarnedOK
<1>4. CASE SetFailed(s)
  <2>1. \E new \in Status \ {"success"} : status' = [status EXCEPT ![i] = new]
    BY <1>4 DEF SetFailed, SetStatus, Status
  <2>2. status' \in [Invoice -> Status] /\ SuccessIsEarned'
    BY <1>1, <2>1, StatusKept
  <2>3. QED
    BY <1>2, <2>2 DEF EarnedOK
<1>5. QED
  BY <1>3, <1>4 DEF Outcome

\* A stop of the process frees every sender.
LEMMA CrashStep ==
  ASSUME EarnedOK, Crash PROVE EarnedOK'
<1>1. Kept /\ SendOK /\ UNCHANGED status /\ send' = [s \in Sender |-> NoSend]
  BY DEF Kept, EarnedOK, Crash
<1>2. SendOK'
  BY <1>1, SendKept
<1>3. QED
  BY <1>1, <1>2, StatusKept DEF EarnedOK, Status

LEMMA EarnedStep == EarnedOK /\ [Next]_vars => EarnedOK'
BY ElsewhereStep, WorkerStep, EmitStep, ReportStep, AcceptStep, AcceptUnheardStep,
   AnswerStep, OutcomeStep, CrashStep DEF Next, Integrate, Post

\* An invoice says success only if Intelipost registered it or another
\* integration reported it done, whatever is sent twice, lost or interrupted.
THEOREM SuccessEarned == Spec => []SuccessIsEarned
<1>1. Init => EarnedOK
  BY DEF Init, EarnedOK, SendOK, Sending, SuccessIsEarned, Status
<1>2. EarnedOK => SuccessIsEarned
  BY DEF EarnedOK
<1>3. QED
  BY <1>1, <1>2, EarnedStep, PTL DEF Spec

------------------------------------------------------------------------------
(* No invoice is forgotten.                                                 *)

Excused(i) == Suffered(i) \intersect {"stopped", "unwritten", "reported"} # {}

\* An invoice that no query looks for is still in its topic or with a sender.
KnownAt(i) ==
  status[i] \in {"created", "other"} => \/ i \in inbox \/ Excused(i)
                                        \/ \E s \in Sender : On(s, i)

KnownOK == \A i \in Invoice : KnownAt(i)

LEMMA ExcusedGrows ==
  ASSUME NEW i, mishap \subseteq mishap', Excused(i) PROVE Excused(i)'
BY DEF Excused, Suffered

\* Nothing that it rests on is lost.
LEMMA KnownKept ==
  ASSUME NEW i, KnownAt(i), status'[i] = status[i], mishap \subseteq mishap',
         i \in inbox => i \in inbox',
         \A s \in Sender : On(s, i) => On(s, i)'
  PROVE  KnownAt(i)'
BY ExcusedGrows DEF KnownAt

\* What is at an invoice stays there.
LEMMA MovesOn ==
  ASSUME SendType, NEW s \in Sender, Moves(s)
  PROVE  /\ \A t \in Sender, i \in Invoice : On(t, i)' <=> On(t, i)
         /\ \A t \in Sender \ {s} : send'[t] = send[t]
<1>1. PICK r \in Send : r.invoice = send[s].invoice /\ send' = [send EXCEPT ![s] = r]
  BY DEF Moves
<1>2. r # NoSend /\ send[s] # NoSend
  BY <1>1, NullAssumption DEF Moves
<1>3. \A t \in Sender : send'[t] = IF t = s THEN r ELSE send[t]
  BY <1>1 DEF SendType
<1>4. QED
  BY <1>1, <1>2, <1>3 DEF On

LEMMA FreesOn ==
  ASSUME SendType, NEW s \in Sender, Frees(s)
  PROVE  \A t \in Sender : /\ t # s => send'[t] = send[t]
                           /\ \A i \in Invoice : On(t, i)' <=> On(t, i) /\ t # s
<1>1. \A t \in Sender : send'[t] = IF t = s THEN NoSend ELSE send[t]
  BY DEF SendType, Frees
<1>2. QED
  BY <1>1 DEF On

LEMMA SenderAt ==
  ASSUME SendType, NEW s \in Sender, send[s] # NoSend
  PROVE  send[s].invoice \in Invoice /\ On(s, send[s].invoice)
BY DEF SendType, Send, On

\* A step writes the status of one invoice.
LEMMA StatusWritten ==
  ASSUME RestOK, NEW i \in Invoice, NEW new, SetStatus(i, new)
  PROVE  \A j \in Invoice : status'[j] = IF j = i THEN new ELSE status[j]
BY DEF RestOK, SetStatus

\* A worker writes the status of an invoice before it leaves it.
LEMMA WorksKnown ==
  ASSUME Typed, KnownOK, NEW w \in Worker, Works(w) PROVE KnownOK'
<1>1. RestOK /\ WorkOK /\ SendType
  BY DEF Typed
<1>2. Subject(w) \in Invoice
  BY <1>1, SubjectOf DEF Works
<1> SUFFICES ASSUME NEW i \in Invoice PROVE KnownAt(i)'
  BY DEF KnownOK
<1>3. KnownAt(i) /\ mishap \subseteq mishap' /\ UNCHANGED send
  BY DEF KnownOK, Works
<1>4. \A s \in Sender : On(s, i) => On(s, i)'
  BY <1>3 DEF On
<1>5. CASE UNCHANGED inbox /\ UNCHANGED <<status, age>>
  BY <1>3, <1>4, <1>5, KnownKept
<1>6. CASE \E new \in {"pending", "error"} : SetStatus(Subject(w), new)
  <2>1. CASE i = Subject(w)
    BY <1>1, <1>2, <1>6, <2>1, StatusWritten DEF KnownAt
  <2>2. CASE i # Subject(w)
    <3>1. status'[i] = status[i]
      BY <1>1, <1>2, <1>6, <2>2, StatusWritten
    <3>2. i \in inbox => i \in inbox'
      BY <2>2 DEF Works, Advance
    <3>3. QED
      BY <1>3, <1>4, <3>1, <3>2, KnownKept
  <2>3. QED
    BY <2>1, <2>2
<1>7. QED
  BY <1>5, <1>6 DEF Works

\* A worker that emits leaves the invoice to a sender.
LEMMA EmitKnown ==
  ASSUME Typed, KnownOK, NEW w \in Worker, Emit(w) PROVE KnownOK'
<1>1. PICK s \in Sender : /\ send[s] = NoSend
                          /\ \A i : On(s, i)' <=> i = Subject(w)
                          /\ \A t \in Sender \ {s} : send'[t] = send[t]
  BY EmitSend
<1> SUFFICES ASSUME NEW i \in Invoice PROVE KnownAt(i)'
  BY DEF KnownOK
<1>2. KnownAt(i) /\ UNCHANGED <<status, mishap>>
  BY DEF KnownOK, Emit
<1>3. \A t \in Sender : On(t, i) => On(t, i)'
  BY <1>1 DEF On
<1>4. CASE i = Subject(w)
  BY <1>1, <1>4 DEF KnownAt
<1>5. CASE i # Subject(w)
  <2>1. i \in inbox => i \in inbox'
    BY <1>5 DEF Emit, Advance
  <2>2. QED
    BY <1>2, <1>3, <2>1, KnownKept
<1>6. QED
  BY <1>4, <1>5

LEMMA GiveUpKnown ==
  ASSUME Typed, KnownOK, NEW w \in Worker, GiveUp(w) PROVE KnownOK'
<1> SUFFICES ASSUME NEW i \in Invoice PROVE KnownAt(i)'
  BY DEF KnownOK
<1>1. KnownAt(i) /\ mishap \subseteq mishap' /\ UNCHANGED <<status, send>>
  BY DEF KnownOK, GiveUp
<1>2. CASE i = Subject(w)
  <2>1. Excused(i)'
    BY <1>2 DEF Excused, Suffered, GiveUp, Mishap
  <2>2. QED
    BY <2>1 DEF KnownAt
<1>3. CASE i # Subject(w)
  <2>1. i \in inbox => i \in inbox'
    BY <1>3 DEF GiveUp
  <2>2. QED
    BY <1>1, <2>1, KnownKept DEF On
<1>4. QED
  BY <1>2, <1>3

\* A sender writes the status of its invoice before it leaves it, or says that
\* it could not.
LEMMA SenderKnown ==
  ASSUME Typed, KnownOK, NEW s \in Sender,
         Post(s) \/ AcceptUnheard(s) \/ Outcome(s) \/ Unwritten(s)
  PROVE  KnownOK'
<1>1. RestOK /\ SendType
  BY DEF Typed
<1> SUFFICES ASSUME NEW i \in Invoice PROVE KnownAt(i)'
  BY DEF KnownOK
<1>2. KnownAt(i) /\ mishap \subseteq mishap' /\ UNCHANGED inbox
  BY DEF KnownOK, Post, Accept, AlreadyExisting, Busy, Refuse, AcceptUnheard, Outcome,
         SetSuccess, SetFailed, Unwritten
<1>3. CASE Moves(s) /\ ~Outcome(s)
  <2>1. UNCHANGED status
    BY <1>3 DEF Post, Accept, AlreadyExisting, Busy, Refuse, AcceptUnheard, Unwritten
  <2>2. \A t \in Sender : On(t, i) => On(t, i)'
    BY <1>1, <1>3, MovesOn
  <2>3. QED
    BY <1>2, <2>1, <2>2, KnownKept
<1>4. CASE Outcome(s)
  <2>1. send[s] # NoSend /\ Frees(s)
    BY <1>4 DEF Outcome, SetSuccess, SetFailed, Sending, Frees
  <2>2. send[s].invoice \in Invoice
    BY <1>1, <2>1, SenderAt
  <2>3. PICK new \in {"success", "error"} : SetStatus(send[s].invoice, new)
    BY <1>4 DEF Outcome, SetSuccess, SetFailed
  <2>4. CASE i = send[s].invoice
    <3>1. status'[i] \in {"success", "error"}
      BY <1>1, <2>2, <2>3, <2>4, StatusWritten
    <3>2. QED
      BY <3>1 DEF KnownAt
  <2>5. CASE i # send[s].invoice
    <3>1. status'[i] = status[i]
      BY <1>1, <2>2, <2>3, <2>5, StatusWritten
    <3>2. \A t \in Sender : On(t, i) => On(t, i)'
      BY <1>1, <2>1, <2>5, FreesOn DEF On
    <3>3. QED
      BY <1>2, <3>1, <3>2, KnownKept
  <2>6. QED
    BY <2>4, <2>5
<1>5. CASE Unwritten(s) /\ Frees(s)
  <2>1. CASE i = send[s].invoice
    <3>1. Excused(i)'
      BY <1>5, <2>1 DEF Excused, Suffered, Unwritten, Mishap
    <3>2. QED
      BY <3>1 DEF KnownAt
  <2>2. CASE i # send[s].invoice
    <3>1. \A t \in Sender : On(t, i) => On(t, i)'
      BY <1>1, <1>5, <2>2, FreesOn DEF On
    <3>2. QED
      BY <1>2, <1>5, <3>1, KnownKept DEF Unwritten
  <2>3. QED
    BY <2>1, <2>2
<1>6. QED
  BY <1>1, <1>3, <1>4, <1>5, PostMoves, UnwrittenMoves

LEMMA ReportKnown ==
  ASSUME Typed, KnownOK, NEW j \in Invoice, Report(j) PROVE KnownOK'
<1> SUFFICES ASSUME NEW i \in Invoice PROVE KnownAt(i)'
  BY DEF KnownOK
<1>1. KnownAt(i) /\ mishap \subseteq mishap' /\ UNCHANGED <<send, inbox>>
  BY DEF KnownOK, Report
<1>2. CASE i = j
  <2>1. Excused(i)'
    BY <1>2 DEF Excused, Suffered, Report, Mishap
  <2>2. QED
    BY <2>1 DEF KnownAt
<1>3. CASE i # j
  <2>1. status'[i] = status[i]
    BY <1>3 DEF Report, Typed, RestOK
  <2>2. QED
    BY <1>1, <2>1, KnownKept DEF On
<1>4. QED
  BY <1>2, <1>3

\* What a sender was at when the process stopped is excused.
LEMMA CrashKnown ==
  ASSUME Typed, KnownOK, Crash PROVE KnownOK'
<1> SUFFICES ASSUME NEW i \in Invoice PROVE KnownAt(i)'
  BY DEF KnownOK
<1>1. KnownAt(i) /\ mishap \subseteq mishap' /\ UNCHANGED <<status, inbox>>
  BY DEF KnownOK, Crash
<1>2. CASE i \in InFlight
  <2>1. Excused(i)'
    BY <1>2 DEF Excused, Suffered, Crash, Mishap
  <2>2. QED
    BY <2>1 DEF KnownAt
<1>3. CASE i \notin InFlight
  <2>1. \A s \in Sender : ~On(s, i)
    BY <1>3, InFlightIs
  <2>2. QED
    BY <1>1, <2>1, KnownKept
<1>4. QED
  BY <1>2, <1>3

LEMMA OtherKnown ==
  ASSUME KnownOK,
         \/ Elsewhere
         \/ \E w \in Worker, from \in From : \E list : Takes(w, from, list)
  PROVE  KnownOK'
<1>1. UNCHANGED <<status, inbox, send>> /\ mishap \subseteq mishap'
  BY DEF Elsewhere, OrderArrives, ReprocessNothing, Ask, vars, Takes
<1>2. QED
  BY <1>1, KnownKept DEF KnownOK, On

LEMMA KnownStep == Typed /\ KnownOK /\ [Next]_vars => KnownOK'
BY Kinds, OtherKnown, WorksKnown, EmitKnown, GiveUpKnown, SenderKnown, ReportKnown, CrashKnown

\* An invoice that nobody is at has a status that reprocess looks for or is
\* done, unless the process stopped during a send, no status could be written,
\* or a report gave it another.
THEOREM NoneForgotten == Spec => []NotForgotten
<1>1. Init => KnownOK
  BY DEF Init, KnownOK, KnownAt
<1>2. Typed /\ KnownOK => NotForgotten
  BY InFlightIs DEF Typed, RestOK, Status, KnownOK, KnownAt, Excused, NotForgotten, AtRest
<1>3. QED
  BY <1>1, <1>2, TypedAlways, KnownStep, PTL DEF Spec

------------------------------------------------------------------------------
(* One at a time.                                                           *)

Disturbances == {"again", "stopped", "compensated", "reported"}

\* Nobody has come to the invoice while another was at it, nothing has
\* stopped, and neither the compensator nor a report was about it.
Calm(i) == \A kind \in Disturbances : <<i, kind>> \notin mishap

Worked(i) == \E w \in Worker : i \in Doing(w)

Sent(i) == \E s \in Sender : On(s, i)

\* While it is calm, one worker or one sender is at an invoice; none once it
\* has succeeded; its message is in the topic only until its first worker is
\* done with it.
SoloAt(i) ==
  /\ \A v, w \in Worker : i \in Doing(v) /\ i \in Doing(w) => v = w
  /\ \A r, s \in Sender : On(r, i) /\ On(s, i) => r = s
  /\ ~(Worked(i) /\ Sent(i))
  /\ status[i] = "success" => ~Worked(i) /\ ~Sent(i) /\ i \notin inbox
  /\ i \in inbox => /\ ~Sent(i)
                    /\ \/ status[i] = "created" /\ ~Worked(i)
                       \/ \E w \in Worker : i \in Doing(w) /\ work[w].from = "message"

SoloOK == \A i \in Invoice : Calm(i) => SoloAt(i)

LEMMA CalmBefore ==
  ASSUME NEW i, mishap \subseteq mishap', Calm(i)' PROVE Calm(i)
BY DEF Calm

\* A step that does not concern the invoice.
Untouched(i) ==
  /\ \A w \in Worker : /\ Doing(w)' \intersect {i} = Doing(w) \intersect {i}
                       /\ i \in Doing(w) => work'[w].from = work[w].from
  /\ \A s \in Sender : On(s, i)' <=> On(s, i)
  /\ status'[i] = status[i]
  /\ i \in inbox' <=> i \in inbox

LEMMA SoloKept ==
  ASSUME NEW i, SoloAt(i), Untouched(i) PROVE SoloAt(i)'
<1>1. \A w \in Worker : i \in Doing(w)' <=> i \in Doing(w)
  BY DEF Untouched
<1>2. /\ Worked(i)' <=> Worked(i)
      /\ Sent(i)' <=> Sent(i)
  BY <1>1 DEF Untouched, Worked, Sent
<1>3. QED
  BY <1>1, <1>2 DEF Untouched, SoloAt

LEMMA FreeIs == ASSUME NEW i PROVE i \in InFlight <=> Worked(i) \/ Sent(i)
BY InFlightIs DEF Worked, Sent

\* Whoever takes up a list comes to invoices nobody is at, or disturbs them.
LEMMA TakesSolo ==
  ASSUME Typed, SoloOK, NEW w \in Worker, NEW from \in From, NEW list, Takes(w, from, list)
  PROVE  SoloOK'
<1>1. RestOK /\ WorkOK /\ SendType
  BY DEF Typed
<1> SUFFICES ASSUME NEW i \in Invoice, Calm(i)' PROVE SoloAt(i)'
  BY DEF SoloOK
<1>2. SoloAt(i) /\ UNCHANGED <<status, inbox, send>>
  <2>1. mishap \subseteq mishap' /\ UNCHANGED <<status, inbox, send>>
    BY DEF Takes
  <2>2. QED
    BY <2>1, CalmBefore DEF SoloOK
<1>3. /\ \A v \in Worker : Doing(v)' = IF v = w THEN Elements(list) ELSE Doing(v)
      /\ \A v \in Worker \ {w} : work'[v] = work[v]
      /\ work'[w].from = from
  BY <1>1, TakeWork DEF Takes
<1>4. Doing(w) = {}
  BY DEF Takes, Doing
<1>5. CASE i \notin Elements(list)
  <2>1. \A v \in Worker : /\ Doing(v)' \intersect {i} = Doing(v) \intersect {i}
                          /\ i \in Doing(v) => work'[v].from = work[v].from
    BY <1>3, <1>4, <1>5
  <2>2. Untouched(i)
    BY <1>2, <2>1 DEF Untouched, On
  <2>3. QED
    BY <1>2, <2>2, SoloKept
<1>6. CASE i \in Elements(list)
  <2>1. <<i, "again">> \notin mishap' /\ <<i, "compensated">> \notin mishap'
    BY DEF Calm, Disturbances
  <2>2. from # "compensator" /\ i \notin InFlight
    BY <1>6, <2>1 DEF Takes
  <2>3. ~Worked(i) /\ ~Sent(i)
    BY <2>2, FreeIs
  <2>4. ~Sent(i)' /\ i \in Doing(w)' /\ \A v \in Worker : i \in Doing(v)' => v = w
    BY <1>2, <1>3, <1>6, <2>3 DEF Worked, Sent, On
  <2>5. status[i] # "success" /\ (i \in inbox => from = "message")
    <3>1. CASE from = "message"
      BY <1>2, <1>6, <3>1 DEF Takes, SoloAt
    <3>2. CASE from = "reprocess"
      <4>1. status[i] \in {"pending", "error"}
        BY <1>6, <2>2, <3>2 DEF Takes, Failed, Retried
      <4>2. QED
        BY <1>2, <2>3, <4>1 DEF SoloAt, Worked
    <3>3. QED
      BY <2>2, <3>1, <3>2 DEF From
  <2>6. QED
    BY <1>2, <1>3, <2>4, <2>5 DEF SoloAt, Worked, Sent
<1>7. QED
  BY <1>5, <1>6

\* A worker that goes on is still the one at its invoices; one that is done
\* with an invoice takes it out of the topic.
LEMMA WorksSolo ==
  ASSUME Typed, SoloOK, NEW w \in Worker, Works(w) PROVE SoloOK'
<1>1. RestOK /\ WorkOK /\ SendType
  BY DEF Typed
<1>2. Subject(w) \in Invoice /\ Subject(w) \in Doing(w)
  BY <1>1, SubjectOf DEF Works
<1> SUFFICES ASSUME NEW i \in Invoice, Calm(i)' PROVE SoloAt(i)'
  BY DEF SoloOK
<1>3. SoloAt(i) /\ UNCHANGED send
  <2>1. mishap \subseteq mishap' /\ UNCHANGED send
    BY DEF Works
  <2>2. QED
    BY <2>1, CalmBefore DEF SoloOK
<1>4. \A s \in Sender : On(s, i)' <=> On(s, i)
  BY <1>3 DEF On
<1>5. i # Subject(w) => status'[i] = status[i]
  BY <1>1, <1>2, StatusWritten DEF Works
<1>6. i = Subject(w) => status'[i] # "success"
  <2>1. i = Subject(w) => status[i] # "success"
    BY <1>2, <1>3 DEF SoloAt, Worked
  <2>2. QED
    BY <1>1, <1>2, <2>1, StatusWritten DEF Works
<1>7. CASE (\E place \in Place : Goto(w, place)) /\ UNCHANGED inbox
  <2>1. /\ \A v \in Worker : Doing(v)' = Doing(v)
        /\ \A v \in Worker : work[v] # NoWork => work'[v].from = work[v].from
    BY <1>1, <1>7, GotoWork DEF Works
  <2>2. \A v \in Worker : i \in Doing(v) => work'[v].from = work[v].from
    BY <2>1 DEF Doing
  <2>3. CASE i # Subject(w)
    <3>1. Untouched(i)
      BY <1>4, <1>5, <1>7, <2>1, <2>2, <2>3 DEF Untouched
    <3>2. QED
      BY <1>3, <3>1, SoloKept
  <2>4. CASE i = Subject(w)
    BY <1>2, <1>3, <1>4, <1>6, <1>7, <2>1, <2>2, <2>4 DEF SoloAt, Worked, Sent
  <2>5. QED
    BY <2>3, <2>4
<1>8. CASE Advance(w)
  <2>1. /\ \A v \in Worker : Doing(v)' = IF v = w THEN Doing(w) \ {Subject(w)} ELSE Doing(v)
        /\ \A v \in Worker : work'[v] # NoWork => work'[v].from = work[v].from
    BY <1>1, <1>8, AdvanceWork DEF Works
  <2>2. CASE i # Subject(w)
    <3>1. \A v \in Worker : Doing(v)' \intersect {i} = Doing(v) \intersect {i}
      BY <2>1, <2>2
    <3>2. \A v \in Worker : i \in Doing(v) => work'[v].from = work[v].from
      BY <2>1, <3>1 DEF Doing
    <3>3. i \in inbox' <=> i \in inbox
      BY <1>8, <2>2 DEF Advance
    <3>4. Untouched(i)
      BY <1>4, <1>5, <2>2, <3>1, <3>2, <3>3 DEF Untouched
    <3>5. QED
      BY <1>3, <3>4, SoloKept
  <2>3. CASE i = Subject(w)
    <3>1. ~Worked(i)'
      BY <1>2, <1>3, <2>1, <2>3 DEF SoloAt, Worked
    <3>2. ~Sent(i)'
      BY <1>2, <1>3, <1>4, <2>3 DEF SoloAt, Worked, Sent
    <3>3. i \notin inbox'
      BY <1>2, <1>3, <1>8, <2>3 DEF SoloAt, Worked, Advance
    <3>4. QED
      BY <3>1, <3>2, <3>3 DEF SoloAt, Worked, Sent
  <2>4. QED
    BY <2>2, <2>3
<1>9. QED
  BY <1>7, <1>8 DEF Works

\* The invoice goes from its worker to one sender.
LEMMA EmitSolo ==
  ASSUME Typed, SoloOK, NEW w \in Worker, Emit(w) PROVE SoloOK'
<1>1. RestOK /\ WorkOK /\ SendType /\ work[w] # NoWork /\ Advance(w)
  BY DEF Typed, Emit, CanSend, At
<1>2. Subject(w) \in Invoice /\ Subject(w) \in Doing(w)
  BY <1>1, SubjectOf
<1>3. PICK s \in Sender : /\ send[s] = NoSend
                          /\ \A i : On(s, i)' <=> i = Subject(w)
                          /\ \A t \in Sender \ {s} : send'[t] = send[t]
  BY EmitSend
<1> SUFFICES ASSUME NEW i \in Invoice, Calm(i)' PROVE SoloAt(i)'
  BY DEF SoloOK
<1>4. SoloAt(i) /\ UNCHANGED status
  BY CalmBefore DEF SoloOK, Emit
<1>5. /\ \A v \in Worker : Doing(v)' = IF v = w THEN Doing(w) \ {Subject(w)} ELSE Doing(v)
      /\ \A v \in Worker : work'[v] # NoWork => work'[v].from = work[v].from
  BY <1>1, AdvanceWork
<1>6. CASE i # Subject(w)
  <2>1. \A v \in Worker : Doing(v)' \intersect {i} = Doing(v) \intersect {i}
    BY <1>5, <1>6
  <2>2. \A v \in Worker : i \in Doing(v) => work'[v].from = work[v].from
    BY <1>5, <2>1 DEF Doing
  <2>3. \A t \in Sender : On(t, i)' <=> On(t, i)
    BY <1>3, <1>6 DEF On
  <2>4. i \in inbox' <=> i \in inbox
    BY <1>1, <1>6 DEF Advance
  <2>5. Untouched(i)
    BY <1>4, <2>1, <2>2, <2>3, <2>4 DEF Untouched
  <2>6. QED
    BY <1>4, <2>5, SoloKept
<1>7. CASE i = Subject(w)
  <2>1. ~Worked(i)'
    BY <1>2, <1>4, <1>5, <1>7 DEF SoloAt, Worked
  <2>2. \A t \in Sender : On(t, i)' => t = s
    BY <1>2, <1>3, <1>4, <1>7 DEF SoloAt, Worked, Sent, On
  <2>3. i \notin inbox'
    BY <1>1, <1>2, <1>4, <1>7 DEF SoloAt, Worked, Advance
  <2>4. status'[i] # "success"
    BY <1>2, <1>4, <1>7 DEF SoloAt, Worked
  <2>5. QED
    BY <2>1, <2>2, <2>3, <2>4 DEF SoloAt, Worked, Sent
<1>8. QED
  BY <1>6, <1>7

\* A worker that gives up leaves all its invoices.
LEMMA GiveUpSolo ==
  ASSUME Typed, SoloOK, NEW w \in Worker, GiveUp(w) PROVE SoloOK'
<1>1. RestOK /\ WorkOK /\ SendType /\ work[w] # NoWork
  BY DEF Typed, GiveUp, At
<1>2. Subject(w) \in Doing(w) /\ (work[w].from = "message" => Doing(w) = {Subject(w)})
  BY <1>1, SubjectOf
<1> SUFFICES ASSUME NEW i \in Invoice, Calm(i)' PROVE SoloAt(i)'
  BY DEF SoloOK
<1>3. SoloAt(i) /\ UNCHANGED <<status, send>>
  <2>1. mishap \subseteq mishap' /\ UNCHANGED <<status, send>>
    BY DEF GiveUp
  <2>2. QED
    BY <2>1, CalmBefore DEF SoloOK
<1>4. \A v \in Worker : work'[v] = IF v = w THEN NoWork ELSE work[v]
  BY <1>1 DEF GiveUp, WorkOK
<1>5. \A v \in Worker : Doing(v)' = IF v = w THEN {} ELSE Doing(v)
  BY <1>4 DEF Doing
<1>6. \A s \in Sender : On(s, i)' <=> On(s, i)
  BY <1>3 DEF On
<1>7. CASE i \notin Doing(w)
  <2>1. i \in inbox' <=> i \in inbox
    BY <1>2, <1>7 DEF GiveUp
  <2>2. \A v \in Worker : /\ Doing(v)' \intersect {i} = Doing(v) \intersect {i}
                          /\ i \in Doing(v) => work'[v].from = work[v].from
    BY <1>4, <1>5, <1>7
  <2>3. Untouched(i)
    BY <1>3, <1>6, <2>1, <2>2 DEF Untouched
  <2>4. QED
    BY <1>3, <2>3, SoloKept
<1>8. CASE i \in Doing(w)
  <2>1. ~Worked(i)' /\ ~Sent(i)'
    BY <1>3, <1>5, <1>6, <1>8 DEF SoloAt, Worked, Sent
  <2>2. i \notin inbox'
    <3>1. i \in inbox => work[w].from = "message"
      BY <1>3, <1>8 DEF SoloAt, Worked
    <3>2. QED
      BY <1>2, <1>8, <3>1 DEF GiveUp
  <2>3. QED
    BY <2>1, <2>2 DEF SoloAt, Worked, Sent
<1>9. QED
  BY <1>7, <1>8

\* A sender stays the one at its invoice or leaves it.
LEMMA SenderSolo ==
  ASSUME Typed, SoloOK, NEW s \in Sender,
         Post(s) \/ AcceptUnheard(s) \/ Outcome(s) \/ Unwritten(s)
  PROVE  SoloOK'
<1>1. RestOK /\ WorkOK /\ SendType
  BY DEF Typed
<1> SUFFICES ASSUME NEW i \in Invoice, Calm(i)' PROVE SoloAt(i)'
  BY DEF SoloOK
<1>2. SoloAt(i) /\ UNCHANGED <<work, inbox>>
  <2>1. mishap \subseteq mishap' /\ UNCHANGED <<work, inbox>>
    BY DEF Post, Accept, AlreadyExisting, Busy, Refuse, AcceptUnheard, Outcome, SetSuccess,
           SetFailed, Unwritten
  <2>2. QED
    BY <2>1, CalmBefore DEF SoloOK
<1>3. /\ \A w \in Worker : Doing(w)' = Doing(w)
      /\ Worked(i)' <=> Worked(i)
  BY <1>2 DEF Doing, Worked
<1>4. CASE Moves(s) /\ ~Outcome(s)
  <2>1. UNCHANGED status
    BY <1>4 DEF Post, Accept, AlreadyExisting, Busy, Refuse, AcceptUnheard, Unwritten
  <2>2. \A t \in Sender : On(t, i)' <=> On(t, i)
    BY <1>1, <1>4, MovesOn
  <2>3. Untouched(i)
    BY <1>2, <1>3, <2>1, <2>2 DEF Untouched
  <2>4. QED
    BY <1>2, <2>3, SoloKept
<1>5. CASE Unwritten(s) /\ Frees(s)
  <2>1. UNCHANGED status
    BY <1>5 DEF Unwritten
  <2>2. \A t \in Sender : On(t, i)' => On(t, i)
    BY <1>1, <1>5, FreesOn
  <2>3. QED
    BY <1>2, <1>3, <2>1, <2>2 DEF SoloAt, Sent
<1>6. CASE Outcome(s)
  <2>1. send[s] # NoSend /\ Frees(s)
    BY <1>6 DEF Outcome, SetSuccess, SetFailed, Sending, Frees
  <2>2. send[s].invoice \in Invoice /\ On(s, send[s].invoice)
    BY <1>1, <2>1, SenderAt
  <2>3. PICK new \in {"success", "error"} : SetStatus(send[s].invoice, new)
    BY <1>6 DEF Outcome, SetSuccess, SetFailed
  <2>4. \A t \in Sender : On(t, i)' <=> On(t, i) /\ t # s
    BY <1>1, <2>1, FreesOn
  <2>5. CASE i # send[s].invoice
    <3>1. status'[i] = status[i]
      BY <1>1, <2>2, <2>3, <2>5, StatusWritten
    <3>2. Untouched(i)
      BY <1>2, <1>3, <2>4, <2>5, <3>1 DEF Untouched, On
    <3>3. QED
      BY <1>2, <3>2, SoloKept
  <2>6. CASE i = send[s].invoice
    <3>1. ~Worked(i) /\ i \notin inbox /\ \A t \in Sender : On(t, i) => t = s
      BY <1>2, <2>2, <2>6 DEF SoloAt, Sent
    <3>2. ~Sent(i)' /\ ~Worked(i)' /\ i \notin inbox'
      BY <1>2, <1>3, <2>4, <3>1 DEF Sent
    <3>3. QED
      BY <3>2 DEF SoloAt, Worked, Sent
  <2>7. QED
    BY <2>5, <2>6
<1>7. QED
  BY <1>1, <1>4, <1>5, <1>6, PostMoves, UnwrittenMoves

LEMMA ReportSolo ==
  ASSUME Typed, SoloOK, NEW j \in Invoice, Report(j) PROVE SoloOK'
<1> SUFFICES ASSUME NEW i \in Invoice, Calm(i)' PROVE SoloAt(i)'
  BY DEF SoloOK
<1>1. SoloAt(i)
  <2>1. mishap \subseteq mishap'
    BY DEF Report
  <2>2. QED
    BY <2>1, CalmBefore DEF SoloOK
<1>2. i # j
  BY DEF Report, Calm, Disturbances
<1>3. status'[i] = status[i] /\ UNCHANGED <<work, send, inbox>>
  BY <1>2 DEF Report, Typed, RestOK
<1>4. Untouched(i)
  BY <1>3 DEF Untouched, Doing, On
<1>5. QED
  BY <1>1, <1>4, SoloKept

\* An invoice that stays calm when the process stops had nobody at it.
LEMMA CrashSolo ==
  ASSUME Typed, SoloOK, Crash PROVE SoloOK'
<1> SUFFICES ASSUME NEW i \in Invoice, Calm(i)' PROVE SoloAt(i)'
  BY DEF SoloOK
<1>1. SoloAt(i)
  <2>1. mishap \subseteq mishap'
    BY DEF Crash
  <2>2. QED
    BY <2>1, CalmBefore DEF SoloOK
<1>2. i \notin InFlight
  BY DEF Crash, Calm, Disturbances
<1>3. ~Worked(i) /\ ~Sent(i)
  BY <1>2, FreeIs
<1>4. ~Worked(i)' /\ ~Sent(i)' /\ UNCHANGED <<status, inbox>>
  BY DEF Crash, Worked, Sent, Doing, On
<1>5. QED
  BY <1>1, <1>3, <1>4 DEF SoloAt, Worked, Sent

LEMMA ElsewhereSolo ==
  ASSUME SoloOK, Elsewhere PROVE SoloOK'
<1>1. UNCHANGED <<status, inbox, work, send, mishap>>
  BY DEF Elsewhere, OrderArrives, ReprocessNothing, Ask, vars
<1>2. \A i \in Invoice : Untouched(i) /\ (Calm(i)' => Calm(i))
  BY <1>1 DEF Untouched, Doing, On, Calm
<1>3. QED
  BY <1>2, SoloKept DEF SoloOK

LEMMA SoloStep == Typed /\ SoloOK /\ [Next]_vars => SoloOK'
BY Kinds, TakesSolo, WorksSolo, EmitSolo, GiveUpSolo, SenderSolo, ReportSolo, CrashSolo,
   ElsewhereSolo

LEMMA SoloInit == Init => SoloOK
BY DEF Init, SoloOK, SoloAt, Worked, Sent, Doing, On

LEMMA SoloAlways == Spec => [](Typed /\ SoloOK)
BY SoloInit, SoloStep, TypedInit, TypedStep, PTL DEF Spec

\* Only those who are at an invoice write its status.
LEMMA SuccessUndone ==
  ASSUME Typed, SoloOK, [Next]_vars, NEW i \in Invoice,
         status[i] = "success", status'[i] # "success"
  PROVE  ~Calm(i)'
<1> SUFFICES ASSUME Calm(i)' PROVE FALSE
  OBVIOUS
<1>1. RestOK /\ WorkOK /\ SendType
  BY DEF Typed
<1>2. ASSUME mishap \subseteq mishap' PROVE ~Worked(i) /\ ~Sent(i)
  BY <1>2, CalmBefore DEF SoloOK, SoloAt
<1>3. ASSUME NEW w \in Worker, Works(w) PROVE FALSE
  <2>1. Subject(w) \in Invoice /\ Subject(w) \in Doing(w)
    BY <1>1, <1>3, SubjectOf DEF Works
  <2>2. i = Subject(w)
    BY <1>1, <1>3, <2>1, StatusWritten DEF Works
  <2>3. mishap \subseteq mishap'
    BY <1>3 DEF Works
  <2>4. QED
    BY <1>2, <2>1, <2>2, <2>3 DEF Worked
<1>4. ASSUME NEW s \in Sender, Outcome(s) PROVE FALSE
  <2>1. send[s].invoice \in Invoice /\ On(s, send[s].invoice)
    BY <1>1, <1>4, SenderAt DEF Outcome, SetSuccess, SetFailed, Sending
  <2>2. i = send[s].invoice
    BY <1>1, <1>4, <2>1, StatusWritten DEF Outcome, SetSuccess, SetFailed
  <2>3. UNCHANGED mishap
    BY <1>4 DEF Outcome, SetSuccess, SetFailed
  <2>4. QED
    BY <1>2, <2>1, <2>2, <2>3 DEF Sent
<1>5. ASSUME NEW j \in Invoice, Report(j) PROVE FALSE
  <2>1. i # j
    BY <1>5 DEF Report, Calm, Disturbances
  <2>2. QED
    BY <1>1, <1>5, <2>1 DEF Report, RestOK
<1>6. ASSUME NEW w \in Worker, NEW from, NEW list, Takes(w, from, list) PROVE FALSE
  BY <1>6 DEF Takes
<1>7. ASSUME NEW w \in Worker, Emit(w) \/ GiveUp(w) PROVE FALSE
  BY <1>7 DEF Emit, GiveUp
<1>8. ASSUME NEW s \in Sender, Post(s) \/ AcceptUnheard(s) \/ Unwritten(s) PROVE FALSE
  BY <1>8 DEF Post, Accept, AlreadyExisting, Busy, Refuse, AcceptUnheard, Unwritten
<1>9. ASSUME Crash \/ Elsewhere PROVE FALSE
  BY <1>9 DEF Crash, Elsewhere, OrderArrives, ReprocessNothing, Ask, vars
<1>10. QED
  BY <1>3, <1>4, <1>5, <1>6, <1>7, <1>8, <1>9, Kinds

\* A success is undone only by a handler that was at the invoice at the same
\* time or again after a crash, by the compensator or by a report.
THEOREM SuccessKept == Spec => SuccessUndoneOnlyByMishap
<1>1. Typed /\ SoloOK /\ [Next]_vars =>
        [\A i \in Invoice : status[i] = "success" /\ status'[i] # "success" =>
           \E kind \in {"again", "stopped", "compensated", "reported"} :
             <<i, kind>> \in mishap']_vars
  BY SuccessUndone DEF Calm, Disturbances
<1>2. QED
  BY <1>1, SoloAlways, PTL DEF Spec, SuccessUndoneOnlyByMishap

------------------------------------------------------------------------------
(* Intelipost has an invoice once.                                          *)

\* An invoice nothing has happened to is registered under one number at most,
\* and then it says so or its sender is about to write it.
RegisteredAt(i) ==
  /\ ~({<<i, FALSE>>, <<i, TRUE>>} \subseteq taken)
  /\ Registered(i) => \/ status[i] = "success"
                      \/ \E s \in Sender : On(s, i) /\ send[s].at = "success"

RegisteredOK == \A i \in Invoice : Suffered(i) = {} => RegisteredAt(i)

\* Nothing has happened to it yet: so it is calm.
LEMMA Unharmed ==
  ASSUME NEW i, mishap \subseteq mishap', (Suffered(i) = {})'
  PROVE  Suffered(i) = {} /\ Calm(i)' /\ Calm(i)
BY DEF Suffered, Calm, Disturbances, Mishap

LEMMA RegisteredKept ==
  ASSUME NEW i, RegisteredAt(i), \A b \in BOOLEAN : <<i, b>> \in taken' <=> <<i, b>> \in taken,
         status[i] = "success" => status'[i] = "success",
         \A s \in Sender : On(s, i) /\ send[s].at = "success"
                             => On(s, i)' /\ send'[s].at = "success"
  PROVE  RegisteredAt(i)'
<1>1. /\ <<i, TRUE>> \in taken' <=> <<i, TRUE>> \in taken
      /\ <<i, FALSE>> \in taken' <=> <<i, FALSE>> \in taken
  OBVIOUS
<1>2. Registered(i)' <=> Registered(i)
  BY <1>1 DEF Registered
<1>3. QED
  BY <1>1, <1>2 DEF RegisteredAt

\* No step undoes the success of an invoice that stays unharmed.
LEMMA StaysSuccess ==
  ASSUME Typed, SoloOK, [Next]_vars, NEW i \in Invoice, mishap \subseteq mishap',
         (Suffered(i) = {})', status[i] = "success"
  PROVE  status'[i] = "success"
BY SuccessUndone, Unharmed

\* Intelipost registers an invoice that it did not have: its one sender has
\* only now been answered.
LEMMA AcceptRegistered ==
  ASSUME Typed, SoloOK, RegisteredOK, [Next]_vars, NEW s \in Sender, Accept(s)
  PROVE  RegisteredOK'
<1>1. SendType /\ mishap \subseteq mishap' /\ UNCHANGED status
  BY DEF Typed, Accept
<1> SUFFICES ASSUME NEW i \in Invoice, (Suffered(i) = {})' PROVE RegisteredAt(i)'
  BY DEF RegisteredOK
<1>2. RegisteredAt(i) /\ SoloAt(i)
  BY <1>1, Unharmed DEF RegisteredOK, SoloOK
<1>3. /\ send[s] # NoSend /\ send[s].at = "post" /\ send[s] \in Send
      /\ taken' = taken \union {<<send[s].invoice, send[s].retry>>}
  BY <1>1 DEF Accept, Registers, Sending, SendType
<1>4. Moves(s) /\ send'[s] # NoSend /\ send'[s].at = "success"
  <2>1. Moves(s)
    BY PostMoves, <1>1 DEF Post
  <2>2. send' = [send EXCEPT ![s] = [send[s] EXCEPT !.at = "success"]]
    BY DEF Accept, SendAt
  <2>3. [send[s] EXCEPT !.at = "success"] \in Send
    BY <1>3 DEF Send
  <2>4. QED
    BY <1>1, <1>3, <2>1, <2>2, <2>3, NullAssumption DEF SendType, Send
<1>5. CASE i = send[s].invoice
  <2>1. On(s, i)
    BY <1>3, <1>5 DEF On
  <2>2. ~Registered(i)
    BY <1>2, <1>3, <2>1 DEF RegisteredAt, SoloAt, Sent
  <2>3. On(s, i)'
    BY <1>1, <1>4, <2>1, MovesOn
  <2>4. ~({<<i, FALSE>>, <<i, TRUE>>} \subseteq taken')
    BY <1>3, <1>5, <2>2 DEF Registered
  <2>5. QED
    BY <1>4, <2>3, <2>4 DEF RegisteredAt
<1>6. CASE i # send[s].invoice
  <2>1. \A t \in Sender : On(t, i) /\ send[t].at = "success" => On(t, i)' /\ send'[t].at = "success"
    BY <1>1, <1>4, <1>6, MovesOn DEF On
  <2>2. \A b \in BOOLEAN : <<i, b>> \in taken' <=> <<i, b>> \in taken
    BY <1>3, <1>6
  <2>3. QED
    BY <1>1, <1>2, <2>1, <2>2, RegisteredKept
<1>7. QED
  BY <1>5, <1>6

\* The other senders' steps, if none of them that is at "success" moves.
LEMMA AnswersRegistered ==
  ASSUME Typed, RegisteredOK, NEW s \in Sender,
         AlreadyExisting(s) \/ Busy(s) \/ Refuse(s) \/ AcceptUnheard(s)
  PROVE  RegisteredOK'
<1>1. SendType /\ mishap \subseteq mishap' /\ UNCHANGED status
  BY DEF Typed, AlreadyExisting, Busy, Refuse, AcceptUnheard
<1> SUFFICES ASSUME NEW i \in Invoice, (Suffered(i) = {})' PROVE RegisteredAt(i)'
  BY DEF RegisteredOK
<1>2. RegisteredAt(i)
  BY <1>1, Unharmed DEF RegisteredOK
<1>3. send[s] # NoSend /\ send[s].at = "post" /\ Moves(s)
  BY <1>1, PostMoves DEF AlreadyExisting, Busy, Refuse, AcceptUnheard, Sending, Post
<1>4. \A t \in Sender : On(t, i) /\ send[t].at = "success" => On(t, i)' /\ send'[t].at = "success"
  BY <1>1, <1>3, MovesOn
<1>5. \A b \in BOOLEAN : <<i, b>> \in taken' <=> <<i, b>> \in taken
  <2>1. CASE AcceptUnheard(s)
    <3>1. i # send[s].invoice
      BY <2>1 DEF AcceptUnheard, Suffered, Mishap
    <3>2. QED
      BY <2>1, <3>1 DEF AcceptUnheard, Registers
  <2>2. CASE UNCHANGED taken
    BY <2>2
  <2>3. QED
    BY <2>1, <2>2 DEF AlreadyExisting, Busy, Refuse
<1>6. QED
  BY <1>1, <1>2, <1>4, <1>5, RegisteredKept

\* The outcome is written, and by the sender that was at "success" it is one.
LEMMA OutcomeRegistered ==
  ASSUME Typed, SoloOK, RegisteredOK, [Next]_vars, NEW s \in Sender, Outcome(s)
  PROVE  RegisteredOK'
<1>1. RestOK /\ SendType /\ mishap \subseteq mishap' /\ UNCHANGED taken
  BY DEF Typed, Outcome, SetSuccess, SetFailed
<1> SUFFICES ASSUME NEW i \in Invoice, (Suffered(i) = {})' PROVE RegisteredAt(i)'
  BY DEF RegisteredOK
<1>2. RegisteredAt(i)
  BY <1>1, Unharmed DEF RegisteredOK
<1>3. send[s] # NoSend /\ Frees(s) /\ send[s].invoice \in Invoice
  BY <1>1, SenderAt DEF Outcome, SetSuccess, SetFailed, Sending, Frees
<1>4. status[i] = "success" => status'[i] = "success"
  BY <1>1, StaysSuccess
<1>5. CASE i = send[s].invoice /\ SetSuccess(s)
  <2>1. status'[i] = "success"
    BY <1>1, <1>3, <1>5, StatusWritten DEF SetSuccess
  <2>2. QED
    BY <1>1, <1>2, <2>1 DEF RegisteredAt, Registered
<1>6. CASE i # send[s].invoice \/ SetFailed(s)
  <2>1. \A t \in Sender : On(t, i) /\ send[t].at = "success" => On(t, i)' /\ send'[t].at = "success"
    BY <1>1, <1>3, <1>6, FreesOn DEF SetFailed, Sending, On
  <2>2. QED
    BY <1>1, <1>2, <1>4, <2>1, RegisteredKept
<1>7. QED
  BY <1>5, <1>6 DEF Outcome

\* A sender that leaves without the outcome written has harmed its invoice.
LEMMA UnwrittenRegistered ==
  ASSUME Typed, RegisteredOK, NEW s \in Sender, Unwritten(s)
  PROVE  RegisteredOK'
<1>1. SendType /\ mishap \subseteq mishap' /\ UNCHANGED <<status, taken>>
  BY DEF Typed, Unwritten
<1> SUFFICES ASSUME NEW i \in Invoice, (Suffered(i) = {})' PROVE RegisteredAt(i)'
  BY DEF RegisteredOK
<1>2. RegisteredAt(i)
  BY <1>1, Unharmed DEF RegisteredOK
<1>3. i # send[s].invoice
  BY DEF Unwritten, Suffered, Mishap
<1>4. \A t \in Sender : On(t, i) /\ send[t].at = "success" => On(t, i)' /\ send'[t].at = "success"
  BY <1>1, <1>3, UnwrittenMoves, MovesOn, FreesOn DEF On
<1>5. QED
  BY <1>1, <1>2, <1>4, RegisteredKept

LEMMA EmitRegistered ==
  ASSUME Typed, RegisteredOK, NEW w \in Worker, Emit(w)
  PROVE  RegisteredOK'
<1>1. UNCHANGED <<status, taken, mishap>>
  BY DEF Emit
<1>2. PICK s \in Sender : /\ send[s] = NoSend
                          /\ \A t \in Sender \ {s} : send'[t] = send[t]
  BY EmitSend
<1> SUFFICES ASSUME NEW i \in Invoice, (Suffered(i) = {})' PROVE RegisteredAt(i)'
  BY DEF RegisteredOK
<1>3. RegisteredAt(i)
  BY <1>1, Unharmed DEF RegisteredOK
<1>4. \A t \in Sender : On(t, i) /\ send[t].at = "success" => On(t, i)' /\ send'[t].at = "success"
  BY <1>2 DEF On
<1>5. QED
  BY <1>1, <1>3, <1>4, RegisteredKept

\* The process stops: it harms every invoice with a sender.
LEMMA CrashRegistered ==
  ASSUME Typed, RegisteredOK, Crash PROVE RegisteredOK'
<1>1. mishap \subseteq mishap' /\ UNCHANGED <<status, taken>>
  BY DEF Crash
<1> SUFFICES ASSUME NEW i \in Invoice, (Suffered(i) = {})' PROVE RegisteredAt(i)'
  BY DEF RegisteredOK
<1>2. RegisteredAt(i)
  BY <1>1, Unharmed DEF RegisteredOK
<1>3. i \notin InFlight
  BY DEF Crash, Suffered, Mishap
<1>4. \A t \in Sender : ~On(t, i)
  BY <1>3, InFlightIs
<1>5. QED
  BY <1>1, <1>2, <1>4, RegisteredKept

\* The steps that leave the senders and Intelipost alone.
LEMMA RestRegistered ==
  ASSUME Typed, SoloOK, RegisteredOK, [Next]_vars, UNCHANGED <<send, taken>>,
         mishap \subseteq mishap'
  PROVE  RegisteredOK'
<1> SUFFICES ASSUME NEW i \in Invoice, (Suffered(i) = {})' PROVE RegisteredAt(i)'
  BY DEF RegisteredOK
<1>1. RegisteredAt(i)
  BY Unharmed DEF RegisteredOK
<1>2. status[i] = "success" => status'[i] = "success"
  BY StaysSuccess
<1>3. QED
  BY <1>1, <1>2, RegisteredKept DEF On

LEMMA RegisteredStep ==
  ASSUME Typed, SoloOK, RegisteredOK, [Next]_vars PROVE RegisteredOK'
<1>1. ASSUME NEW w \in Worker, NEW from, NEW list,
             Takes(w, from, list) \/ Works(w) \/ GiveUp(w)
      PROVE  RegisteredOK'
  <2>1. UNCHANGED <<send, taken>> /\ mishap \subseteq mishap'
    BY <1>1 DEF Takes, Works, GiveUp
  <2>2. QED
    BY <2>1, RestRegistered
<1>2. ASSUME Elsewhere \/ \E i \in Invoice : Report(i) PROVE RegisteredOK'
  <2>1. UNCHANGED <<send, taken>> /\ mishap \subseteq mishap'
    BY <1>2 DEF Elsewhere, OrderArrives, ReprocessNothing, Ask, vars, Report
  <2>2. QED
    BY <2>1, RestRegistered
<1>3. QED
  BY <1>1, <1>2, Kinds, EmitRegistered, AcceptRegistered, AnswersRegistered, OutcomeRegistered,
     UnwrittenRegistered, CrashRegistered DEF Post

LEMMA RegisteredAlways == Spec => [](SoloOK /\ RegisteredOK)
<1>1. Init => RegisteredOK
  BY DEF Init, RegisteredOK, RegisteredAt, Registered
<1>2. QED
  BY <1>1, SoloInit, SoloStep, TypedInit, TypedStep, RegisteredStep, PTL DEF Spec

\* Intelipost gets an invoice under both order numbers only after an answer was
\* lost, a stop, an unwritten outcome, a status written from outside, or two
\* handlers at the invoice.
THEOREM RegisteredOnce == Spec => []RegisteredTwiceOnlyAfterMishap
<1>1. RegisteredOK => RegisteredTwiceOnlyAfterMishap
  BY DEF RegisteredOK, RegisteredAt, RegisteredTwiceOnlyAfterMishap
<1>2. QED
  BY <1>1, RegisteredAlways, PTL

\* An invoice at rest that Intelipost has says so, with the same exceptions.
THEOREM ShippedSays == Spec => []ShippedSaysSo
<1>1. RegisteredOK => ShippedSaysSo
  BY InFlightIs DEF RegisteredOK, RegisteredAt, ShippedSaysSo, AtRest
<1>2. QED
  BY <1>1, RegisteredAlways, PTL
==============================================================================
