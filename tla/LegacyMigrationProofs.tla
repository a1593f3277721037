----------------------- MODULE LegacyMigrationProofs ------------------------
(* Proofs about LegacyMigration: for any collection, any sizes of pages,    *)
(* chunks and batches, any consumers and messages, any number of runs and   *)
(* of failures.                                                             *)
EXTENDS LegacyMigration, FiniteSetTheorems, SequenceTheorems, WellFoundedInduction, TLAPS

------------------------------------------------------------------------------
(* Operators.                                                               *)

\* A wording always gets a status code, if only the unknown one.
Gives(t) == t.micro # "null"

LEMMA TablesAre == \A i \in DOMAIN Tables : Gives(Tables[i])
<1>1. /\ Gives(addressError) /\ Gives(zipCodeNotServiced) /\ Gives(waitingPostOfficePickup)
      /\ Gives(unknownCustomer) /\ Gives(taxStop) /\ Gives(shippmentStolen)
      /\ Gives(shippmentReturning)
  BY DEF Gives, Table, addressError, zipCodeNotServiced, waitingPostOfficePickup, unknownCustomer,
     taxStop, shippmentStolen, shippmentReturning
<1>2. /\ Gives(shippmentReturned) /\ Gives(shippmentLoss) /\ Gives(operationProblem)
      /\ Gives(hubTransfer) /\ Gives(firstDeliveryFailed) /\ Gives(dispatched)
      /\ Gives(deliveryRoute)
  BY DEF Gives, Table, shippmentReturned, shippmentLoss, operationProblem, hubTransfer,
     firstDeliveryFailed, dispatched, deliveryRoute
<1>3. /\ Gives(deliveredSuccess) /\ Gives(damage) /\ Gives(customerRefused)
      /\ Gives(created) /\ Gives(carrierPossession) /\ Gives(awayCustomer)
      /\ Gives(addressNotFound)
  BY DEF Gives, Table, deliveredSuccess, damage, customerRefused, created,
     carrierPossession, awayCustomer, addressNotFound
<1> HIDE DEF Gives
<1>4. DOMAIN Tables = 1 .. 21
  BY DEF Tables
<1>5. \A i \in 1 .. 21 : Gives(Tables[i])
  BY <1>1, <1>2, <1>3 DEF Tables
<1>6. QED
  BY <1>4, <1>5

LEMMA ArrangedIs ==
  ASSUME NEW below, IsFiniteSet(DOMAIN below),
         \A x \in DOMAIN below : below[x] \subseteq DOMAIN below \ {x},
         \A x, y \in DOMAIN below :
           \/ x = y
           \/ below[x] \subseteq below[y] /\ x \in below[y]
           \/ below[y] \subseteq below[x] /\ y \in below[x]
  PROVE  /\ Arranged(below) \in Seq(DOMAIN below)
         /\ Len(Arranged(below)) = Cardinality(DOMAIN below)
         /\ Range(Arranged(below)) = DOMAIN below
         /\ IsInjective(Arranged(below))
<1> DEFINE S == DOMAIN below
           n == Cardinality(S)
           rank == [x \in S |-> Cardinality(below[x])]
<1>1. n \in Nat
  BY FS_CardinalityType
<1>2. ASSUME NEW x \in S
      PROVE  IsFiniteSet(below[x]) /\ rank[x] \in 0 .. n - 1
  <2>1. below[x] \in SUBSET S /\ below[x] # S
    OBVIOUS
  <2>2. IsFiniteSet(below[x]) /\ Cardinality(below[x]) <= n /\ Cardinality(below[x]) # n
    BY <2>1, FS_Subset
  <2>3. Cardinality(below[x]) \in Nat
    BY <2>2, FS_CardinalityType
  <2>4. QED
    BY <1>1, <2>2, <2>3
<1>3. ASSUME NEW x \in S, NEW y \in S, below[x] \subseteq below[y], x \in below[y]
      PROVE  rank[x] < rank[y]
  <2>1. below[x] \in SUBSET below[y] /\ below[x] # below[y]
    BY <1>3
  <2>2. Cardinality(below[x]) <= Cardinality(below[y]) /\ Cardinality(below[x]) # Cardinality(below[y])
    BY <1>2, <2>1, FS_Subset
  <2>3. rank[x] \in Nat /\ rank[y] \in Nat
    BY <1>1, <1>2
  <2>4. QED
    BY <2>2, <2>3
<1>4. rank \in Injection(S, 0 .. n - 1)
  <2>1. rank \in [S -> 0 .. n - 1]
    BY <1>2
  <2>2. ASSUME NEW x \in S, NEW y \in S, rank[x] = rank[y] PROVE x = y
    <3>1. rank[x] \in Int /\ rank[y] \in Int
      BY <1>1, <1>2
    <3> HIDE DEF rank
    <3>2. ~(rank[x] < rank[y]) /\ ~(rank[y] < rank[x])
      BY <2>2, <3>1
    <3>3. QED
      BY <1>3, <3>2
  <2> HIDE DEF rank
  <2>3. QED
    BY <2>1, <2>2 DEF Injection, IsInjective
<1>5. \A i \in 1 .. n : \E x \in S : rank[x] = i - 1
  <2>1. IsFiniteSet(0 .. n - 1) /\ Cardinality(0 .. n - 1) = n
    <3> HIDE DEF n
    <3>1. QED
      BY <1>1, FS_Interval
  <2>2. rank \in Surjection(S, 0 .. n - 1)
    <3> HIDE DEF rank
    <3>1. QED
      BY <1>4, <2>1, FS_Injection
  <2>3. \A r \in 0 .. n - 1 : \E x \in S : rank[x] = r
    BY <2>2 DEF Surjection
  <2>4. \A i \in 1 .. n : i - 1 \in 0 .. n - 1
    BY <1>1
  <2>5. QED
    BY <2>3, <2>4
<1>6. DOMAIN Arranged(below) = 1 .. n
  BY DEF Arranged
<1>7. ASSUME NEW i \in 1 .. n
      PROVE  Arranged(below)[i] \in S /\ rank[Arranged(below)[i]] = i - 1
  <2>1. PICK x \in S : Cardinality(below[x]) = i - 1
    BY <1>5
  <2>2. Arranged(below)[i] = CHOOSE y \in S : Cardinality(below[y]) = i - 1
    BY DEF Arranged
  <2>3. QED
    BY <2>1, <2>2
<1>8. Arranged(below) \in Seq(S) /\ Len(Arranged(below)) = n
  <2>1. Arranged(below) = [i \in 1 .. n |-> Arranged(below)[i]]
    BY DEF Arranged
  <2>2. Arranged(below) \in [1 .. n -> S]
    BY <1>7, <2>1
  <2> HIDE DEF S, n
  <2>3. QED
    BY <1>1, <2>2, SeqDef, LenProperties
<1>9. Range(Arranged(below)) = S
  <2>1. Range(Arranged(below)) \subseteq S
    <3> HIDE DEF S, n, rank
    <3>1. QED
      BY <1>6, <1>7 DEF Range
  <2>2. ASSUME NEW x \in S PROVE x \in Range(Arranged(below))
    <3>1. rank[x] + 1 \in 1 .. n
      BY <1>1, <1>2
    <3>2. rank[Arranged(below)[rank[x] + 1]] = rank[x]
      BY <1>1, <1>2, <1>7, <3>1
    <3>3. Arranged(below)[rank[x] + 1] = x
      <4> HIDE DEF rank
      <4>1. QED
        BY <1>4, <1>7, <3>1, <3>2 DEF Injection, IsInjective
    <3>4. QED
      BY <1>6, <3>1, <3>3 DEF Range
  <2>3. QED
    BY <2>1, <2>2
<1>10. IsInjective(Arranged(below))
  <2>1. \A i, j \in 1 .. n : Arranged(below)[i] = Arranged(below)[j] => i = j
    <3> HIDE DEF rank
    <3>1. \A i, j \in 1 .. n : i - 1 = j - 1 => i = j
      BY <1>1
    <3>2. QED
      BY <1>7, <3>1
  <2>2. QED
    BY <1>6, <2>1 DEF IsInjective
<1>11. QED
  BY <1>8, <1>9, <1>10

\* A set of numbers has a first one.
Smaller == OpToRel(<, Nat)

LEMMA FirstIs == ASSUME NEW S \in SUBSET Nat, S # {} PROVE \E x \in S : \A y \in S : x <= y
<1>1. IsWellFoundedOn(Smaller, Nat)
  BY NatLessThanWellFounded, Zenon DEF Smaller
<1>2. \A x, y \in Nat : <<x, y>> \in Smaller <=> x < y
  BY Zenon DEF Smaller, OpToRel
<1>3. PICK x \in S : \A y \in S : ~ (<<y, x>> \in Smaller)
  BY <1>1, WFMin
<1>4. \A y \in S : ~ (y < x)
  BY <1>2, <1>3
<1>5. QED
  BY <1>4

LEMMA CodeIs == \A status, stat : getStatusCode(status, stat) # NoCode
<1> SUFFICES ASSUME NEW status, NEW stat PROVE getStatusCode(status, stat).micro # "null"
  BY DEF NoCode
<1>1. CASE Listing(status) # {}
  <2>1. Listing(status) \in SUBSET Nat
    <3>1. DOMAIN Tables \subseteq Nat
      BY DEF Tables
    <3>2. QED
      BY <3>1 DEF Listing
  <2> DEFINE first == CHOOSE i \in Listing(status) : \A j \in Listing(status) : i <= j
  <2>2. first \in Listing(status)
    BY <1>1, <2>1, FirstIs
  <2>3. Tables[first].micro # "null"
    BY <2>2, TablesAre DEF Listing, Gives
  <2> HIDE DEF first
  <2>4. getStatusCode(status, stat).micro \in
          {"delivered-success", "dispatched", "invoiced", "", Tables[first].micro}
    BY <1>1 DEF getStatusCode, Unknown, first
  <2>5. QED
    BY <2>3, <2>4
<1>2. CASE Listing(status) = {}
  BY <1>2 DEF getStatusCode, Unknown
<1>3. QED
  BY <1>1, <1>2

------------------------------------------------------------------------------
(* Documents and their histories.                                           *)

IsEntry(e) == DOMAIN e = {"at", "phrase", "code"} /\ e.at \in Nat

IsHistory(h) == h \in Seq(Range(h)) /\ \A i \in DOMAIN h : IsEntry(h[i])

IsDoc(o) ==
  /\ DOMAIN o = {"place", "sale", "bill", "key", "keys", "code", "status", "micro", "history", "updated"}
  /\ IsHistory(o.history) /\ o.updated \in Nat

\* When the occurrences of a history were.
Times(h) == {h[i].at : i \in DOMAIN h}

LEMMA OccurrencesAre ==
  ASSUME NEW o PROVE Occurrences(o) = {<<o.sale, t>> : t \in Times(o.history)}
BY DEF Occurrences, Times, Range

LEMMA RecodeIs ==
  ASSUME NEW e, IsEntry(e), NEW stat
  PROVE  IsEntry(Recode(e, stat)) /\ Recode(e, stat).at = e.at
BY DEF Recode, IsEntry

\* A function on the first numbers is a sequence.
LEMMA IsSequence ==
  ASSUME NEW n \in Nat, NEW g, DOMAIN g = 1 .. n, g = [i \in 1 .. n |-> g[i]]
  PROVE  g \in Seq(Range(g))
<1>1. g \in [1 .. n -> Range(g)]
  BY DEF Range
<1>2. QED
  BY <1>1, SeqDef

\* Entries that take the places of others.
LEMMA Replaced ==
  ASSUME NEW h, IsHistory(h), NEW g, g = [i \in DOMAIN h |-> g[i]],
         \A i \in DOMAIN h : IsEntry(g[i]) /\ g[i].at = h[i].at
  PROVE  IsHistory(g) /\ Times(g) = Times(h)
<1>1. PICK n \in Nat : DOMAIN h = 1 .. n
  BY LenProperties DEF IsHistory
<1>2. DOMAIN g = DOMAIN h
  OBVIOUS
<1>3. g \in Seq(Range(g))
  BY <1>1, <1>2, IsSequence
<1>4. QED
  BY <1>2, <1>3 DEF IsHistory, Times

LEMMA RecodeAllIs ==
  ASSUME NEW h, IsHistory(h), NEW stat
  PROVE  IsHistory(RecodeAll(h, stat)) /\ Times(RecodeAll(h, stat)) = Times(h)
<1>1. RecodeAll(h, stat) = [i \in DOMAIN h |-> Recode(h[i], stat)]
  BY DEF RecodeAll
<1>2. \A i \in DOMAIN h : IsEntry(RecodeAll(h, stat)[i]) /\ RecodeAll(h, stat)[i].at = h[i].at
  BY <1>1, RecodeIs DEF IsHistory
<1>3. RecodeAll(h, stat) = [i \in DOMAIN h |-> RecodeAll(h, stat)[i]]
  BY <1>1
<1>4. QED
  BY <1>2, <1>3, Replaced

\* The history a script makes for a document knows what that one knew.
LEMMA NewHistoryIs ==
  ASSUME NEW o, IsDoc(o)
  PROVE  IsHistory(NewHistory(o)) /\ Times(o.history) \subseteq Times(NewHistory(o))
<1>1. CASE o.history # <<>>
  BY <1>1, RecodeAllIs DEF NewHistory, IsDoc
<1>2. CASE o.history = <<>>
  <2> DEFINE e == [at |-> o.updated, phrase |-> o.micro, code |-> getStatusCode(o.micro, o.status)]
  <2>1. NewHistory(o) = <<e>>
    BY <1>2 DEF NewHistory
  <2>2. IsEntry(e)
    BY DEF IsEntry, IsDoc
  <2> HIDE DEF e
  <2>3. <<e>> \in Seq(Range(<<e>>))
    BY DEF Range
  <2>4. Times(o.history) = {}
    BY <1>2 DEF Times
  <2>5. QED
    BY <2>1, <2>2, <2>3, <2>4 DEF IsHistory
<1>3. QED
  BY <1>1, <1>2

\* The places of a history are finitely many.
LEMMA PlacesFinite ==
  ASSUME NEW D, IsFiniteSet(D), NEW copies, \A d \in D : IsHistory(copies[d].history)
  PROVE  IsFiniteSet(Places(copies, D))
<1> DEFINE Of(d) == {<<d, i>> : i \in DOMAIN copies[d].history}
           f == [d \in D |-> Of(d)]
           T == {Of(d) : d \in D}
<1>1. ASSUME NEW d \in D PROVE IsFiniteSet(Of(d))
  <2>1. PICK n \in Nat : DOMAIN copies[d].history = 1 .. n
    BY LenProperties DEF IsHistory
  <2>2. IsFiniteSet(1 .. n)
    BY FS_Interval
  <2> DEFINE g == [i \in 1 .. n |-> <<d, i>>]
  <2>3. g \in Surjection(1 .. n, Of(d))
    BY <2>1 DEF Surjection
  <2> HIDE DEF g
  <2>4. QED
    BY <2>2, <2>3, FS_Surjection
<1>2. IsFiniteSet(T)
  <2>1. f \in Surjection(D, T)
    BY DEF Surjection
  <2> HIDE DEF f, T
  <2>2. QED
    BY <2>1, FS_Surjection
<1>3. \A t \in T : IsFiniteSet(t)
  BY <1>1
<1>4. IsFiniteSet(UNION T)
  <2> HIDE DEF T
  <2>1. QED
    BY <1>2, <1>3, FS_UNION
<1>5. QED
  BY <1>4 DEF Places

\* The copies come with all that they have recorded.
LEMMA MergedIs ==
  ASSUME NEW D \in SUBSET Nat, IsFiniteSet(D), NEW copies, DOMAIN copies = D,
         \A d \in D : IsHistory(copies[d].history) /\ copies[d].updated \in Nat
  PROVE  /\ IsHistory(MergedHistory(copies))
         /\ Times(MergedHistory(copies)) = UNION {Times(copies[d].history) : d \in D}
<1> DEFINE places == Places(copies, D)
           below == [p \in places |-> {q \in places : Before(copies, q, p)}]
           order == Arranged(below)
           entry(p) == copies[p[1]].history[p[2]]
           time(p) == copies[p[1]].updated
           g == MergedHistory(copies)
<1>1. IsFiniteSet(places)
  BY PlacesFinite
<1>2. \A p \in places : /\ p[1] \in D /\ p[2] \in DOMAIN copies[p[1]].history
                        /\ p[1] \in Nat /\ p[2] \in Nat /\ p = <<p[1], p[2]>>
                        /\ time(p) \in Nat
  <2>1. \A d \in D : DOMAIN copies[d].history \subseteq Nat
    BY LenProperties DEF IsHistory
  <2>2. QED
    BY <2>1 DEF Places
<1>3. \A p \in places : IsEntry(entry(p)) /\ entry(p).at \in Nat
  BY <1>2 DEF IsHistory, IsEntry
<1>4. \A p, q \in places :
        Before(copies, p, q) <=> \/ entry(p).at < entry(q).at
                                 \/ /\ entry(p).at = entry(q).at
                                    /\ \/ time(q) < time(p)
                                       \/ ~(time(p) < time(q)) /\ p[1] < q[1]
                                       \/ p[1] = q[1] /\ p[2] < q[2]
  BY DEF Before
<1>5. \A p \in places : ~Before(copies, p, p)
  BY <1>2, <1>3, <1>4
<1>6. \A p, q \in places : p = q \/ Before(copies, p, q) \/ Before(copies, q, p)
  BY <1>2, <1>3, <1>4
<1>7. \A p, q, r \in places : Before(copies, p, q) /\ Before(copies, q, r) => Before(copies, p, r)
  BY <1>2, <1>3, <1>4
<1>8. /\ order \in Seq(places)
      /\ Range(order) = places
  <2>1. DOMAIN below = places
    OBVIOUS
  <2>2. \A p \in places : below[p] \subseteq places \ {p}
    BY <1>5
  <2>3. \A p, q \in places :
          \/ p = q
          \/ below[p] \subseteq below[q] /\ p \in below[q]
          \/ below[q] \subseteq below[p] /\ q \in below[p]
    BY <1>6, <1>7
  <2> HIDE DEF below, places
  <2>4. QED
    BY <1>1, <2>1, <2>2, <2>3, ArrangedIs
<1>9. g = [n \in DOMAIN order |-> Recode(entry(order[n]), "")]
  BY DEF MergedHistory, MergedFrom
<1> HIDE DEF order, g
<1>10. \A n \in DOMAIN order : order[n] \in places
  BY <1>8 DEF Range
<1>11. \A n \in DOMAIN order : IsEntry(g[n]) /\ g[n].at = entry(order[n]).at
  BY <1>3, <1>9, <1>10, RecodeIs
<1>12. IsHistory(g)
  <2>1. PICK n \in Nat : DOMAIN order = 1 .. n
    BY <1>8, LenProperties
  <2>2. g \in Seq(Range(g))
    BY <1>9, <2>1, IsSequence
  <2>3. QED
    BY <1>9, <1>11, <2>2 DEF IsHistory
<1>13. Times(g) = {entry(p).at : p \in places}
  <2>1. DOMAIN g = DOMAIN order
    BY <1>9
  <2>2. \A p \in places : \E n \in DOMAIN order : order[n] = p
    BY <1>8 DEF Range
  <2>3. ASSUME NEW p \in places PROVE entry(p).at \in Times(g)
    <3>1. PICK n \in DOMAIN order : order[n] = p
      BY <2>2
    <3>2. g[n].at = entry(p).at
      BY <1>11, <3>1
    <3>3. QED
      BY <2>1, <3>2 DEF Times
  <2>4. ASSUME NEW t \in Times(g) PROVE \E p \in places : t = entry(p).at
    <3>1. PICK n \in DOMAIN order : t = g[n].at
      BY <2>1 DEF Times
    <3>2. QED
      BY <1>10, <1>11, <3>1
  <2> HIDE DEF places, entry
  <2>5. QED
    BY <2>3, <2>4
<1>14. {entry(p).at : p \in places} = UNION {Times(copies[d].history) : d \in D}
  <2>1. \A d \in D : \A i \in DOMAIN copies[d].history : <<d, i>> \in places
    BY DEF Places
  <2>2. \A p \in places : entry(p).at \in Times(copies[p[1]].history)
    BY <1>2 DEF Times
  <2>3. ASSUME NEW d \in D, NEW t \in Times(copies[d].history)
        PROVE  t \in {entry(p).at : p \in places}
    <3>1. PICK i \in DOMAIN copies[d].history : t = copies[d].history[i].at
      BY DEF Times
    <3>2. t = entry(<<d, i>>).at
      BY <3>1
    <3>3. QED
      BY <2>1, <3>2
  <2> HIDE DEF places
  <2>4. QED
    BY <1>2, <2>2, <2>3
<1>15. QED
  BY <1>12, <1>13, <1>14 DEF g

------------------------------------------------------------------------------
(* Pages.                                                                   *)

\* The documents of a page are among those it is cut from.
LEMMA SliceIs ==
  ASSUME NEW S, NEW seq \in Seq(S), NEW from \in Nat, NEW count \in Nat
  PROVE  /\ Slice(seq, from, count) \in Seq(S)
         /\ Range(Slice(seq, from, count)) \subseteq Range(seq)
<1> DEFINE to == IF from + count < Len(seq) THEN from + count ELSE Len(seq)
           part == Slice(seq, from, count)
<1>1. to \in Nat /\ to <= Len(seq)
  BY LenProperties
<1>2. part = [i \in 1 .. to - from |-> seq[i + from]]
  BY DEF Slice
<1>3. \A i \in 1 .. to - from : i + from \in 1 .. Len(seq)
  BY <1>1, LenProperties
<1>4. part \in Seq(S)
  <2>1. CASE to - from \in Nat
    BY <1>2, <1>3, <2>1
  <2>2. CASE to - from \notin Nat
    <3>1. 1 .. to - from = 1 .. 0
      BY <1>1, <2>2
    <3>2. QED
      BY <1>2, <3>1
  <2>3. QED
    BY <2>1, <2>2
<1>5. Range(part) \subseteq Range(seq)
  <2>1. DOMAIN part = 1 .. to - from /\ \A i \in 1 .. to - from : part[i] = seq[i + from]
    BY <1>2
  <2>2. DOMAIN seq = 1 .. Len(seq)
    BY LenProperties
  <2> HIDE DEF part, to
  <2>3. QED
    BY <1>3, <2>1, <2>2 DEF Range
<1>6. QED
  BY <1>4, <1>5

\* The first so many, without repetition.
LEMMA PrefixIs ==
  ASSUME NEW S, NEW seq \in Seq(S), IsInjective(seq), NEW count \in Nat
  PROVE  /\ IsFiniteSet(Range(Slice(seq, 0, count)))
         /\ Cardinality(Range(Slice(seq, 0, count))) = IF count < Len(seq) THEN count ELSE Len(seq)
<1> DEFINE n == IF count < Len(seq) THEN count ELSE Len(seq)
           part == Slice(seq, 0, count)
<1>1. n \in Nat /\ n <= Len(seq)
  BY LenProperties
<1>2. part = [i \in 1 .. n |-> seq[i]]
  BY LenProperties DEF Slice
<1>3. part \in Bijection(1 .. n, Range(part))
  <2>1. part \in [1 .. n -> Range(part)]
    BY <1>2 DEF Range
  <2>2. \A i, j \in 1 .. n : part[i] = part[j] => i = j
    BY <1>1, <1>2, LenProperties DEF IsInjective
  <2>3. \A t \in Range(part) : \E i \in 1 .. n : part[i] = t
    BY <1>2 DEF Range
  <2> HIDE DEF n, part
  <2>4. QED
    BY <2>1, <2>2, <2>3 DEF Bijection, Injection, Surjection, IsInjective
<1>4. IsFiniteSet(1 .. n) /\ Cardinality(1 .. n) = n
  <2> HIDE DEF n
  <2>1. QED
    BY <1>1, FS_Interval
<1>5. IsFiniteSet(Range(part)) /\ Cardinality(Range(part)) = n
  <2> HIDE DEF n, part
  <2>1. ExistsBijection(1 .. n, Range(part))
    BY <1>3 DEF ExistsBijection
  <2>2. QED
    BY <1>4, <2>1, FS_Bijection
<1>6. QED
  BY <1>5

\* A chunk and what is left of the page.
LEMMA ChunkIs ==
  ASSUME NEW S, NEW seq \in Seq(S)
  PROVE  /\ SubSeq(seq, Chunk + 1, Len(seq)) \in Seq(S)
         /\ Range(seq) = Range(Slice(seq, 0, Chunk)) \cup Range(SubSeq(seq, Chunk + 1, Len(seq)))
<1>1. Chunk \in Nat /\ Len(seq) \in Nat /\ DOMAIN seq = 1 .. Len(seq)
  BY LenProperties, MigrationAssumption
<1> DEFINE n == IF Chunk < Len(seq) THEN Chunk ELSE Len(seq)
           rest == SubSeq(seq, Chunk + 1, Len(seq))
<1>2. Slice(seq, 0, Chunk) = [i \in 1 .. n |-> seq[i]]
  BY <1>1 DEF Slice
<1>3. rest = [i \in 1 .. Len(seq) - Chunk |-> seq[i + Chunk]]
  BY <1>1
<1>4. \A i \in 1 .. Len(seq) - Chunk : i + Chunk \in 1 .. Len(seq)
  BY <1>1
<1>5. rest \in Seq(S)
  <2>1. PICK m \in Nat : 1 .. Len(seq) - Chunk = 1 .. m
    <3>1. Len(seq) - Chunk \in Nat \/ \A i \in Nat : ~(1 <= i /\ i <= Len(seq) - Chunk)
      BY <1>1
    <3>2. Len(seq) - Chunk \in Nat \/ 1 .. Len(seq) - Chunk = 1 .. 0
      BY <1>1, <3>1
    <3>3. QED
      BY <3>2
  <2> HIDE DEF rest
  <2>2. rest \in [1 .. m -> S]
    <3> DEFINE Set == 1 .. Len(seq) - Chunk
    <3>1. \A i \in Set : seq[i + Chunk] \in S
      BY <1>4, ElementOfSeq
    <3>2. rest = [i \in Set |-> seq[i + Chunk]]
      BY <1>3
    <3> HIDE DEF Set
    <3>3. rest \in [Set -> S]
      BY <3>1, <3>2
    <3>4. Set = 1 .. m
      BY <2>1 DEF Set
    <3>5. QED
      BY <3>3, <3>4
  <2>3. QED
    BY <2>2, SeqDef
<1>6. Range(Slice(seq, 0, Chunk)) \subseteq Range(seq) /\ Range(rest) \subseteq Range(seq)
  <2>1. Range(Slice(seq, 0, Chunk)) \subseteq Range(seq)
    BY <1>1, SliceIs
  <2>2. DOMAIN rest = 1 .. Len(seq) - Chunk /\ \A i \in DOMAIN rest : rest[i] = seq[i + Chunk]
    BY <1>3
  <2> HIDE DEF rest
  <2>3. QED
    BY <1>1, <1>4, <2>1, <2>2 DEF Range
<1>7. ASSUME NEW i \in 1 .. Len(seq)
      PROVE  seq[i] \in Range(Slice(seq, 0, Chunk)) \cup Range(rest)
  <2>1. CASE i <= Chunk
    <3>1. i \in 1 .. n
      BY <1>1, <2>1
    <3>2. QED
      BY <1>2, <3>1 DEF Range
  <2>2. CASE ~(i <= Chunk)
    <3>1. i - Chunk \in 1 .. Len(seq) - Chunk /\ i = (i - Chunk) + Chunk
      BY <1>1, <2>2
    <3>2. rest[i - Chunk] = seq[i] /\ i - Chunk \in DOMAIN rest
      BY <1>3, <3>1
    <3>3. QED
      BY <3>2 DEF Range
  <2>3. QED
    BY <2>1, <2>2
<1>8. Range(seq) \subseteq Range(Slice(seq, 0, Chunk)) \cup Range(rest)
  BY <1>1, <1>7 DEF Range
<1>9. QED
  BY <1>5, <1>6, <1>8

\* Documents in their order.
LEMMA InOrderIs ==
  ASSUME NEW S \in SUBSET Nat, IsFiniteSet(S)
  PROVE  /\ InOrder(S) \in Seq(S) /\ Len(InOrder(S)) = Cardinality(S)
         /\ Range(InOrder(S)) = S /\ IsInjective(InOrder(S))
<1> DEFINE below == [d \in S |-> {e \in S : e < d}]
<1>1. DOMAIN below = S
  OBVIOUS
<1>2. \A d \in S : below[d] \subseteq S \ {d}
  OBVIOUS
<1>3. \A d, e \in S : \/ d = e
                      \/ below[d] \subseteq below[e] /\ d \in below[e]
                      \/ below[e] \subseteq below[d] /\ e \in below[d]
  <2>1. ASSUME NEW d \in S, NEW e \in S, d < e
        PROVE  below[d] \subseteq below[e] /\ d \in below[e]
    <3>1. below[d] = {x \in S : x < d} /\ below[e] = {x \in S : x < e}
      OBVIOUS
    <3>2. \A x \in S : x < d => x < e
      BY <2>1
    <3>3. QED
      BY <2>1, <3>1, <3>2
  <2>2. \A d, e \in S : d = e \/ d < e \/ e < d
    OBVIOUS
  <2>3. QED
    BY <2>1, <2>2
<1>4. InOrder(S) = Arranged(below)
  BY DEF InOrder
<1> HIDE DEF below
<1>5. /\ Arranged(below) \in Seq(DOMAIN below)
      /\ Len(Arranged(below)) = Cardinality(DOMAIN below)
      /\ Range(Arranged(below)) = DOMAIN below
      /\ IsInjective(Arranged(below))
  BY <1>1, <1>2, <1>3, ArrangedIs
<1>6. QED
  BY <1>1, <1>4, <1>5

------------------------------------------------------------------------------
(* Histories that the scripts and the consumers make.                       *)

LEMMA CodedIs ==
  ASSUME NEW h, IsHistory(h)
  PROVE  IsHistory(Coded(h)) /\ Times(Coded(h)) = Times(h)
<1>1. PICK g : g = Coded(h)
  OBVIOUS
<1>2. /\ g = [i \in DOMAIN h |-> g[i]]
      /\ \A i \in DOMAIN h : g[i] \in {h[i], Recode(h[i], "")}
  BY <1>1 DEF Coded
<1>3. \A i \in DOMAIN h : IsEntry(g[i]) /\ g[i].at = h[i].at
  BY <1>2, RecodeIs DEF IsHistory
<1>4. QED
  BY <1>1, <1>2, <1>3, Replaced

LEMMA AppendIs ==
  ASSUME NEW h, IsHistory(h), NEW e, IsEntry(e)
  PROVE  IsHistory(Append(h, e)) /\ Times(Append(h, e)) = Times(h) \cup {e.at}
<1> DEFINE n == Len(h)
<1>1. PICK g : g = Append(h, e)
  OBVIOUS
<1>2. h \in Seq(Range(h)) /\ \A i \in DOMAIN h : IsEntry(h[i])
  BY DEF IsHistory
<1>3. n \in Nat /\ DOMAIN h = 1 .. n
  BY <1>2, LenProperties
<1>4. h \in Seq(Range(h) \cup {e})
  BY <1>2, SeqMonotonic
<1>5. /\ g \in Seq(Range(h) \cup {e}) /\ Len(g) = n + 1
      /\ \A i \in 1 .. n : g[i] = h[i]
      /\ g[n + 1] = e
  BY <1>1, <1>4, AppendProperties
<1>6. DOMAIN g = 1 .. n + 1 /\ g = [i \in 1 .. n + 1 |-> g[i]]
  BY <1>5, LenProperties
<1> HIDE DEF n
<1>7. n + 1 \in Nat /\ \A i \in 1 .. n + 1 : i \in 1 .. n \/ i = n + 1
  BY <1>3
<1>8. g \in Seq(Range(g))
  BY <1>6, <1>7, IsSequence
<1>9. \A i \in 1 .. n + 1 : IsEntry(g[i])
  BY <1>2, <1>3, <1>5, <1>7
<1>10. Times(g) = Times(h) \cup {e.at}
  <2>1. ASSUME NEW t \in Times(g) PROVE t \in Times(h) \cup {e.at}
    BY <1>3, <1>5, <1>6, <1>7 DEF Times
  <2>2. ASSUME NEW t \in Times(h) PROVE t \in Times(g)
    <3>1. PICK i \in 1 .. n : t = h[i].at
      BY <1>3 DEF Times
    <3>2. i \in 1 .. n + 1 /\ g[i] = h[i]
      BY <1>3, <1>5
    <3>3. QED
      BY <1>6, <3>1, <3>2 DEF Times
  <2>3. e.at \in Times(g)
    <3>1. n + 1 \in 1 .. n + 1
      BY <1>3
    <3>2. QED
      BY <1>5, <1>6, <3>1 DEF Times
  <2>4. QED
    BY <2>1, <2>2, <2>3
<1>11. QED
  BY <1>1, <1>6, <1>8, <1>9, <1>10 DEF IsHistory

LEMMA ScaleIs == \A code : Scale(code) \in Nat
BY DEF Scale, Status!getStatusScale

\* What is sorted stays what it is.
LEMMA SortedIs ==
  ASSUME NEW h, IsHistory(h)
  PROVE  IsHistory(Sorted(h)) /\ Times(Sorted(h)) = Times(h)
<1>1. PICK n \in Nat : DOMAIN h = 1 .. n
  BY LenProperties DEF IsHistory
<1> DEFINE S == 1 .. n
           first(i, j) == \/ Scale(h[j].code) < Scale(h[i].code)
                          \/ Scale(h[j].code) = Scale(h[i].code) /\ j < i
           below == [i \in S |-> {j \in S : first(i, j)}]
           order == Arranged(below)
<1>2. IsFiniteSet(S)
  BY FS_Interval
<1>3. \A i, j \in S : Scale(h[i].code) \in Nat /\ Scale(h[j].code) \in Nat /\ i \in Nat /\ j \in Nat
  BY ScaleIs
<1>4. /\ \A i \in S : ~first(i, i)
      /\ \A i, j \in S : i = j \/ first(i, j) \/ first(j, i)
      /\ \A i, j, k \in S : first(i, j) /\ first(j, k) => first(i, k)
  BY <1>3
<1>5. /\ order \in Seq(S) /\ Range(order) = S
  <2> HIDE DEF first, S
  <2>1. DOMAIN below = S
    OBVIOUS
  <2>2. \A i \in S : below[i] \subseteq S \ {i}
    BY <1>4
  <2>3. \A i, j \in S : \/ i = j
                        \/ below[i] \subseteq below[j] /\ i \in below[j]
                        \/ below[j] \subseteq below[i] /\ j \in below[i]
    BY <1>4
  <2> HIDE DEF below
  <2>4. QED
    BY <1>2, <2>1, <2>2, <2>3, ArrangedIs
<1>6. Sorted(h) = [k \in DOMAIN order |-> h[order[k]]]
  BY <1>1 DEF Sorted
<1>7. PICK g : g = Sorted(h)
  OBVIOUS
<1> HIDE DEF order
<1>8. PICK m \in Nat : DOMAIN order = 1 .. m
  BY <1>5, LenProperties
<1>9. \A k \in 1 .. m : order[k] \in S
  BY <1>5, <1>8 DEF Range
<1>10. DOMAIN g = 1 .. m /\ g = [k \in 1 .. m |-> g[k]] /\ \A k \in 1 .. m : g[k] = h[order[k]]
  BY <1>6, <1>7, <1>8
<1>11. g \in Seq(Range(g))
  BY <1>10, IsSequence
<1>12. \A k \in 1 .. m : IsEntry(g[k])
  BY <1>1, <1>9, <1>10 DEF IsHistory
<1>13. Times(g) = Times(h)
  <2>1. ASSUME NEW t \in Times(g) PROVE t \in Times(h)
    BY <1>1, <1>9, <1>10 DEF Times
  <2>2. ASSUME NEW t \in Times(h) PROVE t \in Times(g)
    <3>1. PICK i \in S : t = h[i].at
      BY <1>1 DEF Times
    <3>2. PICK k \in 1 .. m : order[k] = i
      BY <1>5, <1>8 DEF Range
    <3>3. QED
      BY <1>10, <3>1, <3>2 DEF Times
  <2>3. QED
    BY <2>1, <2>2
<1>14. QED
  BY <1>7, <1>10, <1>11, <1>12, <1>13 DEF IsHistory

------------------------------------------------------------------------------
(* What holds of the documents, the script, its jobs and the consumers.     *)

DocsOK ==
  /\ docs = [d \in Doc |-> docs[d]] /\ Bills(docs) \subseteq billed
  /\ \A d \in Doc : IsDoc(docs[d])

\* What the script holds of a document was read when it was stored.
Read(seen, doc) ==
  /\ IsDoc(seen) /\ seen.place = "stored" /\ <<seen.sale, seen.bill>> \in billed
  /\ doc.place # "free" /\ seen.sale = doc.sale

\* Documents that are or were stored, of one sale.
Copies(ids, s) == ids \subseteq Doc /\ \A e \in ids : docs[e].place # "free" /\ docs[e].sale = s

ScriptOK ==
  /\ DOMAIN script = DOMAIN NoScript /\ script.page \in Nat
  /\ script.kind \in {"none", "history"} => Quiet
  /\ DOMAIN script.seen \subseteq Doc /\ script.queue \in Seq(DOMAIN script.seen)
  /\ \A d \in DOMAIN script.seen : Read(script.seen[d], docs[d])
  /\ \A g \in script.groups : g # {} /\ \A d \in g : Copies(g, docs[d].sale)

\* A merge: its copies are of one sale, the latest survives, and the merged
\* document has what was read of them.
MergeOK(j) ==
  /\ IsDoc(j.to) /\ j.to.place = "stored" /\ j.to.code # NoCode /\ j.to.key = InvoiceKey(j.to)
  /\ <<j.to.sale, j.to.bill>> \in billed
  /\ Copies(j.ids, j.to.sale) /\ j.survivor \in j.ids /\ j.delete = j.ids \ {j.survivor}
  /\ \A r \in j.read : r.sale = j.to.sale /\ Times(r.history) \subseteq Times(j.to.history)
  /\ docs[j.survivor].place = "stored" \/ j.to.sale \in crossed
  /\ j.st = "save" => \A e \in j.delete : docs[e].place = "deleted"

JobOK(d) ==
  /\ DOMAIN jobs[d] = DOMAIN NoJob
  /\ jobs[d].st = "update" => d \in DOMAIN script.seen
  /\ jobs[d].st = "find" => docs[d].place # "free" /\ Copies(jobs[d].ids, docs[d].sale)
  /\ Merging(d) => MergeOK(jobs[d])

JobsOK == jobs = [d \in Doc |-> jobs[d]] /\ \A d \in Doc : JobOK(d)

Types == DocsOK /\ ScriptOK /\ JobsOK

\* A consumer that is about to update holds a document with a code.
ConsumerOK(k) ==
  /\ k.st \in {"free", "create", "update", "updateMany"}
  /\ k.st # "free" => k.msg \in Messages
  /\ k.st \in {"update", "updateMany"} => IsDoc(k.seen) /\ k.seen.code # NoCode

ConsumersOK == consumers = [c \in Consumer |-> consumers[c]] /\ \A c \in Consumer : ConsumerOK(consumers[c])

------------------------------------------------------------------------------
(* Steps that leave most of it alone.                                       *)

\* A document that is there keeps its sale; one that is deleted stays so.
Keeps ==
  \A d \in Doc : docs[d].place # "free" =>
    /\ docs'[d].place # "free" /\ docs'[d].sale = docs[d].sale
    /\ docs[d].place = "deleted" => docs'[d].place = "deleted"

Stays == \A d \in Doc : docs[d].place = "stored" => docs'[d].place = "stored"

\* No document is taken away.
NoneGoes == \A d \in Doc : docs'[d].place = "deleted" => docs[d].place = "deleted"

Grows == crossed \subseteq crossed' /\ billed \subseteq billed'

\* An order of the package's sale bills another package first.
Rebilled(p) == \E b \in billed : b[1] = p[1] /\ b[2] # p[2]

\* A document is written over another, or over a free one.
Rewritten(old, new) ==
  /\ IsDoc(new) /\ new.place = "stored" /\ old.place # "deleted"
  /\ old.place # "free" => new.sale = old.sale

\* What was read of the document is in the one that is written, and so is its
\* key unless another one is billed.
Follows(old, new, r) ==
  /\ Times(old.history) \cap Times(r.history) \subseteq Times(new.history)
  /\ old.key \notin {NoKey, Blank} /\ Package(old) = Package(r) =>
       new.key = old.key \/ Rebilled(Package(old))

\* Documents are written by who read these.
Writes(read) ==
  /\ Write(docs', read) /\ docs' = [d \in Doc |-> docs'[d]]
  /\ \A d \in Doc : \/ docs'[d] = docs[d]
                    \/ /\ Rewritten(docs[d], docs'[d])
                       /\ \A r \in read : Follows(docs[d], docs'[d], r)

\* One document is.
WritesOne(d, o, read) ==
  /\ Write([docs EXCEPT ![d] = o], read)
  /\ Rewritten(docs[d], o) /\ \A r \in read : Follows(docs[d], o, r)

LEMMA OneWritten ==
  ASSUME DocsOK, NEW d \in Doc, NEW o, NEW read, WritesOne(d, o, read)
  PROVE  Writes(read) /\ docs'[d] = o /\ \A e \in Doc \ {d} : docs'[e] = docs[e]
<1>1. docs' = [docs EXCEPT ![d] = o] /\ docs = [e \in Doc |-> docs[e]]
  BY DEF WritesOne, Write, DocsOK
<1>2. docs'[d] = o /\ (\A e \in Doc \ {d} : docs'[e] = docs[e]) /\ docs' = [e \in Doc |-> docs'[e]]
  BY <1>1
<1>3. Write(docs', read)
  BY <1>1 DEF WritesOne
<1>4. QED
  BY <1>2, <1>3 DEF Writes, WritesOne

\* The document is not written after all.
LEMMA NoneWritten ==
  ASSUME DocsOK, NEW read, Write(docs, read) PROVE Writes(read) /\ docs' = docs
<1>1. docs' = docs
  BY DEF Write
<1>2. QED
  BY <1>1 DEF Writes, DocsOK

LEMMA WritesIs ==
  ASSUME DocsOK, NEW read, Writes(read)
  PROVE  DocsOK' /\ Keeps /\ Stays /\ NoneGoes /\ billed \subseteq billed'
<1>1. billed' = billed \cup Bills(docs')
  BY DEF Writes, Write
<1>2. \A d \in Doc : docs'[d] = docs[d] \/ Rewritten(docs[d], docs'[d])
  BY DEF Writes
<1>3. \A d \in Doc : IsDoc(docs'[d])
  BY <1>2 DEF DocsOK, Rewritten
<1>4. DocsOK'
  BY <1>1, <1>3 DEF DocsOK, Writes
<1>5. ASSUME NEW d \in Doc
      PROVE  /\ docs[d].place # "free" =>
                  /\ docs'[d].place # "free" /\ docs'[d].sale = docs[d].sale
                  /\ docs[d].place = "deleted" => docs'[d].place = "deleted"
             /\ docs[d].place = "stored" => docs'[d].place = "stored"
             /\ docs'[d].place = "deleted" => docs[d].place = "deleted"
  <2>1. CASE docs'[d] = docs[d]
    BY <2>1
  <2>2. CASE Rewritten(docs[d], docs'[d])
    BY <2>2 DEF Rewritten
  <2>3. QED
    BY <1>2, <2>1, <2>2
<1>6. QED
  BY <1>1, <1>4, <1>5 DEF Keeps, Stays, NoneGoes

LEMMA SameDocs == ASSUME docs' = docs PROVE Keeps /\ Stays /\ NoneGoes
BY DEF Keeps, Stays, NoneGoes

\* The documents are left alone, and so is all that is known of them.
Untouched == UNCHANGED <<docs, known, billed, events, excused, displaced, crossed, cut>>

LEMMA UntouchedIs ==
  ASSUME DocsOK, Untouched PROVE DocsOK' /\ Keeps /\ Stays /\ NoneGoes /\ Grows
<1>1. docs' = docs /\ billed' = billed /\ crossed' = crossed
  BY DEF Untouched
<1>2. QED
  BY <1>1, SameDocs DEF DocsOK, Bills, Stored, Grows

\* A script that goes on from the same reading.
GoesOn ==
  /\ DOMAIN script' = DOMAIN NoScript /\ script'.page \in Nat
  /\ script'.kind = script.kind /\ script'.seen = script.seen
  /\ script'.groups \subseteq script.groups
  /\ script'.queue \in Seq(DOMAIN script.seen) /\ Range(script'.queue) \subseteq Range(script.queue)

LEMMA CopiesStay ==
  ASSUME Keeps, NEW ids, NEW s, Copies(ids, s) PROVE Copies(ids, s)'
BY DEF Copies, Keeps

LEMMA GoesOnIs ==
  ASSUME ScriptOK, Keeps, Grows, GoesOn, script.kind \in {"none", "history"} => Quiet'
  PROVE  ScriptOK'
<1>1. /\ DOMAIN script' = DOMAIN NoScript /\ script'.page \in Nat
      /\ script'.kind \in {"none", "history"} => Quiet'
      /\ DOMAIN script'.seen \subseteq Doc /\ script'.queue \in Seq(DOMAIN script'.seen)
  BY DEF ScriptOK, GoesOn
<1>2. \A d \in DOMAIN script'.seen : Read(script.seen[d], docs[d])'
  BY DEF ScriptOK, GoesOn, Keeps, Read, Grows
<1>3. ASSUME NEW g \in script'.groups, NEW d \in g PROVE Copies(g, docs[d].sale)'
  <2>1. PICK s : s = docs[d].sale
    OBVIOUS
  <2>2. Copies(g, s) /\ d \in Doc
    BY <1>3, <2>1 DEF ScriptOK, GoesOn, Copies
  <2>3. Copies(g, s)'
    BY <2>2, CopiesStay
  <2>4. docs'[d].sale = s
    BY <1>3, <2>3 DEF Copies
  <2>5. QED
    BY <2>3, <2>4 DEF Copies
<1>4. \A g \in script'.groups : g # {}
  BY DEF ScriptOK, GoesOn
<1>5. QED
  BY <1>1, <1>2, <1>3, <1>4 DEF ScriptOK

LEMMA SameScript ==
  ASSUME ScriptOK, script' = script PROVE GoesOn
BY DEF ScriptOK, GoesOn

\* A job that is not touched.
LEMMA JobStays ==
  ASSUME NEW d \in Doc, JobOK(d), jobs'[d] = jobs[d], Keeps, Grows,
         jobs[d].st = "update" => script'.seen = script.seen,
         Merging(d) => \/ docs[jobs[d].survivor].place # "stored"
                       \/ docs'[jobs[d].survivor].place = "stored"
                       \/ jobs[d].to.sale \in crossed'
  PROVE  JobOK(d)'
<1>1. DOMAIN jobs'[d] = DOMAIN NoJob
  BY DEF JobOK
<1>2. jobs'[d].st = "update" => d \in DOMAIN script'.seen
  BY DEF JobOK
<1>3. ASSUME jobs'[d].st = "find" PROVE docs'[d].place # "free" /\ Copies(jobs[d].ids, docs[d].sale)'
  <2>1. docs[d].place # "free" /\ Copies(jobs[d].ids, docs[d].sale)
    BY <1>3 DEF JobOK
  <2>2. docs'[d].place # "free" /\ docs'[d].sale = docs[d].sale
    BY <2>1 DEF Keeps
  <2>3. PICK ids, s : ids = jobs[d].ids /\ s = docs[d].sale
    OBVIOUS
  <2>4. Copies(ids, s)'
    BY <2>1, <2>3, CopiesStay
  <2>5. jobs'[d].ids = ids /\ docs'[d].sale = s
    BY <2>2, <2>3
  <2>6. QED
    BY <2>2, <2>4, <2>5
<1>4. ASSUME Merging(d) PROVE MergeOK(jobs[d])'
  <2>1. PICK j : j = jobs[d]
    OBVIOUS
  <2>2. MergeOK(j) /\ Merging(d)
    BY <1>4, <2>1 DEF JobOK
  <2>3. Copies(j.ids, j.to.sale)'
    BY <2>2, CopiesStay DEF MergeOK
  <2>4. docs'[j.survivor].place = "stored" \/ j.to.sale \in crossed'
    BY <2>1, <2>2 DEF MergeOK, Grows
  <2>5. j.st = "save" => \A e \in j.delete : docs'[e].place = "deleted"
    BY <2>2 DEF MergeOK, Keeps, Copies
  <2>6. <<j.to.sale, j.to.bill>> \in billed'
    BY <2>2 DEF MergeOK, Grows
  <2>7. MergeOK(j)'
    BY <2>2, <2>3, <2>4, <2>5, <2>6 DEF MergeOK
  <2>8. QED
    BY <2>1, <2>7
<1>5. QED
  BY <1>1, <1>2, <1>3, <1>4 DEF JobOK, Merging

LEMMA NoJobOK ==
  ASSUME NEW d \in Doc, jobs'[d] = NoJob PROVE JobOK(d)'
BY DEF JobOK, NoJob, Merging

\* One job is taken a step further, the others are not touched.
LEMMA OneJob ==
  ASSUME JobsOK, NEW d \in Doc, NEW j, Job(d, j), Keeps, Stays, Grows, script'.seen = script.seen,
         JobOK(d)'
  PROVE  JobsOK'
<1>1. jobs' = [e \in Doc |-> jobs'[e]] /\ \A e \in Doc \ {d} : jobs'[e] = jobs[e]
  BY DEF JobsOK, Job
<1>2. \A e \in Doc \ {d} : JobOK(e)'
  <2> TAKE e \in Doc \ {d}
  <2>1. JobOK(e) /\ jobs'[e] = jobs[e] /\ e \in Doc
    BY <1>1 DEF JobsOK
  <2>2. Merging(e) => jobs[e].survivor \in Doc
    BY <2>1 DEF JobOK, MergeOK, Copies
  <2>3. QED
    BY <2>1, <2>2, JobStays DEF Stays
<1>3. QED
  BY <1>1, <1>2 DEF JobsOK

LEMMA SameJobs ==
  ASSUME JobsOK, jobs' = jobs, Keeps, Stays, Grows, script'.seen = script.seen \/ Quiet
  PROVE  JobsOK'
<1>1. \A d \in Doc : JobOK(d)'
  <2> TAKE d \in Doc
  <2>1. JobOK(d) /\ jobs'[d] = jobs[d]
    BY DEF JobsOK
  <2>2. Merging(d) => jobs[d].survivor \in Doc
    BY <2>1 DEF JobOK, MergeOK, Copies
  <2>3. Quiet => jobs[d].st # "update"
    BY DEF Quiet, NoJob
  <2>4. QED
    BY <2>1, <2>2, <2>3, JobStays DEF Stays
<1>2. QED
  BY <1>1 DEF JobsOK

LEMMA NoJobs ==
  ASSUME jobs' = [d \in Doc |-> NoJob] PROVE JobsOK' /\ Quiet'
<1>1. \A d \in Doc : jobs'[d] = NoJob
  OBVIOUS
<1>2. QED
  BY <1>1, NoJobOK DEF JobsOK, Quiet

LEMMA NoJobNext == ASSUME JobsOK, NEW d \in Doc, Job(d, NoJob) PROVE JobOK(d)'
<1>1. jobs'[d] = NoJob
  BY DEF JobsOK, Job
<1>2. QED
  BY <1>1, NoJobOK

------------------------------------------------------------------------------
(* Every step preserves the types.                                          *)

LEMMA InitTypes == Init => Types /\ ConsumersOK
<1> SUFFICES ASSUME Init PROVE Types /\ ConsumersOK
  OBVIOUS
<1>1. PICK s \in Scenarios : docs = s.docs
  BY DEF Init
<1>2. docs \in [Doc -> Order]
  BY <1>1, ScenarioAssumption
<1>3. \A d \in Doc : IsDoc(docs[d])
  <2> TAKE d \in Doc
  <2>1. docs[d] \in Order
    BY <1>2
  <2> DEFINE o == docs[d]
             h == docs[d].history
  <2>2. /\ DOMAIN o = {"place", "sale", "bill", "key", "keys", "code", "status", "micro", "history", "updated"}
        /\ h \in Seq(Entry) /\ o.updated \in Nat
    BY <2>1 DEF Order
  <2>3. \A i \in DOMAIN h : h[i] \in Entry
    BY <2>2, ElementOfSeq, LenProperties
  <2>4. \A i \in DOMAIN h : IsEntry(h[i])
    BY <2>3 DEF Entry, IsEntry
  <2>5. h \in Seq(Range(h))
    <3>1. PICK n \in Nat : DOMAIN h = 1 .. n
      BY <2>2, LenProperties
    <3>2. h = [i \in 1 .. n |-> h[i]]
      BY <2>2, <3>1
    <3>3. QED
      BY <3>1, <3>2, IsSequence
  <2>6. QED
    BY <2>2, <2>4, <2>5 DEF IsDoc, IsHistory
<1>4. DocsOK
  BY <1>2, <1>3 DEF DocsOK, Init
<1>5. script = NoScript /\ jobs = [d \in Doc |-> NoJob]
  BY DEF Init
<1>6. Quiet
  BY <1>5 DEF Quiet
<1>7. ScriptOK
  <2>1. <<>> \in Seq(DOMAIN <<>>) /\ DOMAIN <<>> = {} /\ Range(<<>>) = {}
    BY DEF Range
  <2>2. QED
    BY <1>5, <1>6, <2>1 DEF ScriptOK, NoScript
<1>8. JobsOK
  BY <1>5 DEF JobsOK, JobOK, NoJob, Merging
<1>9. ConsumersOK
  <2>1. consumers = [c \in Consumer |-> Free]
    BY DEF Init
  <2>2. QED
    BY <2>1 DEF ConsumersOK, ConsumerOK, Free
<1>10. QED
  BY <1>4, <1>7, <1>8, <1>9 DEF Types

\* The start of a script finds no job of an earlier one.
Begins(kind) ==
  /\ script.kind = "none"
  /\ DOMAIN script' = DOMAIN NoScript /\ script'.kind = kind /\ script'.page = 0
  /\ script'.seen = <<>> /\ script'.queue = <<>> /\ script'.failed = {}
  /\ script'.counted = IF kind = "structure" THEN Codeless(docs) ELSE {}
  /\ jobs' = jobs /\ Untouched

LEMMA BeginTypes ==
  ASSUME Types, NEW kind, Begins(kind),
         \A g \in script'.groups : g # {} /\ \A d \in g : Copies(g, docs[d].sale)
  PROVE  Types'
<1>1. Quiet /\ Quiet' /\ docs' = docs
  BY DEF Types, ScriptOK, Begins, Quiet, Untouched
<1>2. DocsOK' /\ Keeps /\ Stays /\ Grows
  BY UntouchedIs DEF Types, Begins
<1>3. ScriptOK'
  <2>1. <<>> \in Seq(DOMAIN <<>>) /\ DOMAIN <<>> = {} /\ Range(<<>>) = {}
    BY DEF Range
  <2>2. \A g \in script'.groups : g # {} /\ \A d \in g : Copies(g, docs[d].sale)'
    BY <1>1 DEF Copies
  <2>3. QED
    BY <1>1, <2>1, <2>2 DEF ScriptOK, Begins
<1>4. JobsOK'
  BY <1>1, <1>2, SameJobs DEF Types, Begins
<1>5. QED
  BY <1>2, <1>3, <1>4 DEF Types

LEMMA StructureBegins == updateStructureOrders => Begins("structure")
BY DEF updateStructureOrders, Begins, NoScript, Untouched, ledger

LEMMA DuplicatesBegins == updateDuplicateOrders => Begins("duplicates")
BY DEF updateDuplicateOrders, Begins, NoScript, Untouched, ledger

LEMMA HistoryBegins == pag => Begins("history")
BY DEF pag, Begins, NoScript, Untouched, ledger

LEMMA StructureTypes == ASSUME Types, updateStructureOrders PROVE Types'
<1>1. script'.groups = {}
  BY DEF updateStructureOrders, NoScript
<1>2. QED
  BY <1>1, StructureBegins, BeginTypes

LEMMA HistoryTypes == ASSUME Types, pag PROVE Types'
<1>1. script'.groups = {}
  BY DEF pag, NoScript
<1>2. QED
  BY <1>1, HistoryBegins, BeginTypes

LEMMA DuplicatesTypes == ASSUME Types, updateDuplicateOrders PROVE Types'
<1> DEFINE group(d) == {e \in Stored(docs) : SameOrder(d, e)}
           groups == {g \in {group(d) : d \in Stored(docs)} : Cardinality(g) > 1}
<1>1. script'.groups = groups
  BY DEF updateDuplicateOrders, NoScript
<1>2. ASSUME NEW g \in groups PROVE g # {} /\ \A d \in g : Copies(g, docs[d].sale)
  <2>1. PICK d \in Stored(docs) : g = group(d)
    BY <1>2
  <2>2. d \in group(d)
    BY DEF SameOrder
  <2>3. QED
    BY <2>1, <2>2 DEF SameOrder, Stored, Copies
<1>3. QED
  BY <1>1, <1>2, DuplicatesBegins, BeginTypes

\* No script goes on when one is finished or stopped.
LEMMA EndTypes ==
  ASSUME Types, script' = NoScript, Quiet', JobsOK', DocsOK'
  PROVE  Types'
<1>1. ScriptOK'
  <2>1. <<>> \in Seq(DOMAIN <<>>) /\ DOMAIN <<>> = {} /\ Range(<<>>) = {}
    BY DEF Range
  <2>2. QED
    BY <2>1 DEF ScriptOK, NoScript
<1>2. QED
  BY <1>1 DEF Types

LEMMA FinishTypes == ASSUME Types, Finish PROVE Types'
<1>1. script' = NoScript /\ Quiet /\ Untouched /\ jobs' = jobs
  BY DEF Finish, Untouched, ledger
<1>2. Quiet'
  BY <1>1 DEF Quiet
<1>3. DocsOK' /\ JobsOK'
  BY <1>1, UntouchedIs, SameJobs DEF Types
<1>4. QED
  BY <1>1, <1>2, <1>3, EndTypes

\* A merge does not go on.
Halted == UNCHANGED <<docs, known, billed, events, displaced, crossed>>

LEMMA HaltedIs ==
  ASSUME DocsOK, Halted PROVE DocsOK' /\ Keeps /\ Stays /\ NoneGoes /\ Grows
<1>1. docs' = docs /\ billed' = billed /\ crossed' = crossed
  BY DEF Halted
<1>2. QED
  BY <1>1, SameDocs DEF DocsOK, Bills, Stored, Grows

LEMMA StopTypes == ASSUME Types, Stop PROVE Types'
<1>1. script' = NoScript /\ jobs' = [d \in Doc |-> NoJob] /\ Halted
  BY DEF Stop, Halted, Interrupt
<1>2. DocsOK'
  BY <1>1, HaltedIs DEF Types
<1>3. QED
  BY <1>1, <1>2, NoJobs, EndTypes

\* A page or batch is read: of some of the stored documents.
Reads(S) ==
  /\ S \subseteq Stored(docs) /\ script.queue = <<>>
  /\ DOMAIN script' = DOMAIN NoScript /\ script'.kind = script.kind /\ script'.page = script.page + 1
  /\ script'.groups = script.groups /\ script'.counted = script.counted
  /\ script'.pages = script.pages /\ script'.aborted = script.aborted /\ script'.failed = script.failed
  /\ script'.queue \in Seq(S)
  /\ script'.seen = [d \in Range(script'.queue) |-> docs[d]]
  /\ jobs' = jobs /\ Untouched

LEMMA CutFrom ==
  ASSUME NEW S \in SUBSET Doc, NEW from \in Nat, NEW count \in Nat
  PROVE  Slice(InOrder(S), from, count) \in Seq(S)
<1>1. S \in SUBSET Nat /\ IsFiniteSet(S)
  BY FS_Subset, MigrationAssumption
<1>2. InOrder(S) \in Seq(S)
  BY <1>1, InOrderIs
<1>3. QED
  BY <1>2, SliceIs

LEMMA ReadPageReads == ASSUME Types, ReadPage PROVE Reads(Codeless(docs)) /\ Quiet /\ script.kind = "structure"
<1> DEFINE page == Slice(InOrder(Codeless(docs)), script.page * Size, Size)
<1>1. DOMAIN script = DOMAIN NoScript /\ script.page \in Nat /\ Size \in Nat
  BY MigrationAssumption DEF Types, ScriptOK
<1>2. script.page * Size \in Nat
  BY <1>1
<1>3. page \in Seq(Codeless(docs))
  BY <1>1, <1>2, CutFrom DEF Codeless, Stored
<1>4. script' = [script EXCEPT !.page = @ + 1, !.queue = page, !.seen = [d \in Range(page) |-> docs[d]]]
  BY DEF ReadPage
<1>5. Codeless(docs) \subseteq Stored(docs)
  BY DEF Codeless
<1>6. script.queue = <<>> /\ Quiet /\ script.kind = "structure" /\ jobs' = jobs /\ Untouched
  BY DEF ReadPage, Untouched, ledger
<1> HIDE DEF page
<1>7. /\ DOMAIN script' = DOMAIN NoScript /\ script'.kind = script.kind /\ script'.page = script.page + 1
      /\ script'.groups = script.groups /\ script'.counted = script.counted
      /\ script'.pages = script.pages /\ script'.aborted = script.aborted /\ script'.failed = script.failed
      /\ script'.queue = page /\ script'.seen = [d \in Range(page) |-> docs[d]]
  BY <1>1, <1>4 DEF NoScript
<1>8. QED
  BY <1>3, <1>5, <1>6, <1>7 DEF Reads

LEMMA ReadBatchReads ==
  ASSUME Types, ReadBatch
  PROVE  Quiet /\ script.kind = "history" /\ \E S : Reads(S)
<1>1. PICK S \in Uncoded(docs) :
        LET page == Slice(InOrder(S), 0, Limit)
        IN script' = [script EXCEPT !.page = @ + 1, !.queue = page,
                                    !.seen = [d \in Range(page) |-> docs[d]]]
  BY DEF ReadBatch
<1> DEFINE page == Slice(InOrder(S), 0, Limit)
<1>2. DOMAIN script = DOMAIN NoScript /\ Limit \in Nat
  BY MigrationAssumption DEF Types, ScriptOK
<1>3. S \subseteq Stored(docs) /\ S \in SUBSET Doc
  BY DEF Uncoded, Stored
<1>4. page \in Seq(S)
  BY <1>2, <1>3, CutFrom
<1>5. script' = [script EXCEPT !.page = @ + 1, !.queue = page, !.seen = [d \in Range(page) |-> docs[d]]]
  BY <1>1
<1>6. script.queue = <<>> /\ Quiet /\ script.kind = "history" /\ jobs' = jobs /\ Untouched
  BY DEF ReadBatch, Types, ScriptOK, Untouched, ledger
<1> HIDE DEF page
<1>7. /\ DOMAIN script' = DOMAIN NoScript /\ script'.kind = script.kind /\ script'.page = script.page + 1
      /\ script'.groups = script.groups /\ script'.counted = script.counted
      /\ script'.pages = script.pages /\ script'.aborted = script.aborted /\ script'.failed = script.failed
      /\ script'.queue = page /\ script'.seen = [d \in Range(page) |-> docs[d]]
  BY <1>2, <1>5 DEF NoScript
<1>8. Reads(S)
  BY <1>3, <1>4, <1>6, <1>7 DEF Reads
<1>9. QED
  BY <1>6, <1>8

LEMMA ReadTypes ==
  ASSUME Types, Quiet, NEW S, Reads(S)
  PROVE  Types'
<1>1. DocsOK' /\ Keeps /\ Stays /\ Grows /\ docs' = docs
  BY UntouchedIs DEF Reads, Types, Untouched
<1>2. Quiet' /\ JobsOK'
  BY <1>1, SameJobs DEF Reads, Types, Quiet
<1>3. S \subseteq Doc /\ \A d \in S : docs[d].place = "stored"
  BY DEF Reads, Stored
<1>4. PICK n \in Nat : DOMAIN script'.queue = 1 .. n
  BY LenProperties DEF Reads
<1>5. script'.queue \in Seq(Range(script'.queue)) /\ Range(script'.queue) \subseteq S
  <2>1. script'.queue = [i \in 1 .. n |-> script'.queue[i]]
    BY <1>4 DEF Reads
  <2>2. \A i \in 1 .. n : script'.queue[i] \in S
    BY <1>4, ElementOfSeq, LenProperties DEF Reads
  <2>3. QED
    BY <1>4, <2>1, <2>2, IsSequence DEF Range
<1>6. DOMAIN script'.seen = Range(script'.queue) /\ \A d \in Range(script'.queue) : script'.seen[d] = docs[d]
  BY DEF Reads
<1>7. \A d \in DOMAIN script'.seen : Read(script.seen[d], docs[d])'
  <2> TAKE d \in DOMAIN script'.seen
  <2>1. d \in Stored(docs) /\ d \in Doc /\ script'.seen[d] = docs'[d] /\ docs'[d].place = "stored"
    BY <1>1, <1>3, <1>5, <1>6 DEF Stored
  <2>2. <<docs'[d].sale, docs'[d].bill>> \in billed'
    BY <1>1, <2>1 DEF DocsOK, Bills
  <2>3. QED
    BY <1>1, <2>1, <2>2 DEF Read, DocsOK
<1>8. ScriptOK'
  <2>1. DOMAIN script' = DOMAIN NoScript /\ script'.page \in Nat /\ script'.groups = script.groups
    BY DEF Reads, Types, ScriptOK
  <2>2. \A g \in script'.groups : g # {} /\ \A d \in g : Copies(g, docs[d].sale)'
    BY <1>1, <2>1 DEF Types, ScriptOK, Copies
  <2>3. QED
    BY <1>2, <1>3, <1>5, <1>6, <1>7, <2>1, <2>2 DEF ScriptOK
<1>9. QED
  BY <1>1, <1>2, <1>8 DEF Types

\* The next orders of the page are handed to jobs.
Hands(chunk) ==
  /\ Quiet /\ script.kind = "structure"
  /\ chunk \subseteq Range(script.queue)
  /\ jobs' = [d \in Doc |-> IF d \in chunk THEN [NoJob EXCEPT !.st = "update"] ELSE NoJob]
  /\ GoesOn /\ script'.page = script.page /\ script'.pages = script.pages
  /\ script'.counted = script.counted /\ script'.aborted = script.aborted /\ script'.failed = script.failed
  /\ Range(script.queue) = chunk \cup Range(script'.queue)
  /\ Untouched

LEMMA NextChunkHands == ASSUME Types, NextChunk PROVE \E chunk : Hands(chunk)
<1> DEFINE chunk == Range(Slice(script.queue, 0, Chunk))
           rest == SubSeq(script.queue, Chunk + 1, Len(script.queue))
<1>1. script.queue \in Seq(DOMAIN script.seen) /\ DOMAIN script = DOMAIN NoScript /\ script.page \in Nat
  BY DEF Types, ScriptOK
<1>2. rest \in Seq(DOMAIN script.seen) /\ Range(script.queue) = chunk \cup Range(rest)
  BY <1>1, ChunkIs
<1>3. script' = [script EXCEPT !.queue = rest]
  BY DEF NextChunk
<1>4. /\ Quiet /\ script.kind = "structure"
      /\ jobs' = [d \in Doc |-> IF d \in chunk THEN [NoJob EXCEPT !.st = "update"] ELSE NoJob]
      /\ Untouched
  BY DEF NextChunk, Untouched, ledger
<1> HIDE DEF chunk, rest
<1>5. /\ script'.queue = rest /\ script'.page = script.page /\ script'.pages = script.pages
      /\ script'.counted = script.counted /\ script'.aborted = script.aborted /\ script'.failed = script.failed
      /\ DOMAIN script' = DOMAIN NoScript /\ script'.kind = script.kind
      /\ script'.seen = script.seen /\ script'.groups = script.groups
  BY <1>1, <1>3 DEF NoScript
<1>6. GoesOn
  BY <1>1, <1>2, <1>5 DEF GoesOn
<1>7. Hands(chunk)
  BY <1>2, <1>4, <1>5, <1>6 DEF Hands
<1>8. QED
  BY <1>7

LEMMA NextChunkTypes == ASSUME Types, NEW chunk, Hands(chunk) PROVE Types'
<1>1. DocsOK' /\ Keeps /\ Grows
  BY UntouchedIs DEF Hands, Types
<1>2. ScriptOK'
  BY <1>1, GoesOnIs DEF Hands, Types
<1>3. chunk \subseteq DOMAIN script'.seen
  <2>1. Range(script.queue) \subseteq DOMAIN script.seen
    BY ElementOfSeq, LenProperties DEF Types, ScriptOK, Range
  <2>2. QED
    BY <2>1 DEF Hands, GoesOn
<1>4. \A d \in Doc : JobOK(d)'
  <2> TAKE d \in Doc
  <2>1. CASE d \in chunk
    <3>1. jobs'[d] = [NoJob EXCEPT !.st = "update"]
      BY <2>1 DEF Hands
    <3>2. QED
      BY <1>3, <2>1, <3>1 DEF JobOK, NoJob, Merging
  <2>2. CASE d \notin chunk
    BY <2>2, NoJobOK DEF Hands
  <2>3. QED
    BY <2>1, <2>2
<1>5. jobs' = [d \in Doc |-> jobs'[d]]
  BY DEF Hands
<1>6. QED
  BY <1>1, <1>2, <1>4, <1>5 DEF Types, JobsOK

LEMMA NextGroupTypes == ASSUME Types, NextGroup PROVE Types'
<1>1. PICK g \in script.groups : /\ script' = [script EXCEPT !.groups = @ \ {g}]
                                 /\ Job(Min(g), [NoJob EXCEPT !.st = "find", !.ids = g])
  BY DEF NextGroup
<1>2. g # {} /\ \A d \in g : Copies(g, docs[d].sale)
  BY <1>1 DEF Types, ScriptOK
<1>3. Min(g) \in g /\ g \subseteq Doc
  <2>1. g \in SUBSET Nat /\ g \subseteq Doc
    BY <1>2, MigrationAssumption DEF Copies
  <2>2. QED
    BY <1>2, <2>1, FirstIs DEF Min
<1>4. script.kind = "duplicates" /\ Quiet /\ Untouched
  BY DEF NextGroup, Untouched, ledger
<1>5. DocsOK' /\ Keeps /\ Stays /\ Grows
  BY <1>4, UntouchedIs DEF Types
<1>6. GoesOn
  BY <1>1 DEF Types, ScriptOK, GoesOn, NoScript
<1>7. ScriptOK'
  BY <1>4, <1>5, <1>6, GoesOnIs DEF Types
<1>8. PICK d \in Doc : d = Min(g)
  BY <1>3
<1> DEFINE j == [NoJob EXCEPT !.st = "find", !.ids = g]
<1>9. jobs'[d] = j
  BY <1>1, <1>8 DEF Types, JobsOK, Job
<1>10. JobOK(d)'
  <2>1. j.st = "find" /\ j.ids = g /\ DOMAIN j = DOMAIN NoJob
    BY DEF NoJob
  <2> HIDE DEF j
  <2>2. docs' = docs
    BY <1>4 DEF Untouched
  <2>3. docs'[d].place # "free" /\ \A e \in g : docs'[e].place # "free" /\ docs'[e].sale = docs'[d].sale
    BY <1>2, <1>3, <1>8, <2>2 DEF Copies
  <2>4. QED
    BY <1>3, <1>9, <2>1, <2>3 DEF JobOK, Merging, Copies
<1>11. JobsOK'
  <2> HIDE DEF j
  <2>1. Job(d, j)
    BY <1>1, <1>8 DEF j
  <2>2. script'.seen = script.seen
    BY <1>6 DEF GoesOn
  <2>3. QED
    BY <1>5, <1>10, <2>1, <2>2, OneJob DEF Types
<1>12. QED
  BY <1>5, <1>7, <1>11 DEF Types

\* A job belongs to a script that merges.
LEMMA Busy ==
  ASSUME Types, NEW d \in Doc, jobs[d].st # "idle"
  PROVE  script.kind \notin {"none", "history"}
BY DEF Types, ScriptOK, Quiet, NoJob

\* A script that goes on, or is aborted, with what it counted.
GoesOnWith(aborted, failed) ==
  /\ GoesOn /\ script'.page = script.page /\ script'.pages = script.pages /\ script'.queue = script.queue
  /\ script'.counted = script.counted /\ script'.aborted = aborted /\ script'.failed = failed

LEMMA AbortIs ==
  ASSUME ScriptOK, script' = [script EXCEPT !.aborted = TRUE] PROVE GoesOnWith(TRUE, script.failed)
<1>1. /\ DOMAIN script' = DOMAIN NoScript /\ script'.aborted = TRUE /\ script'.page = script.page
      /\ script'.kind = script.kind /\ script'.seen = script.seen /\ script'.groups = script.groups
      /\ script'.queue = script.queue /\ script'.counted = script.counted /\ script'.pages = script.pages
      /\ script'.failed = script.failed
  BY DEF ScriptOK, NoScript
<1>2. QED
  BY <1>1 DEF ScriptOK, GoesOn, GoesOnWith

\* What checkAndUpdateOrder does with an order: it starts a merge, or writes it.
StartsMerge(d) ==
  Job(d, [NoJob EXCEPT !.st = "find"]) /\ script' = script /\ Untouched

Updates(d) ==
  /\ Job(d, NoJob) /\ script' = script /\ UNCHANGED <<crossed, cut>>
  /\ Writes({script.seen[d]})
  /\ docs'[d].place = "stored" => docs'[d].code # NoCode
  /\ \A e \in Doc \ {d} : docs'[e] = docs[e]

\* The order with the missing data.
LEMMA CompletedIs ==
  ASSUME NEW doc, IsDoc(doc), doc.place = "stored", NEW seen, Read(seen, doc), NEW errors,
         NEW o, o = Completed(doc, seen, errors)
  PROVE  Rewritten(doc, o) /\ Follows(doc, o, seen) /\ o.code # NoCode
<1>1. PICK k : k = IF "invoice" \in errors THEN InvoiceKey(seen) ELSE doc.key
  OBVIOUS
<1>2. PICK h : h = IF "history" \in errors THEN NewHistory(seen) ELSE doc.history
  OBVIOUS
<1>3. PICK c : c = getStatusCode(seen.micro, seen.status)
  OBVIOUS
<1>4. o = [doc EXCEPT !.key = k, !.history = h, !.code = c]
  BY <1>1, <1>2, <1>3 DEF Completed
<1>5. /\ DOMAIN o = DOMAIN doc /\ o.place = doc.place /\ o.sale = doc.sale
      /\ o.bill = doc.bill /\ o.updated = doc.updated
      /\ o.key = k /\ o.history = h /\ o.code = c
  BY <1>4 DEF IsDoc
<1>6. IsHistory(h) /\ (h = doc.history \/ Times(seen.history) \subseteq Times(h))
  BY <1>2, NewHistoryIs DEF IsDoc, Read
<1>7. c # NoCode
  BY <1>3, CodeIs
<1>8. Rewritten(doc, o)
  BY <1>5, <1>6 DEF Rewritten, IsDoc
<1>9. ASSUME doc.key \notin {NoKey, Blank}, Package(doc) = Package(seen), o.key # doc.key
      PROVE  Rebilled(Package(doc))
  <2>1. doc.key = seen.key /\ o.key = InvoiceKey(seen)
    BY <1>1, <1>5, <1>9 DEF Package
  <2>2. seen.bill # doc.key
    BY <1>9, <2>1 DEF InvoiceKey
  <2>3. <<doc.sale, seen.bill>> \in billed
    BY DEF Read
  <2>4. QED
    BY <2>2, <2>3 DEF Rebilled, Package
<1>10. Times(doc.history) \cap Times(seen.history) \subseteq Times(o.history)
  BY <1>5, <1>6
<1>11. QED
  BY <1>5, <1>7, <1>8, <1>9, <1>10 DEF Follows

LEMMA CheckIs ==
  ASSUME Types, NEW d \in Doc, checkAndUpdateOrder(d)
  PROVE  /\ jobs[d].st = "update" /\ docs[d].place # "free"
         /\ StartsMerge(d) \/ Updates(d)
<1>1. jobs[d].st = "update" /\ d \in DOMAIN script.seen /\ Read(script.seen[d], docs[d])
  BY DEF checkAndUpdateOrder, Types, JobsOK, JobOK, ScriptOK
<1>2. docs[d].place # "free" /\ script' = script /\ UNCHANGED <<crossed, cut>>
  BY <1>1 DEF Read, checkAndUpdateOrder
<1>3. PICK seen : seen = script.seen[d]
  OBVIOUS
<1>4. PICK errors \in Invalid(seen) :
        LET order == Completed(docs[d], seen, errors)
        IN IF docs[d].place = "stored" /\ Refused(docs, d, order.key)
           THEN Job(d, [NoJob EXCEPT !.st = "find"]) /\ UNCHANGED <<docs, ledger>>
           ELSE /\ Job(d, NoJob)
                /\ Write(IF docs[d].place # "stored" THEN docs ELSE [docs EXCEPT ![d] = order], {seen})
  BY <1>3 DEF checkAndUpdateOrder
<1>5. PICK o : o = Completed(docs[d], seen, errors)
  OBVIOUS
<1>6. IF docs[d].place = "stored" /\ Refused(docs, d, o.key)
      THEN Job(d, [NoJob EXCEPT !.st = "find"]) /\ UNCHANGED <<docs, ledger>>
      ELSE /\ Job(d, NoJob)
           /\ Write(IF docs[d].place # "stored" THEN docs ELSE [docs EXCEPT ![d] = o], {seen})
  BY <1>4, <1>5
<1>7. DocsOK /\ IsDoc(docs[d])
  BY DEF Types, DocsOK
<1>8. CASE docs[d].place = "stored" /\ Refused(docs, d, o.key)
  BY <1>1, <1>2, <1>6, <1>8 DEF StartsMerge, Untouched, ledger
<1>9. CASE docs[d].place # "stored"
  <2>1. Job(d, NoJob) /\ Write(docs, {seen})
    BY <1>6, <1>9
  <2>2. Writes({seen}) /\ docs' = docs
    BY <1>7, <2>1, NoneWritten
  <2>3. QED
    BY <1>1, <1>2, <1>3, <1>9, <2>1, <2>2 DEF Updates
<1>10. CASE docs[d].place = "stored" /\ ~Refused(docs, d, o.key)
  <2>1. Job(d, NoJob) /\ Write([docs EXCEPT ![d] = o], {seen})
    BY <1>6, <1>10
  <2>2. Rewritten(docs[d], o) /\ Follows(docs[d], o, seen) /\ o.code # NoCode
    BY <1>1, <1>3, <1>5, <1>7, <1>10, CompletedIs
  <2>3. WritesOne(d, o, {seen})
    BY <2>1, <2>2 DEF WritesOne
  <2>4. Writes({seen}) /\ docs'[d] = o /\ \A e \in Doc \ {d} : docs'[e] = docs[e]
    BY <1>7, <2>3, OneWritten
  <2>5. QED
    BY <1>1, <1>2, <1>3, <2>1, <2>2, <2>4 DEF Updates
<1>11. QED
  BY <1>8, <1>9, <1>10

LEMMA CheckTypes == ASSUME Types, NEW d \in Doc, checkAndUpdateOrder(d) PROVE Types'
<1>1. jobs[d].st = "update" /\ docs[d].place # "free" /\ (StartsMerge(d) \/ Updates(d))
  BY CheckIs
<1>2. script.kind \notin {"none", "history"}
  BY <1>1, Busy
<1>3. script' = script
  BY <1>1 DEF StartsMerge, Updates
<1>4. DocsOK' /\ Keeps /\ Stays /\ Grows
  BY <1>1, UntouchedIs, WritesIs DEF Types, StartsMerge, Updates, Grows
<1>5. ScriptOK'
  BY <1>2, <1>3, <1>4, SameScript, GoesOnIs DEF Types
<1>6. PICK j : j \in {NoJob, [NoJob EXCEPT !.st = "find"]} /\ Job(d, j)
  BY <1>1 DEF StartsMerge, Updates
<1>7. JobOK(d)'
  <2>1. jobs'[d] = j /\ docs'[d].place # "free"
    BY <1>1, <1>4, <1>6 DEF Types, JobsOK, Job, Keeps
  <2>2. CASE j = NoJob
    BY <2>1, <2>2, NoJobOK
  <2>3. CASE j = [NoJob EXCEPT !.st = "find"]
    <3>1. DOMAIN j = DOMAIN NoJob /\ j.st = "find" /\ j.ids = {}
      BY <2>3 DEF NoJob
    <3>2. QED
      BY <2>1, <3>1 DEF JobOK, Merging, Copies
  <2>4. QED
    BY <1>6, <2>2, <2>3
<1>8. JobsOK'
  BY <1>3, <1>4, <1>6, <1>7, OneJob DEF Types
<1>9. QED
  BY <1>4, <1>5, <1>8 DEF Types

\* A write that fails leaves everything else as it is.
Fails(d) ==
  jobs[d].st = "update" /\ Job(d, NoJob) /\ GoesOnWith(script.aborted, script.failed \cup {d}) /\ Untouched

LEMMA FailIs == ASSUME Types, NEW d \in Doc, UpdateFails(d) PROVE Fails(d)
<1>1. jobs[d].st = "update" /\ Job(d, NoJob) /\ Untouched
  BY DEF UpdateFails, Untouched, ledger
<1>2. PICK f : f = script.failed \cup {d}
  OBVIOUS
<1>3. script' = [script EXCEPT !.failed = f]
  BY <1>2 DEF UpdateFails
<1>4. /\ DOMAIN script' = DOMAIN NoScript /\ script'.aborted = script.aborted /\ script'.page = script.page
      /\ script'.kind = script.kind /\ script'.seen = script.seen /\ script'.groups = script.groups
      /\ script'.queue = script.queue /\ script'.counted = script.counted /\ script'.pages = script.pages
      /\ script'.failed = f
  BY <1>3 DEF Types, ScriptOK, NoScript
<1>5. GoesOnWith(script.aborted, f)
  BY <1>4 DEF Types, ScriptOK, GoesOn, GoesOnWith
<1>6. QED
  BY <1>1, <1>2, <1>5 DEF Fails

\* A job that ends while the script goes on.
LEMMA JobEnds ==
  ASSUME Types, NEW d \in Doc, jobs[d].st # "idle", Job(d, NoJob), GoesOn, DocsOK', Keeps, Stays, Grows
  PROVE  Types'
<1>1. script.kind \notin {"none", "history"}
  BY Busy
<1>2. ScriptOK'
  BY <1>1, GoesOnIs DEF Types
<1>3. JobsOK'
  BY NoJobNext, OneJob DEF Types, GoesOn
<1>4. QED
  BY <1>2, <1>3 DEF Types

LEMMA FailTypes == ASSUME Types, NEW d \in Doc, UpdateFails(d) PROVE Types'
<1>1. Fails(d)
  BY FailIs
<1>2. jobs[d].st # "idle" /\ Job(d, NoJob) /\ GoesOn /\ Untouched
  BY <1>1 DEF Fails, GoesOnWith
<1>3. DocsOK' /\ Keeps /\ Stays /\ Grows
  BY <1>2, UntouchedIs DEF Types
<1>4. QED
  BY <1>2, <1>3, JobEnds


\* A find starts a merge, or ends the script when there is no copy left.
Gathers(d, j) ==
  /\ jobs[d].st = "find" /\ Job(d, j) /\ j.st = "delete" /\ DOMAIN j = DOMAIN NoJob /\ MergeOK(j)
  /\ j.read = {docs[e] : e \in j.ids}
  /\ script.kind = "structure" /\ docs[d].place = "stored" => d \in j.ids
  /\ script' = script /\ Untouched

FindsNone(d) ==
  /\ jobs[d].st = "find" /\ Job(d, NoJob)
  /\ GoesOnWith(TRUE, script.failed) /\ Untouched

\* The merged document.
LEMMA CopyIs ==
  ASSUME NEW D \in SUBSET Nat, IsFiniteSet(D), NEW copies, DOMAIN copies = D,
         \A d \in D : IsDoc(copies[d]), NEW latest \in D,
         NEW o, o = handleDuplicateKeys(copies, latest)
  PROVE  /\ IsDoc(o) /\ o.place = copies[latest].place /\ o.sale = copies[latest].sale
         /\ o.bill = copies[latest].bill /\ o.key = InvoiceKey(o) /\ o.code # NoCode
         /\ Times(o.history) = UNION {Times(copies[d].history) : d \in D}
<1>1. PICK l : l = copies[latest]
  OBVIOUS
<1>2. PICK h : h = MergedHistory(copies)
  OBVIOUS
<1>3. IsHistory(h) /\ Times(h) = UNION {Times(copies[d].history) : d \in D}
  BY <1>2, MergedIs DEF IsDoc
<1>4. \E mi, st : o = [l EXCEPT !.key = InvoiceKey(l), !.keys = @ \ NoKeys, !.micro = mi, !.status = st,
                               !.code = getStatusCode(mi, st), !.history = h]
  BY <1>1, <1>2 DEF handleDuplicateKeys
<1>5. PICK mi, st, k, ks, c :
        /\ k = InvoiceKey(l) /\ c = getStatusCode(mi, st)
        /\ o = [l EXCEPT !.key = k, !.keys = ks, !.micro = mi, !.status = st, !.code = c, !.history = h]
  BY <1>4
<1>6. IsDoc(l)
  BY <1>1
<1>7. /\ DOMAIN o = DOMAIN l /\ o.place = l.place /\ o.sale = l.sale /\ o.bill = l.bill
      /\ o.key = k /\ o.code = c /\ o.history = h /\ o.updated = l.updated
  BY <1>5, <1>6 DEF IsDoc
<1>8. InvoiceKey(o) = k
  BY <1>5, <1>7 DEF InvoiceKey
<1>9. c # NoCode
  BY <1>5, CodeIs
<1>10. QED
  BY <1>1, <1>3, <1>6, <1>7, <1>8, <1>9 DEF IsDoc

LEMMA FindIs ==
  ASSUME Types, NEW d \in Doc, FindCopies(d)
  PROVE  FindsNone(d) \/ \E j : Gathers(d, j)
<1> DEFINE all == IF script.kind = "structure" THEN OfSale(docs, docs[d].sale)
                  ELSE jobs[d].ids \cap Stored(docs)
<1>1. jobs[d].st = "find" /\ Untouched
  BY DEF FindCopies, Untouched, ledger
<1>2. PICK ids : ids = all
  OBVIOUS
<1>3. /\ ids \subseteq Stored(docs)
      /\ \A e \in ids : docs[e].sale = docs[d].sale
      /\ script.kind = "structure" /\ docs[d].place = "stored" => d \in ids
  BY <1>1, <1>2 DEF OfSale, Stored, Types, JobsOK, JobOK, Copies
<1> DEFINE copies == [e \in ids |-> docs[e]]
<1>4. IF ids = {}
      THEN Job(d, NoJob) /\ script' = [script EXCEPT !.aborted = TRUE]
      ELSE /\ \E latest \in Latest(copies) :
                Job(d, [st |-> "delete", ids |-> ids, read |-> Range(copies), delete |-> ids \ {latest},
                        survivor |-> latest, to |-> handleDuplicateKeys(copies, latest)])
           /\ UNCHANGED script
  BY <1>2 DEF FindCopies
<1>5. CASE ids = {}
  BY <1>1, <1>4, <1>5, AbortIs DEF Types, FindsNone
<1>6. CASE ids # {}
  <2>1. PICK latest \in Latest(copies) :
          Job(d, [st |-> "delete", ids |-> ids, read |-> Range(copies), delete |-> ids \ {latest},
                  survivor |-> latest, to |-> handleDuplicateKeys(copies, latest)])
    BY <1>4, <1>6
  <2>2. latest \in ids /\ DOMAIN copies = ids
    BY DEF Latest
  <2>3. PICK o : o = handleDuplicateKeys(copies, latest)
    OBVIOUS
  <2>4. ids \subseteq Doc /\ ids \in SUBSET Nat /\ IsFiniteSet(ids)
    BY <1>3, FS_Subset, MigrationAssumption DEF Stored
  <2>5. \A e \in ids : IsDoc(copies[e]) /\ copies[e] = docs[e] /\ docs[e].place = "stored"
    BY <1>3, <2>4 DEF Types, DocsOK, Stored
  <2>6. PICK r : r = {docs[e] : e \in ids} /\ r = Range(copies)
    BY DEF Range
  <2>7. PICK j : j = [st |-> "delete", ids |-> ids, read |-> r, delete |-> ids \ {latest},
                      survivor |-> latest, to |-> o]
    OBVIOUS
  <2>8. Job(d, j)
    BY <2>1, <2>3, <2>6, <2>7
  <2> HIDE DEF copies
  <2>9. /\ IsDoc(o) /\ o.place = copies[latest].place /\ o.sale = copies[latest].sale
        /\ o.bill = copies[latest].bill /\ o.key = InvoiceKey(o) /\ o.code # NoCode
        /\ Times(o.history) = UNION {Times(copies[e].history) : e \in ids}
    BY <2>2, <2>3, <2>4, <2>5, CopyIs
  <2>10. <<o.sale, o.bill>> \in billed
    <3>1. o.sale = docs[latest].sale /\ o.bill = docs[latest].bill /\ latest \in Stored(docs)
      BY <1>3, <2>2, <2>5, <2>9
    <3>2. QED
      BY <3>1 DEF Types, DocsOK, Bills
  <2>11. \A x \in r : x.sale = o.sale /\ Times(x.history) \subseteq Times(o.history)
    BY <1>3, <2>2, <2>5, <2>6, <2>9
  <2>12. Copies(ids, o.sale)
    BY <1>3, <2>2, <2>4, <2>5, <2>9 DEF Copies
  <2>13. /\ DOMAIN j = DOMAIN NoJob /\ j.st = "delete" /\ j.ids = ids /\ j.read = r
         /\ j.delete = ids \ {latest} /\ j.survivor = latest /\ j.to = o
    BY <2>7 DEF NoJob
  <2>14. MergeOK(j)
    BY <2>2, <2>5, <2>9, <2>10, <2>11, <2>12, <2>13 DEF MergeOK
  <2>15. UNCHANGED script
    BY <1>4, <1>6 DEF copies
  <2>16. Gathers(d, j)
    BY <1>1, <1>3, <2>6, <2>8, <2>13, <2>14, <2>15 DEF Gathers
  <2>17. QED
    BY <2>16
<1>7. QED
  BY <1>5, <1>6

LEMMA FindTypes == ASSUME Types, NEW d \in Doc, FindCopies(d) PROVE Types'
<1>1. FindsNone(d) \/ \E j : Gathers(d, j)
  BY FindIs
<1>2. jobs[d].st = "find" /\ Untouched
  BY <1>1 DEF FindsNone, Gathers
<1>3. DocsOK' /\ Keeps /\ Stays /\ Grows /\ docs' = docs
  BY <1>2, UntouchedIs DEF Types, Untouched
<1>4. CASE FindsNone(d)
  BY <1>3, <1>4, JobEnds DEF FindsNone, GoesOnWith
<1>5. ASSUME NEW j, Gathers(d, j) PROVE Types'
  <2>1. script' = script /\ Job(d, j) /\ j.st = "delete" /\ DOMAIN j = DOMAIN NoJob /\ MergeOK(j)
    BY <1>5 DEF Gathers
  <2>2. ScriptOK'
    <3>1. script.kind \notin {"none", "history"}
      BY <1>2, Busy
    <3>2. QED
      BY <1>3, <2>1, <3>1, SameScript, GoesOnIs DEF Types
  <2>3. jobs'[d] = j
    BY <2>1 DEF Types, JobsOK, Job
  <2>4. MergeOK(j)'
    <3>1. billed' = billed /\ crossed' = crossed
      BY <1>2 DEF Untouched
    <3>2. QED
      BY <1>3, <2>1, <3>1 DEF MergeOK, Copies
  <2>5. JobOK(d)'
    BY <2>1, <2>3, <2>4 DEF JobOK
  <2>6. JobsOK'
    BY <1>3, <2>1, <2>5, OneJob DEF Types
  <2>7. QED
    BY <1>3, <2>2, <2>6 DEF Types
<1>6. QED
  BY <1>1, <1>4, <1>5

\* The copies of a merge go, all but the survivor.
Deletes(d, j) ==
  /\ jobs[d].st = "delete" /\ MergeOK(jobs[d])
  /\ Write(docs', jobs[d].read)
  /\ docs' = [e \in Doc |-> IF e \in jobs[d].delete THEN [docs[e] EXCEPT !.place = "deleted"] ELSE docs[e]]
  /\ Job(d, j) /\ DOMAIN j = DOMAIN NoJob /\ j.st = "save" /\ j.ids = jobs[d].ids
  /\ j.to = jobs[d].to /\ j.read = jobs[d].read
  /\ j.delete = jobs[d].delete /\ j.survivor = jobs[d].survivor
  /\ crossed' = crossed \cup IF Crossed(d) THEN {docs[jobs[d].survivor].sale} ELSE {}
  /\ script' = script /\ cut' = cut

LEMMA DeleteIs == ASSUME Types, NEW d \in Doc, DeleteCopies(d) PROVE \E j : Deletes(d, j)
<1>1. PICK j : j = [jobs[d] EXCEPT !.st = "save"]
  OBVIOUS
<1>2. jobs[d].st = "delete" /\ DOMAIN jobs[d] = DOMAIN NoJob /\ MergeOK(jobs[d])
  BY DEF DeleteCopies, Types, JobsOK, JobOK, Merging
<1>3. /\ DOMAIN j = DOMAIN NoJob /\ j.st = "save" /\ j.ids = jobs[d].ids
      /\ j.to = jobs[d].to /\ j.read = jobs[d].read
      /\ j.delete = jobs[d].delete /\ j.survivor = jobs[d].survivor
  BY <1>1, <1>2 DEF NoJob
<1>4. Job(d, j) /\ script' = script /\ cut' = cut
  BY <1>1 DEF DeleteCopies
<1>5. /\ Write(Deleted(docs, jobs[d].delete), jobs[d].read)
      /\ crossed' = crossed \cup IF Crossed(d) THEN {docs[jobs[d].survivor].sale} ELSE {}
  BY DEF DeleteCopies
<1>6. docs' = Deleted(docs, jobs[d].delete)
  BY <1>5 DEF Write
<1>7. Write(docs', jobs[d].read)
  BY <1>5, <1>6
<1>8. Deletes(d, j)
  BY <1>2, <1>3, <1>4, <1>5, <1>6, <1>7 DEF Deletes, Deleted
<1>9. QED
  BY <1>8

\* The deleted documents and the others.
LEMMA DeletedIs ==
  ASSUME DocsOK, NEW d \in Doc, NEW j, Deletes(d, j), NEW e \in Doc
  PROVE  /\ docs'[e].sale = docs[e].sale /\ docs'[e].bill = docs[e].bill /\ docs'[e].key = docs[e].key
         /\ docs'[e].history = docs[e].history /\ docs'[e].code = docs[e].code
         /\ docs'[e].updated = docs[e].updated /\ DOMAIN docs'[e] = DOMAIN docs[e]
         /\ e \in jobs[d].delete => docs'[e].place = "deleted"
         /\ e \notin jobs[d].delete => docs'[e] = docs[e]
<1>1. docs'[e] = IF e \in jobs[d].delete THEN [docs[e] EXCEPT !.place = "deleted"] ELSE docs[e]
  BY DEF Deletes
<1>2. PICK o : o = docs[e]
  OBVIOUS
<1>3. IsDoc(o)
  BY <1>2 DEF DocsOK
<1>4. CASE e \in jobs[d].delete
  <2>1. PICK u : u = [o EXCEPT !.place = "deleted"]
    OBVIOUS
  <2>2. /\ u.sale = o.sale /\ u.bill = o.bill /\ u.key = o.key /\ u.history = o.history
        /\ u.code = o.code /\ u.updated = o.updated /\ DOMAIN u = DOMAIN o /\ u.place = "deleted"
    BY <1>3, <2>1 DEF IsDoc
  <2>3. QED
    BY <1>1, <1>2, <1>4, <2>1, <2>2
<1>5. CASE e \notin jobs[d].delete
  BY <1>1, <1>5
<1>6. QED
  BY <1>4, <1>5

LEMMA DeleteTypes == ASSUME Types, NEW d \in Doc, DeleteCopies(d) PROVE Types'
<1>1. PICK j : Deletes(d, j)
  BY DeleteIs
<1>2. script.kind \notin {"none", "history"} /\ DocsOK
  BY <1>1, Busy DEF Deletes, Types
<1>3. MergeOK(jobs[d]) /\ jobs[d].st = "delete"
  BY <1>1 DEF Deletes
<1>4. Keeps
  <2> SUFFICES ASSUME NEW e \in Doc, docs[e].place # "free"
               PROVE  /\ docs'[e].place # "free" /\ docs'[e].sale = docs[e].sale
                      /\ docs[e].place = "deleted" => docs'[e].place = "deleted"
    BY DEF Keeps
  <2>1. QED
    BY <1>1, <1>2, DeletedIs
<1>5. Grows /\ billed' = billed \cup Bills(docs')
  BY <1>1 DEF Deletes, Grows, Write
<1>6. DocsOK'
  <2>1. \A e \in Doc : IsDoc(docs'[e])
    <3> TAKE e \in Doc
    <3>1. IsDoc(docs[e])
      BY <1>2 DEF DocsOK
    <3>2. QED
      BY <1>1, <1>2, <3>1, DeletedIs DEF IsDoc
  <2>2. QED
    BY <1>1, <1>5, <2>1 DEF DocsOK, Deletes
<1>7. script' = script
  BY <1>1 DEF Deletes
<1>8. ScriptOK'
  BY <1>2, <1>4, <1>5, <1>7, SameScript, GoesOnIs DEF Types
<1>9. \A e \in Doc \ {d} : JobOK(e)'
  <2> TAKE e \in Doc \ {d}
  <2>1. JobOK(e) /\ jobs'[e] = jobs[e] /\ e \in Doc
    BY <1>1 DEF Types, JobsOK, Job, Deletes
  <2>2. ASSUME Merging(e)
        PROVE  \/ docs[jobs[e].survivor].place # "stored"
               \/ docs'[jobs[e].survivor].place = "stored"
               \/ jobs[e].to.sale \in crossed'
    <3>1. MergeOK(jobs[e]) /\ jobs[e].survivor \in Doc /\ docs[jobs[e].survivor].sale = jobs[e].to.sale
      BY <2>1, <2>2 DEF JobOK, MergeOK, Copies
    <3>2. CASE jobs[e].survivor \in jobs[d].delete
      <4>1. Crossed(d)
        BY <2>2, <3>2 DEF Crossed
      <4>2. docs[jobs[d].survivor].sale \in crossed'
        BY <1>1, <4>1 DEF Deletes
      <4>3. docs[jobs[e].survivor].sale = jobs[d].to.sale /\ docs[jobs[d].survivor].sale = jobs[d].to.sale
        BY <1>3, <3>2 DEF MergeOK, Copies
      <4>4. QED
        BY <3>1, <4>2, <4>3
    <3>3. CASE jobs[e].survivor \notin jobs[d].delete
      BY <1>1, <1>2, <3>1, <3>3, DeletedIs
    <3>4. QED
      BY <3>2, <3>3
  <2>3. QED
    BY <1>4, <1>5, <1>7, <2>1, <2>2, JobStays
<1>10. JobOK(d)'
  <2>1. jobs'[d] = j /\ DOMAIN j = DOMAIN NoJob /\ j.st = "save"
    BY <1>1 DEF Types, JobsOK, Job, Deletes
  <2>2. /\ j.ids = jobs[d].ids /\ j.to = jobs[d].to /\ j.read = jobs[d].read
        /\ j.delete = jobs[d].delete /\ j.survivor = jobs[d].survivor
    BY <1>1 DEF Deletes
  <2>3. j.survivor \in Doc /\ j.survivor \notin j.delete /\ j.delete \subseteq Doc
    BY <1>3, <2>2 DEF MergeOK, Copies
  <2>4. Copies(j.ids, j.to.sale)'
    BY <1>3, <1>4, <2>2, CopiesStay DEF MergeOK
  <2>5. docs'[j.survivor] = docs[j.survivor]
    BY <1>1, <1>2, <2>2, <2>3, DeletedIs
  <2>6. docs'[j.survivor].place = "stored" \/ j.to.sale \in crossed'
    BY <1>3, <1>5, <2>2, <2>5 DEF MergeOK, Grows
  <2>7. \A e \in j.delete : docs'[e].place = "deleted"
    BY <1>1, <1>2, <2>2, <2>3, DeletedIs
  <2>8. <<j.to.sale, j.to.bill>> \in billed'
    BY <1>3, <1>5, <2>2 DEF MergeOK
  <2>9. /\ IsDoc(j.to) /\ j.to.place = "stored" /\ j.to.code # NoCode /\ j.to.key = InvoiceKey(j.to)
        /\ j.survivor \in j.ids /\ j.delete = j.ids \ {j.survivor}
        /\ \A r \in j.read : r.sale = j.to.sale /\ Times(r.history) \subseteq Times(j.to.history)
    BY <1>3, <2>2 DEF MergeOK
  <2>10. MergeOK(j)'
    BY <2>4, <2>6, <2>7, <2>8, <2>9 DEF MergeOK
  <2>11. QED
    BY <2>1, <2>10 DEF JobOK
<1>11. jobs' = [e \in Doc |-> jobs'[e]]
  BY <1>1 DEF Types, JobsOK, Job, Deletes
<1>12. QED
  BY <1>6, <1>8, <1>9, <1>10, <1>11 DEF Types, JobsOK

\* Merges that do not go on: what they have deleted is not saved.
Halts(ids) == Halted /\ Interrupt(ids)

\* The save of a merge: it is refused, it finds the survivor gone, or it
\* writes over the survivor.
SaveRefused(d) == Halts({d}) /\ GoesOnWith(TRUE, script.failed)

SaveLost(d) ==
  /\ docs[jobs[d].survivor].place # "stored" /\ Halted /\ script' = script /\ cut' = cut
  /\ excused' = excused \cup Unsaved(d)

Saves(d) ==
  /\ WritesOne(jobs[d].survivor, jobs[d].to, jobs[d].read)
  /\ docs[jobs[d].survivor].place = "stored"
  /\ UNCHANGED <<script, crossed, cut>>

Saved(d) ==
  /\ jobs[d].st = "save" /\ MergeOK(jobs[d]) /\ Job(d, NoJob)
  /\ SaveRefused(d) \/ SaveLost(d) \/ Saves(d)

\* The merged document has what was read of the survivor.
LEMMA MergeFollows ==
  ASSUME NEW j, MergeOK(j), NEW old, old.place = "stored", old.sale = j.to.sale
  PROVE  Rewritten(old, j.to) /\ \A r \in j.read : Follows(old, j.to, r)
<1>1. PICK o : o = j.to
  OBVIOUS
<1>2. /\ IsDoc(o) /\ o.place = "stored" /\ o.key = InvoiceKey(o) /\ <<o.sale, o.bill>> \in billed
      /\ old.sale = o.sale
      /\ \A r \in j.read : Times(r.history) \subseteq Times(o.history)
  BY <1>1 DEF MergeOK
<1>3. Rewritten(old, o)
  BY <1>2 DEF Rewritten
<1>4. ASSUME old.key \notin {NoKey, Blank}, o.key # old.key PROVE Rebilled(Package(old))
  <2>1. o.bill # old.key
    BY <1>2, <1>4 DEF InvoiceKey
  <2>2. QED
    BY <1>2, <2>1 DEF Rebilled, Package
<1>5. QED
  BY <1>1, <1>2, <1>3, <1>4 DEF Follows

LEMMA SaveIs == ASSUME Types, NEW d \in Doc, SaveMerged(d) PROVE Saved(d)
<1>1. jobs[d].st = "save" /\ Job(d, NoJob) /\ crossed' = crossed
  BY DEF SaveMerged
<1>2. MergeOK(jobs[d])
  BY <1>1 DEF Types, JobsOK, JobOK, Merging
<1> DEFINE e == jobs[d].survivor
<1>3. CASE /\ docs[e].place = "stored"
           /\ Write([docs EXCEPT ![e] = jobs[d].to], jobs[d].read)
           /\ UNCHANGED <<script, cut>>
  <2>1. docs[e].sale = jobs[d].to.sale
    BY <1>2 DEF MergeOK, Copies
  <2>2. Rewritten(docs[e], jobs[d].to) /\ \A r \in jobs[d].read : Follows(docs[e], jobs[d].to, r)
    BY <1>2, <1>3, <2>1, MergeFollows
  <2>3. QED
    BY <1>1, <1>2, <1>3, <2>2 DEF Saved, Saves, WritesOne
<1>4. CASE /\ docs[e].place # "stored" /\ excused' = excused \cup Unsaved(d)
           /\ UNCHANGED <<docs, script, known, billed, events, displaced, cut>>
  BY <1>1, <1>2, <1>4 DEF Saved, SaveLost, Halted
<1>5. CASE script' = [script EXCEPT !.aborted = TRUE] /\ Interrupt({d}) /\ UNCHANGED docs
  <2>1. GoesOnWith(TRUE, script.failed)
    BY <1>5, AbortIs DEF Types
  <2>2. Halted
    BY <1>1, <1>5 DEF Interrupt, Halted
  <2>3. QED
    BY <1>1, <1>2, <1>5, <2>1, <2>2 DEF Saved, SaveRefused, Halts
<1>6. QED
  BY <1>3, <1>4, <1>5 DEF SaveMerged

LEMMA SavesIs ==
  ASSUME DocsOK, NEW d \in Doc, MergeOK(jobs[d]), Saves(d)
  PROVE  /\ Writes(jobs[d].read) /\ docs'[jobs[d].survivor] = jobs[d].to
         /\ \A e \in Doc \ {jobs[d].survivor} : docs'[e] = docs[e]
<1>1. jobs[d].survivor \in Doc
  BY DEF MergeOK, Copies
<1>2. QED
  BY <1>1, OneWritten DEF Saves

LEMMA SaveTypes == ASSUME Types, NEW d \in Doc, SaveMerged(d) PROVE Types'
<1>1. Saved(d)
  BY SaveIs
<1>2. /\ jobs[d].st = "save" /\ MergeOK(jobs[d]) /\ Job(d, NoJob) /\ DocsOK /\ ScriptOK
      /\ SaveRefused(d) \/ SaveLost(d) \/ Saves(d)
  BY <1>1 DEF Saved, Types
<1>3. GoesOn
  BY <1>2, SameScript DEF SaveRefused, SaveLost, Saves, GoesOnWith
<1>4. DocsOK' /\ Keeps /\ Stays /\ Grows
  <2>1. CASE Halted
    BY <1>2, <2>1, HaltedIs
  <2>2. CASE Saves(d)
    <3>1. Writes(jobs[d].read) /\ crossed' = crossed
      BY <1>2, <2>2, SavesIs DEF Saves
    <3>2. QED
      BY <1>2, <3>1, WritesIs DEF Grows
  <2>3. QED
    BY <1>2, <2>1, <2>2 DEF SaveRefused, SaveLost, Halts
<1>5. QED
  BY <1>2, <1>3, <1>4, JobEnds

\* A call of a merge that fails.
Breaks(d) ==
  /\ jobs[d].st \in {"find", "delete", "save"} /\ Job(d, NoJob) /\ GoesOnWith(TRUE, script.failed)
  /\ Halts({d} \cap {e \in Doc : jobs[e].st = "save"})

LEMMA BreakIs == ASSUME Types, NEW d \in Doc, MergeFails(d) PROVE Breaks(d)
<1>1. GoesOnWith(TRUE, script.failed)
  BY AbortIs DEF MergeFails, Types
<1>2. QED
  BY <1>1 DEF MergeFails, Breaks, Halts, Halted, Interrupt

LEMMA BreakTypes == ASSUME Types, NEW d \in Doc, MergeFails(d) PROVE Types'
<1>1. Breaks(d)
  BY BreakIs
<1>2. jobs[d].st # "idle" /\ Job(d, NoJob) /\ GoesOn /\ Halted
  BY <1>1 DEF Breaks, GoesOnWith, Halts
<1>3. DocsOK' /\ Keeps /\ Stays /\ Grows
  BY <1>2, HaltedIs DEF Types
<1>4. QED
  BY <1>2, <1>3, JobEnds

\* The history script: a document is written back as it was read, or not.
WritesBack(seen) ==
  /\ script.kind = "history" /\ GoesOn /\ UNCHANGED <<jobs, crossed, cut>>
  /\ Untouched \/ Writes({seen})

LEMMA WrittenBackIs ==
  ASSUME NEW doc, IsDoc(doc), doc.place = "stored", NEW seen, Read(seen, doc),
         NEW o, o = WrittenBack(doc, seen)
  PROVE  Rewritten(doc, o) /\ Follows(doc, o, seen)
<1>1. PICK h : h = Coded(seen.history)
  OBVIOUS
<1>2. PICK k : k = IF seen.key = NoKey THEN doc.key ELSE seen.key
  OBVIOUS
<1>3. \E c, ks, s : o = [seen EXCEPT !.history = h, !.code = c, !.key = k, !.keys = ks, !.status = s]
  BY <1>1, <1>2 DEF WrittenBack
<1>4. PICK c, ks, s : o = [seen EXCEPT !.history = h, !.code = c, !.key = k, !.keys = ks, !.status = s]
  BY <1>3
<1>5. /\ DOMAIN o = DOMAIN seen /\ o.place = seen.place /\ o.sale = seen.sale
      /\ o.bill = seen.bill /\ o.updated = seen.updated /\ o.key = k /\ o.history = h
  BY <1>4 DEF Read, IsDoc
<1>6. IsHistory(h) /\ Times(h) = Times(seen.history)
  BY <1>1, CodedIs DEF Read, IsDoc
<1>7. Rewritten(doc, o)
  BY <1>5, <1>6 DEF Rewritten, Read, IsDoc
<1>8. Follows(doc, o, seen)
  BY <1>2, <1>5, <1>6 DEF Follows, Package
<1>9. QED
  BY <1>7, <1>8

LEMMA WriteIs == ASSUME Types, WriteBack PROVE \E seen : WritesBack(seen)
<1>1. script.kind = "history" /\ UNCHANGED <<jobs, crossed, cut>>
  BY DEF WriteBack
<1>2. PICK q : q = script.queue
  OBVIOUS
<1>3. q \in Seq(DOMAIN script.seen) /\ q # <<>>
  BY <1>2 DEF WriteBack, Types, ScriptOK
<1>4. PICK d : d = Head(q)
  OBVIOUS
<1>5. /\ d \in DOMAIN script.seen
      /\ Tail(q) \in Seq(DOMAIN script.seen) /\ Range(Tail(q)) \subseteq Range(q)
  <2>1. Len(q) \in Nat \ {0} /\ DOMAIN q = 1 .. Len(q) /\ Head(q) = q[1]
    BY <1>3, EmptySeq, LenProperties
  <2>2. 1 \in DOMAIN q /\ q[1] \in DOMAIN script.seen
    BY <1>3, <2>1, ElementOfSeq
  <2>3. Tail(q) \in Seq(DOMAIN script.seen) /\ Len(Tail(q)) = Len(q) - 1
        /\ \A i \in 1 .. Len(q) - 1 : Tail(q)[i] = q[i + 1]
    BY <1>3, HeadTailProperties
  <2>4. DOMAIN Tail(q) = 1 .. Len(q) - 1 /\ \A i \in 1 .. Len(q) - 1 : i + 1 \in DOMAIN q
    BY <2>1, <2>3, LenProperties
  <2>5. QED
    BY <1>4, <2>1, <2>2, <2>3, <2>4 DEF Range
<1>6. PICK seen : seen = script.seen[d]
  OBVIOUS
<1>7. Read(seen, docs[d]) /\ d \in Doc /\ IsDoc(docs[d]) /\ DocsOK
  BY <1>5, <1>6 DEF Types, ScriptOK, DocsOK
<1>8. PICK o : o = WrittenBack(docs[d], seen)
  OBVIOUS
<1>9. IF o.code = NoCode \/ (docs[d].place = "stored" /\ Refused(docs, d, o.key))
      THEN /\ script' = [script EXCEPT !.aborted = TRUE]
           /\ UNCHANGED <<docs, ledger>>
      ELSE /\ Write(IF docs[d].place = "stored" THEN [docs EXCEPT ![d] = o] ELSE docs, {seen})
           /\ script' = [script EXCEPT !.queue = Tail(q)]
  BY <1>2, <1>4, <1>6, <1>8 DEF WriteBack
<1>10. CASE o.code = NoCode \/ (docs[d].place = "stored" /\ Refused(docs, d, o.key))
  <2>1. GoesOnWith(TRUE, script.failed)
    BY <1>9, <1>10, AbortIs DEF Types
  <2>2. Untouched
    BY <1>1, <1>9, <1>10 DEF Untouched, ledger
  <2>3. QED
    BY <1>1, <2>1, <2>2 DEF WritesBack, GoesOnWith
<1>11. CASE ~(o.code = NoCode \/ (docs[d].place = "stored" /\ Refused(docs, d, o.key)))
  <2>1. /\ Write(IF docs[d].place = "stored" THEN [docs EXCEPT ![d] = o] ELSE docs, {seen})
        /\ script' = [script EXCEPT !.queue = Tail(q)]
    BY <1>9, <1>11
  <2>2. GoesOn
    <3>1. PICK t : t = Tail(q)
      OBVIOUS
    <3>2. script' = [script EXCEPT !.queue = t]
      BY <2>1, <3>1
    <3>3. /\ DOMAIN script' = DOMAIN NoScript /\ script'.page = script.page /\ script'.queue = t
          /\ script'.kind = script.kind /\ script'.seen = script.seen /\ script'.groups = script.groups
      BY <3>2 DEF Types, ScriptOK, NoScript
    <3>4. QED
      BY <1>2, <1>5, <3>1, <3>3 DEF Types, ScriptOK, GoesOn
  <2>3. Writes({seen})
    <3>1. CASE docs[d].place = "stored"
      <4>1. Write([docs EXCEPT ![d] = o], {seen})
        BY <2>1, <3>1
      <4>2. Rewritten(docs[d], o) /\ Follows(docs[d], o, seen)
        BY <1>7, <1>8, <3>1, WrittenBackIs
      <4>3. WritesOne(d, o, {seen})
        BY <4>1, <4>2 DEF WritesOne
      <4>4. QED
        BY <1>7, <4>3, OneWritten
    <3>2. CASE docs[d].place # "stored"
      BY <1>7, <2>1, <3>2, NoneWritten
    <3>3. QED
      BY <3>1, <3>2
  <2>4. QED
    BY <1>1, <2>2, <2>3 DEF WritesBack
<1>12. QED
  BY <1>10, <1>11

LEMMA WriteTypes == ASSUME Types, WriteBack PROVE Types'
<1>1. PICK seen : WritesBack(seen)
  BY WriteIs
<1>2. GoesOn /\ jobs' = jobs /\ crossed' = crossed /\ Quiet
  BY <1>1 DEF WritesBack, Types, ScriptOK
<1>3. DocsOK' /\ Keeps /\ Stays /\ Grows
  BY <1>1, UntouchedIs, WritesIs DEF WritesBack, Types, Grows
<1>4. Quiet'
  BY <1>2 DEF Quiet
<1>5. ScriptOK'
  BY <1>2, <1>3, <1>4, GoesOnIs DEF Types
<1>6. JobsOK'
  BY <1>2, <1>3, SameJobs DEF Types
<1>7. QED
  BY <1>3, <1>5, <1>6 DEF Types

------------------------------------------------------------------------------
(* What the consumers write.                                                *)

\* A document after an update from a message, by who read seen.
RevisesTo(doc, o, m, seen) ==
  /\ IsDoc(o) /\ o.place = doc.place /\ o.sale = doc.sale /\ o.key = KeptKey(m, seen)
  /\ o.history = doc.history \/ Times(seen.history) \subseteq Times(o.history)
  /\ o.code # NoCode \/ o.code = doc.code

LEMMA OccurrenceIs == ASSUME NEW m \in Messages PROVE IsEntry(Occurrence(m)) /\ m.at \in Nat /\ m.code # NoCode
<1>1. m.at \in Nat /\ m.code # NoCode
  BY MessageAssumption
<1>2. QED
  BY <1>1 DEF IsEntry, Occurrence

LEMMA RevisedIs ==
  ASSUME NEW doc, IsDoc(doc), NEW m \in Messages, NEW seen, IsDoc(seen)
  PROVE  RevisesTo(doc, Revised(doc, m, seen), m, seen)
<1>1. IsEntry(Occurrence(m)) /\ m.at \in Nat /\ m.code # NoCode
  BY OccurrenceIs
<1>2. PICK h : h = IF Recording(m, seen) THEN Sorted(Append(seen.history, Occurrence(m))) ELSE doc.history
  OBVIOUS
<1>3. PICK k : k = KeptKey(m, seen)
  OBVIOUS
<1>4. PICK c : c = IF Forward(m, seen) THEN m.code ELSE doc.code
  OBVIOUS
<1>5. PICK u : u = IF Forward(m, seen) THEN m.at ELSE doc.updated
  OBVIOUS
<1>6. PICK mi, s, ks :
        /\ mi = IF Forward(m, seen) /\ m.origin # "IHUB" THEN m.phrase ELSE doc.micro
        /\ s = IF m.status # "" /\ (Forward(m, seen) \/ seen.status = "") THEN m.status ELSE doc.status
        /\ ks = m.keys \cup seen.keys
  OBVIOUS
<1>7. Revised(doc, m, seen) =
        [doc EXCEPT !.code = c, !.updated = u, !.micro = mi, !.status = s, !.key = k, !.keys = ks, !.history = h]
  BY <1>2, <1>3, <1>4, <1>5, <1>6, Zenon DEF Revised
<1>8. PICK o : o = Revised(doc, m, seen)
  OBVIOUS
<1>9. o = [doc EXCEPT !.code = c, !.updated = u, !.micro = mi, !.status = s, !.key = k, !.keys = ks, !.history = h]
  BY <1>7, <1>8
<1>10. /\ DOMAIN o = DOMAIN doc /\ o.place = doc.place /\ o.sale = doc.sale
       /\ o.key = k /\ o.history = h /\ o.code = c /\ o.updated = u
  BY <1>9 DEF IsDoc
<1>11. IsHistory(h) /\ (h = doc.history \/ Times(seen.history) \subseteq Times(h))
  <2>1. PICK a : a = Append(seen.history, Occurrence(m))
    OBVIOUS
  <2>2. IsHistory(a) /\ Times(seen.history) \subseteq Times(a)
    BY <1>1, <2>1, AppendIs DEF IsDoc
  <2>3. IsHistory(Sorted(a)) /\ Times(Sorted(a)) = Times(a)
    BY <2>2, SortedIs
  <2>4. h = doc.history \/ h = Sorted(a)
    BY <1>2, <2>1
  <2>5. QED
    BY <2>2, <2>3, <2>4 DEF IsDoc
<1>12. u \in Nat /\ (c # NoCode \/ c = doc.code)
  BY <1>1, <1>4, <1>5 DEF IsDoc
<1>13. QED
  BY <1>3, <1>8, <1>10, <1>11, <1>12 DEF RevisesTo, IsDoc

LEMMA ResentIs ==
  ASSUME NEW doc, IsDoc(doc), NEW m \in Messages, NEW seen, IsDoc(seen), seen.code # NoCode
  PROVE  RevisesTo(doc, Resent(doc, m, seen), m, seen)
<1>1. PICK o : o = Revised(doc, m, seen)
  OBVIOUS
<1>2. RevisesTo(doc, o, m, seen)
  BY <1>1, RevisedIs
<1>3. PICK c : c = IF Forward(m, seen) THEN m.code ELSE seen.code
  OBVIOUS
<1>4. PICK u : u = IF Forward(m, seen) THEN m.at ELSE seen.updated
  OBVIOUS
<1>5. \E b, s : Resent(doc, m, seen) = [o EXCEPT !.bill = b, !.code = c, !.updated = u, !.status = s]
  BY <1>1, <1>3, <1>4 DEF Resent
<1>6. PICK b, s : Resent(doc, m, seen) = [o EXCEPT !.bill = b, !.code = c, !.updated = u, !.status = s]
  BY <1>5
<1>7. PICK p : p = Resent(doc, m, seen)
  OBVIOUS
<1>8. p = [o EXCEPT !.bill = b, !.code = c, !.updated = u, !.status = s]
  BY <1>6, <1>7
<1>9. /\ DOMAIN p = DOMAIN o /\ p.place = o.place /\ p.sale = o.sale
      /\ p.key = o.key /\ p.history = o.history /\ p.code = c /\ p.updated = u
  BY <1>2, <1>8 DEF RevisesTo, IsDoc
<1>10. u \in Nat /\ c # NoCode
  BY <1>3, <1>4, OccurrenceIs DEF IsDoc
<1>11. QED
  BY <1>2, <1>7, <1>9, <1>10 DEF RevisesTo, IsDoc

LEMMA OverwrittenIs ==
  ASSUME NEW doc, IsDoc(doc), NEW m \in Messages, NEW seen, IsDoc(seen)
  PROVE  RevisesTo(doc, Overwritten(doc, m, seen), m, seen)
<1>1. PICK o : o = Revised(doc, m, seen)
  OBVIOUS
<1>2. RevisesTo(doc, o, m, seen)
  BY <1>1, RevisedIs
<1>3. \E mi, s : Overwritten(doc, m, seen) = [o EXCEPT !.micro = mi, !.status = s]
  BY <1>1 DEF Overwritten
<1>4. PICK mi, s : Overwritten(doc, m, seen) = [o EXCEPT !.micro = mi, !.status = s]
  BY <1>3
<1>5. PICK p : p = Overwritten(doc, m, seen)
  OBVIOUS
<1>6. p = [o EXCEPT !.micro = mi, !.status = s]
  BY <1>4, <1>5
<1>7. /\ DOMAIN p = DOMAIN o /\ p.place = o.place /\ p.sale = o.sale
      /\ p.key = o.key /\ p.history = o.history /\ p.code = o.code /\ p.updated = o.updated
  BY <1>2, <1>6 DEF RevisesTo, IsDoc
<1>8. QED
  BY <1>2, <1>5, <1>7 DEF RevisesTo, IsDoc

\* The update is one by who read what it replaces, and gives it the key read.
LEMMA RevisesFollows ==
  ASSUME NEW doc, doc.place = "stored", NEW m, NEW seen, NEW o, RevisesTo(doc, o, m, seen)
  PROVE  Rewritten(doc, o) /\ Follows(doc, o, seen)
<1>1. Rewritten(doc, o)
  BY DEF RevisesTo, Rewritten
<1>2. Follows(doc, o, seen)
  BY DEF RevisesTo, Follows, KeptKey, Package
<1>3. QED
  BY <1>1, <1>2

\* Documents are written that keep a code or get one.
Handled == \E read : Writes(read) /\ Codeless(docs') \subseteq Codeless(docs)

LEMMA ManyWritten ==
  ASSUME DocsOK, NEW ds, ds = [d \in Doc |-> ds[d]], NEW read, Write(ds, read),
         \A d \in Doc : \/ ds[d] = docs[d]
                        \/ /\ Rewritten(docs[d], ds[d])
                           /\ \A r \in read : Follows(docs[d], ds[d], r)
                           /\ ds[d].code # NoCode \/ (docs[d].place = "stored" /\ ds[d].code = docs[d].code)
  PROVE  Handled
<1>1. docs' = ds
  BY DEF Write
<1>2. Writes(read)
  BY <1>1 DEF Writes
<1>3. Codeless(docs') \subseteq Codeless(docs)
  BY <1>1 DEF Codeless, Stored
<1>4. QED
  BY <1>2, <1>3 DEF Handled

LEMMA UpdateHandled ==
  ASSUME Types, NEW c \in Consumer, ConsumerOK(consumers[c]),
         updateOrder(c) \/ updateOrdersWithMultipleInvoices(c)
  PROVE  Handled
<1>1. PICK m, seen : m = consumers[c].msg /\ seen = consumers[c].seen
  OBVIOUS
<1>2. m \in Messages /\ IsDoc(seen) /\ seen.code # NoCode
  BY <1>1 DEF ConsumerOK, updateOrder, updateOrdersWithMultipleInvoices
<1>3. DocsOK /\ \A d \in Doc : IsDoc(docs[d])
  BY DEF Types, DocsOK
<1>4. CASE updateOrder(c)
  <2>1. PICK ds : ds = [d \in Doc |-> IF d \notin Target(m, seen) THEN docs[d]
                                      ELSE IF m.origin = "IHUB" THEN Resent(docs[d], m, seen)
                                      ELSE Revised(docs[d], m, seen)]
    OBVIOUS
  <2>2. Write(ds, {seen})
    BY <1>1, <1>4, <2>1 DEF updateOrder
  <2>3. ds = [d \in Doc |-> ds[d]]
    BY <2>1
  <2>4. ASSUME NEW d \in Doc, ds[d] # docs[d]
        PROVE  docs[d].place = "stored" /\ RevisesTo(docs[d], ds[d], m, seen)
    <3>1. d \in Target(m, seen) /\ ds[d] \in {Resent(docs[d], m, seen), Revised(docs[d], m, seen)}
      BY <2>1, <2>4
    <3>2. docs[d].place = "stored"
      BY <3>1 DEF Target, First, Matching, Stored
    <3>3. QED
      BY <1>2, <1>3, <3>1, <3>2, RevisedIs, ResentIs
  <2>5. \A d \in Doc : \/ ds[d] = docs[d]
                       \/ /\ Rewritten(docs[d], ds[d]) /\ Follows(docs[d], ds[d], seen)
                          /\ ds[d].code # NoCode \/ (docs[d].place = "stored" /\ ds[d].code = docs[d].code)
    <3> TAKE d \in Doc
    <3>1. SUFFICES ASSUME ds[d] # docs[d]
                   PROVE  /\ Rewritten(docs[d], ds[d]) /\ Follows(docs[d], ds[d], seen)
                          /\ ds[d].code # NoCode \/ (docs[d].place = "stored" /\ ds[d].code = docs[d].code)
      OBVIOUS
    <3>2. docs[d].place = "stored" /\ RevisesTo(docs[d], ds[d], m, seen)
      BY <2>4, <3>1
    <3>3. QED
      BY <3>2, RevisesFollows DEF RevisesTo
  <2>6. QED
    BY <1>3, <2>2, <2>3, <2>5, ManyWritten
<1>5. CASE updateOrdersWithMultipleInvoices(c)
  <2>1. PICK targets : targets = IF indexed THEN Target(m, seen) ELSE Matching(docs, m)
    OBVIOUS
  <2>2. PICK ds : ds = [d \in Doc |-> IF d \in targets THEN Overwritten(docs[d], m, seen) ELSE docs[d]]
    OBVIOUS
  <2>3. Write(ds, {seen})
    BY <1>1, <1>5, <2>1, <2>2 DEF updateOrdersWithMultipleInvoices
  <2>4. ds = [d \in Doc |-> ds[d]]
    BY <2>2
  <2>5. ASSUME NEW d \in Doc, ds[d] # docs[d]
        PROVE  docs[d].place = "stored" /\ RevisesTo(docs[d], ds[d], m, seen)
    <3>1. d \in targets /\ ds[d] = Overwritten(docs[d], m, seen)
      BY <2>2, <2>5
    <3>2. docs[d].place = "stored"
      BY <2>1, <3>1 DEF Target, First, Matching, Stored
    <3>3. QED
      BY <1>2, <1>3, <3>1, <3>2, OverwrittenIs
  <2>6. \A d \in Doc : \/ ds[d] = docs[d]
                       \/ /\ Rewritten(docs[d], ds[d]) /\ Follows(docs[d], ds[d], seen)
                          /\ ds[d].code # NoCode \/ (docs[d].place = "stored" /\ ds[d].code = docs[d].code)
    <3> TAKE d \in Doc
    <3>1. SUFFICES ASSUME ds[d] # docs[d]
                   PROVE  /\ Rewritten(docs[d], ds[d]) /\ Follows(docs[d], ds[d], seen)
                          /\ ds[d].code # NoCode \/ (docs[d].place = "stored" /\ ds[d].code = docs[d].code)
      OBVIOUS
    <3>2. docs[d].place = "stored" /\ RevisesTo(docs[d], ds[d], m, seen)
      BY <2>5, <3>1
    <3>3. QED
      BY <3>2, RevisesFollows DEF RevisesTo
  <2>7. QED
    BY <1>3, <2>3, <2>4, <2>6, ManyWritten
<1>6. QED
  BY <1>4, <1>5

LEMMA CreatedIs ==
  ASSUME NEW m \in Messages, NEW o, o = Created(docs, m)
  PROVE  IsDoc(o) /\ o.place = "stored" /\ o.code # NoCode
<1>1. PICK h : h = IF m.origin = "IHUB" THEN <<>> ELSE <<Occurrence(m)>>
  OBVIOUS
<1>2. IsHistory(h)
  <2>1. PICK e : e = Occurrence(m)
    OBVIOUS
  <2>2. IsEntry(e)
    BY <2>1, OccurrenceIs
  <2>3. <<e>> \in Seq(Range(<<e>>)) /\ <<>> \in Seq(Range(<<>>))
    BY DEF Range
  <2>4. IsHistory(<<e>>) /\ IsHistory(<<>>)
    BY <2>2, <2>3 DEF IsHistory
  <2>5. QED
    BY <1>1, <2>1, <2>4
<1>3. PICK ks : ks = m.keys \cup UNION {docs[d].keys \ NoKeys : d \in First(OfSale(docs, m.sale))}
  OBVIOUS
<1>4. o = [place |-> "stored", sale |-> m.sale, bill |-> m.bill, key |-> m.key, keys |-> ks,
           code |-> m.code, status |-> m.status, micro |-> m.phrase, updated |-> m.at, history |-> h]
  BY <1>1, <1>3 DEF Created
<1>5. m.at \in Nat /\ m.code # NoCode
  BY OccurrenceIs
<1>6. QED
  BY <1>2, <1>4, <1>5 DEF IsDoc

\* The other orders of the sale are only listed under one more key.
LEMMA ListedIs ==
  ASSUME DocsOK, NEW m, NEW ds, ds = Listed(docs, m)
  PROVE  /\ ds = [d \in Doc |-> ds[d]]
         /\ \A d \in Doc : \/ ds[d] = docs[d]
                           \/ /\ Rewritten(docs[d], ds[d]) /\ docs[d].place = "stored"
                              /\ ds[d].code = docs[d].code
<1>1. ds = [d \in Doc |-> ds[d]]
  BY DEF Listed
<1>2. ASSUME NEW d \in Doc, ds[d] # docs[d]
      PROVE  Rewritten(docs[d], ds[d]) /\ docs[d].place = "stored" /\ ds[d].code = docs[d].code
  <2>1. d \in OfSale(docs, m.sale) /\ \E ks : ds[d] = [docs[d] EXCEPT !.keys = ks]
    BY <1>2 DEF Listed
  <2>2. docs[d].place = "stored" /\ IsDoc(docs[d])
    BY <2>1 DEF OfSale, Stored, DocsOK
  <2>3. PICK old, new, ks : old = docs[d] /\ new = ds[d] /\ new = [old EXCEPT !.keys = ks]
    BY <2>1
  <2>4. /\ DOMAIN new = DOMAIN old /\ new.place = old.place /\ new.sale = old.sale
        /\ new.code = old.code /\ new.history = old.history /\ new.updated = old.updated
    BY <2>2, <2>3 DEF IsDoc
  <2>5. QED
    BY <2>2, <2>3, <2>4 DEF Rewritten, IsDoc
<1>3. QED
  BY <1>1, <1>2

LEMMA CreateHandled ==
  ASSUME Types, NEW c \in Consumer, ConsumerOK(consumers[c]), createOrder(c) PROVE Handled
<1>1. PICK m : m = consumers[c].msg
  OBVIOUS
<1>2. m \in Messages
  BY <1>1 DEF ConsumerOK, createOrder
<1>3. PICK listed : listed = Listed(docs, m)
  OBVIOUS
<1>4. PICK d \in Doc :
        /\ docs[d].place = "free"
        /\ Write(IF Refused(docs, d, m.key) \/ \E e \in OfSale(docs, m.sale) : docs[e].key = NoKey
                 THEN listed ELSE [listed EXCEPT ![d] = Created(docs, m)], {})
  BY <1>1, <1>3 DEF createOrder
<1>5. DocsOK
  BY DEF Types
<1>6. /\ listed = [e \in Doc |-> listed[e]]
      /\ \A e \in Doc : \/ listed[e] = docs[e]
                        \/ /\ Rewritten(docs[e], listed[e]) /\ docs[e].place = "stored"
                           /\ listed[e].code = docs[e].code
  BY <1>3, <1>5, ListedIs
<1>7. PICK o : o = Created(docs, m)
  OBVIOUS
<1>8. IsDoc(o) /\ o.place = "stored" /\ o.code # NoCode
  BY <1>2, <1>7, CreatedIs
<1>9. PICK ds : ds \in {listed, [listed EXCEPT ![d] = o]} /\ Write(ds, {})
  BY <1>4, <1>7
<1>10. ds = [e \in Doc |-> ds[e]] /\ \A e \in Doc : ds[e] = listed[e] \/ (e = d /\ ds[e] = o)
  BY <1>6, <1>9
<1>11. \A e \in Doc : \/ ds[e] = docs[e]
                      \/ /\ Rewritten(docs[e], ds[e])
                         /\ ds[e].code # NoCode \/ (docs[e].place = "stored" /\ ds[e].code = docs[e].code)
  <2> TAKE e \in Doc
  <2>1. CASE ds[e] = listed[e]
    BY <1>6, <2>1
  <2>2. CASE e = d /\ ds[e] = o
    BY <1>4, <1>8, <2>2 DEF Rewritten
  <2>3. QED
    BY <1>10, <2>1, <2>2
<1>12. QED
  BY <1>5, <1>9, <1>10, <1>11, ManyWritten

\* A message is read, or what was read is written.
LEMMA HandleIs ==
  ASSUME Types, NEW c \in Consumer, ConsumerOK(consumers[c]), Handle(c)
  PROVE  UNCHANGED <<script, jobs, crossed, cut>> /\ (Untouched \/ Handled)
<1>1. CASE merge(c)
  BY <1>1 DEF merge, Untouched, ledger
<1>2. CASE updateOrder(c) \/ updateOrdersWithMultipleInvoices(c)
  BY <1>2, UpdateHandled DEF updateOrder, updateOrdersWithMultipleInvoices
<1>3. CASE createOrder(c)
  BY <1>3, CreateHandled DEF createOrder
<1>4. QED
  BY <1>1, <1>2, <1>3 DEF Handle

LEMMA HandleTypes ==
  ASSUME Types, UNCHANGED <<script, jobs, crossed, cut>>, Untouched \/ Handled PROVE Types'
<1>1. DocsOK' /\ Keeps /\ Stays /\ Grows
  BY UntouchedIs, WritesIs DEF Handled, Types, Grows
<1>2. Quiet => Quiet'
  BY DEF Quiet
<1>3. ScriptOK'
  <2>1. script.kind \in {"none", "history"} => Quiet'
    BY <1>2 DEF Types, ScriptOK
  <2>2. QED
    BY <1>1, <2>1, SameScript, GoesOnIs DEF Types
<1>4. JobsOK'
  BY <1>1, SameJobs DEF Types
<1>5. QED
  BY <1>1, <1>3, <1>4 DEF Types

\* A consumer updates from a document that had a code.
LEMMA ReadingOK ==
  ASSUME Types, NEW c \in Consumer, consumers' = [consumers EXCEPT ![c] = consumers'[c]],
         consumers = [k \in Consumer |-> consumers[k]], merge(c)
  PROVE  ConsumerOK(consumers'[c])
<1>1. PICK m \in Messages :
        LET found == Found(docs, m)
            reading ==
              IF Matching(docs, m) = {} THEN [st |-> "create", msg |-> m, seen |-> <<>>]
              ELSE IF found = {} \/ ~Updatable(docs[Min(found)]) THEN Free
              ELSE [st |-> IF Cardinality(Matching(docs, m)) = 1 THEN "update" ELSE "updateMany",
                    msg |-> m, seen |-> docs[Min(found)]]
        IN consumers' = [consumers EXCEPT ![c] = reading]
  BY DEF merge
<1>2. PICK found : found = Found(docs, m)
  OBVIOUS
<1>3. PICK seen : seen = docs[Min(found)]
  OBVIOUS
<1>4. PICK st : st = IF Cardinality(Matching(docs, m)) = 1 THEN "update" ELSE "updateMany"
  OBVIOUS
<1>5. consumers'[c] =
        IF Matching(docs, m) = {} THEN [st |-> "create", msg |-> m, seen |-> <<>>]
        ELSE IF found = {} \/ ~Updatable(seen) THEN Free ELSE [st |-> st, msg |-> m, seen |-> seen]
  BY <1>1, <1>2, <1>3, <1>4
<1>6. CASE found = {} \/ ~Updatable(seen) \/ Matching(docs, m) = {}
  <2>1. consumers'[c] \in {[st |-> "create", msg |-> m, seen |-> <<>>], Free}
    BY <1>5, <1>6
  <2>2. QED
    BY <2>1 DEF ConsumerOK, Free
<1>7. CASE found # {} /\ Updatable(seen) /\ Matching(docs, m) # {}
  <2>1. found \subseteq Doc /\ found \in SUBSET Nat
    BY <1>2, MigrationAssumption DEF Found, Matching, Stored
  <2>2. Min(found) \in found
    BY <1>7, <2>1, FirstIs DEF Min
  <2>3. IsDoc(seen) /\ seen.code # NoCode
    BY <1>3, <1>7, <2>1, <2>2 DEF Types, DocsOK, Updatable
  <2>4. consumers'[c] = [st |-> st, msg |-> m, seen |-> seen] /\ st \in {"update", "updateMany"}
    BY <1>4, <1>5, <1>7
  <2>5. QED
    BY <2>3, <2>4 DEF ConsumerOK
<1>8. QED
  BY <1>6, <1>7

LEMMA ConsumersStep == ASSUME Types, ConsumersOK, [Next]_vars PROVE ConsumersOK'
<1>1. ASSUME NEW c \in Consumer, Handle(c) PROVE ConsumersOK'
  <2>1. \E k : consumers' = [consumers EXCEPT ![c] = k]
    BY <1>1 DEF Handle, merge, updateOrder, updateOrdersWithMultipleInvoices, createOrder
  <2>2. consumers = [k \in Consumer |-> consumers[k]]
    BY DEF ConsumersOK
  <2>3. /\ consumers' = [consumers EXCEPT ![c] = consumers'[c]]
        /\ consumers' = [k \in Consumer |-> consumers'[k]]
        /\ \A k \in Consumer \ {c} : consumers'[k] = consumers[k]
    BY <2>1, <2>2
  <2>4. ConsumerOK(consumers'[c])
    <3>1. CASE merge(c)
      BY <2>2, <2>3, <3>1, ReadingOK
    <3>2. CASE updateOrder(c) \/ updateOrdersWithMultipleInvoices(c) \/ createOrder(c)
      <4>1. consumers'[c] = Free
        BY <2>2, <3>2 DEF updateOrder, updateOrdersWithMultipleInvoices, createOrder
      <4>2. QED
        BY <4>1 DEF ConsumerOK, Free
    <3>3. QED
      BY <1>1, <3>1, <3>2 DEF Handle
  <2>5. QED
    BY <2>3, <2>4 DEF ConsumersOK
<1>2. ASSUME consumers' = consumers PROVE ConsumersOK'
  BY <1>2 DEF ConsumersOK
<1>3. ASSUME NEW d \in Doc, Work(d) PROVE consumers' = consumers
  BY <1>3 DEF Work, checkAndUpdateOrder, UpdateFails, FindCopies, DeleteCopies, SaveMerged, MergeFails
<1>4. CASE \/ updateStructureOrders \/ ReadPage \/ NextChunk \/ updateDuplicateOrders \/ NextGroup
           \/ pag \/ ReadBatch \/ WriteBack \/ Finish \/ Stop
  <2>1. consumers' = consumers
    BY <1>4 DEF updateStructureOrders, ReadPage, NextChunk, updateDuplicateOrders, NextGroup,
       pag, ReadBatch, WriteBack, Finish, Stop
  <2>2. QED
    BY <1>2, <2>1
<1>5. CASE UNCHANGED vars
  BY <1>2, <1>5 DEF vars
<1>6. QED
  BY <1>1, <1>2, <1>3, <1>4, <1>5 DEF Next

------------------------------------------------------------------------------
LEMMA StutterTypes == ASSUME Types, UNCHANGED vars PROVE Types'
<1>1. UNCHANGED <<script, jobs, crossed, cut>> /\ Untouched
  BY DEF vars, Untouched, ledger
<1>2. QED
  BY <1>1, HandleTypes

LEMMA TypesStep == ASSUME Types, ConsumersOK, [Next]_vars PROVE Types'
<1>1. CASE updateStructureOrders
  BY <1>1, StructureTypes
<1>2. CASE ReadPage
  BY <1>2, ReadPageReads, ReadTypes
<1>3. CASE NextChunk
  BY <1>3, NextChunkHands, NextChunkTypes
<1>4. CASE updateDuplicateOrders
  BY <1>4, DuplicatesTypes
<1>5. CASE NextGroup
  BY <1>5, NextGroupTypes
<1>6. CASE pag
  BY <1>6, HistoryTypes
<1>7. CASE ReadBatch
  BY <1>7, ReadBatchReads, ReadTypes
<1>8. CASE WriteBack
  BY <1>8, WriteTypes
<1>9. CASE Finish
  BY <1>9, FinishTypes
<1>10. CASE Stop
  BY <1>10, StopTypes
<1>11. ASSUME NEW d \in Doc, Work(d) PROVE Types'
  BY <1>11, CheckTypes, FailTypes, FindTypes, DeleteTypes, SaveTypes, BreakTypes DEF Work
<1>12. ASSUME NEW c \in Consumer, Handle(c) PROVE Types'
  <2>1. ConsumerOK(consumers[c])
    BY DEF ConsumersOK
  <2>2. QED
    BY <1>12, <2>1, HandleIs, HandleTypes
<1>13. CASE UNCHANGED vars
  BY <1>13, StutterTypes
<1>14. QED
  BY <1>1, <1>2, <1>3, <1>4, <1>5, <1>6, <1>7, <1>8, <1>9, <1>10, <1>11, <1>12, <1>13 DEF Next

\* The documents, the script, its jobs and the consumers are always what the
\* code can have made of them: each job is idle, on its way to an order of the
\* page, or holds a merge of documents of one sale, and a consumer that updates
\* holds a document that had a status code.
THEOREM TypesHold == Spec => [](Types /\ ConsumersOK)
<1>1. Init => Types /\ ConsumersOK
  BY InitTypes
<1>2. Types /\ ConsumersOK /\ [Next]_vars => (Types /\ ConsumersOK)'
  BY TypesStep, ConsumersStep
<1>3. QED
  BY <1>1, <1>2, PTL DEF Spec

------------------------------------------------------------------------------
(* What a step does to the documents and the books.                         *)

\* Nothing, and to the merges that are to be saved neither.
Still == Untouched /\ \A d \in Doc : jobs[d].st = "save" \/ jobs'[d].st = "save" => jobs'[d] = jobs[d]

\* The same, but documents are written.
Written ==
  /\ UNCHANGED <<crossed, cut>> /\ \E read : Writes(read)
  /\ \A d \in Doc : jobs[d].st = "save" \/ jobs'[d].st = "save" => jobs'[d] = jobs[d]

\* Merges that were to be saved are not.
Ends(ids) ==
  /\ Halts(ids) /\ \A d \in ids : jobs[d].st = "save"
  /\ \A d \in Doc : /\ jobs'[d].st = "save" => jobs[d].st = "save" /\ jobs'[d] = jobs[d]
                    /\ jobs[d].st = "save" /\ d \notin ids => jobs'[d] = jobs[d]

LEMMA QuietStill ==
  ASSUME Untouched, Quiet, \A d \in Doc : jobs'[d].st \in {"idle", "update", "find"} PROVE Still
<1>1. \A d \in Doc : jobs[d].st # "save" /\ jobs'[d].st # "save"
  BY DEF Quiet, NoJob
<1>2. QED
  BY <1>1 DEF Still

LEMMA EdgeStill == ASSUME Untouched, jobs' = jobs PROVE Still
BY DEF Still

\* A job that saves nothing is taken further, and saves nothing after.
LEMMA JobStill ==
  ASSUME Types, NEW d \in Doc, NEW j, Job(d, j), j.st # "save", jobs[d].st # "save"
  PROVE  \A e \in Doc : jobs[e].st = "save" \/ jobs'[e].st = "save" => jobs'[e] = jobs[e]
<1>1. jobs'[d] = j /\ \A e \in Doc \ {d} : jobs'[e] = jobs[e]
  BY DEF Types, JobsOK, Job
<1>2. QED
  BY <1>1

LEMMA GroupStill == ASSUME Types, NextGroup PROVE Still
<1>1. PICK g \in script.groups : Job(Min(g), [NoJob EXCEPT !.st = "find", !.ids = g])
  BY DEF NextGroup
<1>2. Quiet /\ Untouched
  BY DEF NextGroup, Untouched, ledger
<1>3. \A d \in Doc : jobs'[d].st \in {"idle", "find"}
  <2>1. PICK j : j = [NoJob EXCEPT !.st = "find", !.ids = g]
    OBVIOUS
  <2>2. j.st = "find"
    BY <2>1 DEF NoJob
  <2>3. jobs' = [jobs EXCEPT ![Min(g)] = j] /\ jobs = [d \in Doc |-> jobs[d]]
    BY <1>1, <2>1 DEF Types, JobsOK, Job
  <2>4. \A d \in Doc : jobs'[d] = j \/ jobs'[d] = jobs[d]
    BY <2>3
  <2>5. QED
    BY <1>2, <2>2, <2>4 DEF Quiet, NoJob
<1>4. QED
  BY <1>2, <1>3, QuietStill

LEMMA StepIs ==
  ASSUME Types, ConsumersOK, [Next]_vars
  PROVE  \/ Still \/ Written \/ \E ids \in SUBSET Doc : Ends(ids)
         \/ \E d \in Doc : \E j : Deletes(d, j)
         \/ \E d \in Doc : Saved(d) /\ (SaveLost(d) \/ Saves(d))
<1>1. CASE updateStructureOrders \/ updateDuplicateOrders \/ pag
  <2>1. jobs' = jobs /\ Untouched
    BY <1>1, StructureBegins, DuplicatesBegins, HistoryBegins DEF Begins
  <2>2. QED
    BY <2>1, EdgeStill
<1>2. CASE ReadPage \/ ReadBatch
  <2>1. jobs' = jobs /\ Untouched
    BY <1>2 DEF ReadPage, ReadBatch, Untouched, ledger
  <2>2. QED
    BY <2>1, EdgeStill
<1>3. CASE NextChunk
  <2>1. PICK chunk : Hands(chunk)
    BY <1>3, NextChunkHands
  <2>2. \A d \in Doc : jobs'[d].st \in {"idle", "update", "find"}
    BY <2>1 DEF Hands, NoJob
  <2>3. QED
    BY <2>1, <2>2, QuietStill DEF Hands
<1>4. CASE NextGroup
  BY <1>4, GroupStill
<1>5. CASE WriteBack
  <2>1. PICK seen : WritesBack(seen)
    BY <1>5, WriteIs
  <2>2. QED
    BY <2>1, EdgeStill DEF WritesBack, Written
<1>6. CASE Finish
  <2>1. jobs' = jobs /\ Untouched
    BY <1>6 DEF Finish, Untouched, ledger
  <2>2. QED
    BY <2>1, EdgeStill
<1>7. CASE Stop
  <2>1. PICK ids : ids = {d \in Doc : jobs[d].st = "save"}
    OBVIOUS
  <2>2. Halts(ids) /\ \A d \in Doc : jobs'[d].st = "idle"
    BY <1>7, <2>1 DEF Stop, Halts, Halted, Interrupt, NoJob
  <2>3. Ends(ids) /\ ids \subseteq Doc
    BY <2>1, <2>2 DEF Ends
  <2>4. QED
    BY <2>3
<1>8. ASSUME NEW d \in Doc, checkAndUpdateOrder(d) PROVE Still \/ Written
  <2>1. jobs[d].st = "update" /\ (StartsMerge(d) \/ Updates(d))
    BY <1>8, CheckIs
  <2>2. PICK j : j \in {NoJob, [NoJob EXCEPT !.st = "find"]} /\ Job(d, j)
    BY <2>1 DEF StartsMerge, Updates
  <2>3. j.st # "save"
    BY <2>2 DEF NoJob
  <2>4. QED
    BY <2>1, <2>2, <2>3, JobStill DEF StartsMerge, Updates, Still, Written
<1>9. ASSUME NEW d \in Doc, UpdateFails(d) PROVE Still
  <2>1. Fails(d) /\ NoJob.st # "save"
    BY <1>9, FailIs DEF NoJob
  <2>2. QED
    BY <2>1, JobStill DEF Fails, Still
<1>10. ASSUME NEW d \in Doc, FindCopies(d) PROVE Still
  <2>1. FindsNone(d) \/ \E j : Gathers(d, j)
    BY <1>10, FindIs
  <2>2. NoJob.st # "save"
    BY DEF NoJob
  <2>3. QED
    BY <2>1, <2>2, JobStill DEF FindsNone, Gathers, Still
<1>11. ASSUME NEW d \in Doc, SaveMerged(d)
       PROVE  (Saved(d) /\ (SaveLost(d) \/ Saves(d))) \/ \E ids \in SUBSET Doc : Ends(ids)
  <2>1. Saved(d)
    BY <1>11, SaveIs
  <2>2. CASE SaveRefused(d)
    <3>1. jobs'[d] = NoJob /\ NoJob.st # "save" /\ \A e \in Doc \ {d} : jobs'[e] = jobs[e]
      BY <2>1 DEF Types, JobsOK, Job, Saved, NoJob
    <3>2. Ends({d})
      BY <2>1, <2>2, <3>1 DEF Ends, Saved, SaveRefused
    <3>3. QED
      BY <3>2
  <2>3. QED
    BY <2>1, <2>2 DEF Saved
<1>12. ASSUME NEW d \in Doc, MergeFails(d) PROVE \E ids \in SUBSET Doc : Ends(ids)
  <2>1. Breaks(d)
    BY <1>12, BreakIs
  <2>2. PICK ids : ids = {d} \cap {e \in Doc : jobs[e].st = "save"}
    OBVIOUS
  <2>3. jobs'[d] = NoJob /\ NoJob.st # "save" /\ \A e \in Doc \ {d} : jobs'[e] = jobs[e]
    BY <2>1 DEF Types, JobsOK, Job, Breaks, NoJob
  <2>4. Halts(ids)
    BY <2>1, <2>2 DEF Breaks
  <2>5. Ends(ids) /\ ids \subseteq Doc
    BY <2>2, <2>3, <2>4 DEF Ends
  <2>6. QED
    BY <2>5
<1>13. ASSUME NEW c \in Consumer, Handle(c) PROVE Still \/ Written
  <2>1. ConsumerOK(consumers[c])
    BY DEF ConsumersOK
  <2>2. UNCHANGED <<script, jobs, crossed, cut>> /\ (Untouched \/ Handled)
    BY <1>13, <2>1, HandleIs
  <2>3. QED
    BY <2>2, EdgeStill DEF Handled, Written
<1>14. CASE UNCHANGED vars
  <2>1. jobs' = jobs /\ Untouched
    BY <1>14 DEF vars, Untouched, ledger
  <2>2. QED
    BY <2>1, EdgeStill
<1>15. QED
  BY <1>1, <1>2, <1>3, <1>4, <1>5, <1>6, <1>7, <1>8, <1>9, <1>10, <1>11, <1>12, <1>13, <1>14, DeleteIs
  DEF Next, Work

------------------------------------------------------------------------------
(* An order never vanishes.                                                 *)

LEMMA SaleStays ==
  ASSUME SaleKept, Keeps, Stays, NoneGoes, crossed \subseteq crossed' PROVE SaleKept'
<1>1. \A s : OfSale(docs, s) \subseteq OfSale(docs', s)
  BY DEF OfSale, Stored, Keeps, Stays
<1>2. ASSUME NEW d \in Doc, docs'[d].place = "deleted"
      PROVE  OfSale(docs', docs'[d].sale) # {} \/ docs'[d].sale \in crossed'
  <2>1. docs[d].place = "deleted" /\ docs'[d].sale = docs[d].sale
    BY <1>2 DEF NoneGoes, Keeps
  <2>2. OfSale(docs, docs[d].sale) # {} \/ docs[d].sale \in crossed
    BY <2>1 DEF SaleKept
  <2>3. QED
    BY <1>1, <2>1, <2>2
<1>3. QED
  BY <1>2 DEF SaleKept

LEMMA SaleStep ==
  ASSUME Types, ConsumersOK, SaleKept, [Next]_vars PROVE SaleKept'
<1>1. DocsOK
  BY DEF Types
<1>2. ASSUME docs' = docs, crossed \subseteq crossed' PROVE SaleKept'
  BY <1>2, SameDocs, SaleStays
<1>3. ASSUME NEW read, Writes(read), crossed \subseteq crossed' PROVE SaleKept'
  BY <1>1, <1>3, WritesIs, SaleStays
<1>4. ASSUME NEW d \in Doc, NEW j, Deletes(d, j) PROVE SaleKept'
  <2>1. MergeOK(jobs[d]) /\ crossed \subseteq crossed'
    BY <1>4 DEF Deletes
  <2> DEFINE s == jobs[d].to.sale
             top == jobs[d].survivor
  <2>2. top \in Doc /\ top \notin jobs[d].delete /\ docs[top].sale = s
        /\ (docs[top].place = "stored" \/ s \in crossed)
    BY <2>1 DEF MergeOK, Copies
  <2>3. OfSale(docs', s) # {} \/ s \in crossed'
    <3>1. docs'[top].sale = s /\ docs'[top].place = docs[top].place
      BY <1>1, <1>4, <2>2, DeletedIs
    <3>2. QED
      BY <2>1, <2>2, <3>1 DEF OfSale, Stored
  <2>4. ASSUME NEW e \in Doc, docs'[e].place = "deleted"
        PROVE  OfSale(docs', docs'[e].sale) # {} \/ docs'[e].sale \in crossed'
    <3>1. docs'[e].sale = docs[e].sale
      BY <1>1, <1>4, DeletedIs
    <3>2. CASE docs[e].sale = s
      BY <2>3, <3>1, <3>2
    <3>3. CASE docs[e].sale # s
      <4>1. \A x \in jobs[d].delete : docs[x].sale = s
        BY <2>1 DEF MergeOK, Copies
      <4>2. docs[e].place = "deleted"
        BY <1>1, <1>4, <2>4, <3>3, <4>1, DeletedIs
      <4>3. OfSale(docs, docs[e].sale) # {} \/ docs[e].sale \in crossed
        BY <4>2 DEF SaleKept
      <4>4. OfSale(docs, docs[e].sale) \subseteq OfSale(docs', docs[e].sale)
        BY <1>1, <1>4, <3>3, <4>1, DeletedIs DEF OfSale, Stored
      <4>5. QED
        BY <2>1, <3>1, <4>3, <4>4
    <3>4. QED
      BY <3>2, <3>3
  <2>5. QED
    BY <2>4 DEF SaleKept
<1>5. CASE Still
  BY <1>2, <1>5 DEF Still, Untouched
<1>6. CASE Written
  BY <1>3, <1>6 DEF Written
<1>7. ASSUME NEW ids, Ends(ids) PROVE SaleKept'
  BY <1>2, <1>7 DEF Ends, Halts, Halted
<1>8. ASSUME NEW d \in Doc, SaveLost(d) PROVE SaleKept'
  BY <1>2, <1>8 DEF SaveLost, Halted
<1>9. ASSUME NEW d \in Doc, Saved(d), Saves(d) PROVE SaleKept'
  <2>1. Writes(jobs[d].read) /\ crossed' = crossed
    BY <1>1, <1>9, SavesIs DEF Saved, Saves
  <2>2. QED
    BY <1>3, <2>1
<1>10. QED
  BY <1>4, <1>5, <1>6, <1>7, <1>8, <1>9, StepIs

\* An order never vanishes, whatever the scripts meet: while documents of a
\* sale are merged away one of them stays, unless two merges of it cross.
THEOREM SaleKeptHolds == Spec => []SaleKept
<1>1. Init => SaleKept
  <2> SUFFICES ASSUME Init PROVE SaleKept
    OBVIOUS
  <2>1. PICK s \in Scenarios : docs = s.docs
    BY DEF Init
  <2>2. \A d \in Doc : docs[d].place # "deleted"
    BY <2>1, ScenarioAssumption
  <2>3. QED
    BY <2>2 DEF SaleKept
<1>2. SaleKept /\ Types /\ ConsumersOK /\ [Next]_vars => SaleKept'
  BY SaleStep
<1>3. QED
  BY <1>1, <1>2, TypesHold, PTL DEF Spec

------------------------------------------------------------------------------
(* No occurrence is lost but for the reasons EventsKept names.              *)

\* What is recorded, or deleted and about to be saved.
Held == AllRecorded(docs) \cup UNION {Unsaved(d) : d \in Doc}

LEMMA EventsStay ==
  ASSUME EventsKept, events' \subseteq events \cup AllRecorded(docs'), excused \subseteq excused',
         AllRecorded(docs) \subseteq (Held)' \cup excused',
         \A d \in Doc : Unsaved(d) \subseteq (Held)' \cup excused'
  PROVE  EventsKept'
<1>1. Held \subseteq (Held)' \cup excused'
  BY DEF Held
<1>2. QED
  BY <1>1 DEF EventsKept, Held

\* What a merge will save stays with it as long as it is not touched.
LEMMA UnsavedStays ==
  ASSUME NEW d \in Doc, jobs[d].st = "save" => jobs'[d] = jobs[d] PROVE Unsaved(d) \subseteq (Held)'
<1>1. Unsaved(d) \subseteq Unsaved(d)'
  BY DEF Unsaved
<1>2. QED
  BY <1>1 DEF Held

\* What goes with a write was not read by who writes.
LEMMA WritesEvents ==
  ASSUME NEW read, Writes(read)
  PROVE  /\ AllRecorded(docs) \subseteq AllRecorded(docs') \cup excused'
         /\ events' \subseteq events \cup AllRecorded(docs') /\ excused \subseteq excused'
<1>1. /\ events' = events \cup AllRecorded(docs')
      /\ excused' = excused \cup ((AllRecorded(docs) \ AllRecorded(docs')) \ UNION {Occurrences(r) : r \in read})
  BY DEF Writes, Write
<1>2. ASSUME NEW t \in AllRecorded(docs), NEW r \in read, t \in Occurrences(r) PROVE t \in AllRecorded(docs')
  <2>1. PICK e \in Doc : docs[e].place = "stored" /\ t \in Occurrences(docs[e])
    BY <1>2 DEF AllRecorded, Recorded, Stored
  <2>2. docs'[e].place = "stored" /\ t \in Occurrences(docs'[e])
    <3>1. CASE docs'[e] = docs[e]
      BY <2>1, <3>1
    <3>2. CASE Rewritten(docs[e], docs'[e]) /\ Follows(docs[e], docs'[e], r)
      <4>1. PICK x \in Times(docs[e].history) : t = <<docs[e].sale, x>>
        BY <2>1, OccurrencesAre
      <4>2. x \in Times(r.history)
        BY <1>2, <4>1, OccurrencesAre
      <4>3. x \in Times(docs'[e].history) /\ docs'[e].sale = docs[e].sale /\ docs'[e].place = "stored"
        BY <2>1, <3>2, <4>1, <4>2 DEF Follows, Rewritten
      <4>4. QED
        BY <4>1, <4>3, OccurrencesAre
    <3>3. QED
      BY <3>1, <3>2 DEF Writes
  <2>3. QED
    BY <2>2 DEF AllRecorded, Recorded, Stored
<1>3. QED
  BY <1>1, <1>2

LEMMA MergedOccurrences ==
  ASSUME NEW j, MergeOK(j) PROVE \A r \in j.read : Occurrences(r) \subseteq Occurrences(j.to)
<1> TAKE r \in j.read
<1>1. r.sale = j.to.sale /\ Times(r.history) \subseteq Times(j.to.history)
  BY DEF MergeOK
<1>2. QED
  BY <1>1, OccurrencesAre

LEMMA EventsStep ==
  ASSUME Types, ConsumersOK, EventsKept, [Next]_vars PROVE EventsKept'
<1>1. CASE Still
  <2>1. UNCHANGED <<docs, events, excused>> /\ \A d \in Doc : jobs[d].st = "save" => jobs'[d] = jobs[d]
    BY <1>1 DEF Still, Untouched
  <2>2. AllRecorded(docs) \subseteq (Held)'
    BY <2>1 DEF Held, AllRecorded, Stored, Recorded
  <2>3. QED
    BY <2>1, <2>2, UnsavedStays, EventsStay
<1>2. CASE Written
  <2>1. PICK read : Writes(read)
    BY <1>2 DEF Written
  <2>2. AllRecorded(docs) \subseteq (Held)' \cup excused'
    BY <2>1, WritesEvents DEF Held
  <2>3. \A d \in Doc : Unsaved(d) \subseteq (Held)'
    BY <1>2, UnsavedStays DEF Written
  <2>4. QED
    BY <2>1, <2>2, <2>3, WritesEvents, EventsStay
<1>3. ASSUME NEW ids \in SUBSET Doc, Ends(ids) PROVE EventsKept'
  <2>1. /\ UNCHANGED <<docs, events>> /\ excused' = excused \cup UNION {Unsaved(d) : d \in ids}
        /\ \A d \in Doc : jobs[d].st = "save" /\ d \notin ids => jobs'[d] = jobs[d]
    BY <1>3 DEF Ends, Halts, Halted, Interrupt
  <2>2. AllRecorded(docs) \subseteq (Held)'
    BY <2>1 DEF Held, AllRecorded, Stored, Recorded
  <2>3. \A d \in Doc : Unsaved(d) \subseteq (Held)' \cup excused'
    <3> TAKE d \in Doc
    <3>1. CASE d \in ids
      BY <2>1, <3>1
    <3>2. CASE d \notin ids
      BY <2>1, <3>2, UnsavedStays
    <3>3. QED
      BY <3>1, <3>2
  <2>4. QED
    BY <2>1, <2>2, <2>3, EventsStay
<1>4. ASSUME NEW d \in Doc, NEW j, Deletes(d, j) PROVE EventsKept'
  <2>1. /\ events' = events \cup AllRecorded(docs')
        /\ excused' = excused \cup ((AllRecorded(docs) \ AllRecorded(docs'))
                                      \ UNION {Occurrences(r) : r \in jobs[d].read})
    BY <1>4 DEF Deletes, Write
  <2>2. jobs[d].st = "delete" /\ MergeOK(jobs[d]) /\ j.st = "save" /\ j.to = jobs[d].to
    BY <1>4 DEF Deletes
  <2>3. jobs'[d] = j /\ \A e \in Doc \ {d} : jobs'[e] = jobs[e]
    BY <1>4 DEF Types, JobsOK, Job, Deletes
  <2>4. UNION {Occurrences(r) : r \in jobs[d].read} \subseteq (Held)'
    <3>1. Unsaved(d)' = Occurrences(jobs[d].to)
      BY <2>2, <2>3 DEF Unsaved
    <3>2. \A r \in jobs[d].read : Occurrences(r) \subseteq Unsaved(d)'
      BY <2>2, <3>1, MergedOccurrences
    <3>3. Unsaved(d)' \subseteq (Held)'
      BY DEF Held
    <3>4. QED
      BY <3>2, <3>3
  <2>5. AllRecorded(docs) \subseteq (Held)' \cup excused'
    <3>1. AllRecorded(docs') \subseteq (Held)'
      BY DEF Held
    <3>2. QED
      BY <2>1, <2>4, <3>1
  <2>6. \A e \in Doc : Unsaved(e) \subseteq (Held)'
    BY <2>2, <2>3, UnsavedStays
  <2>7. QED
    BY <2>1, <2>5, <2>6, EventsStay
<1>5. ASSUME NEW d \in Doc, Saved(d), SaveLost(d) PROVE EventsKept'
  <2>1. UNCHANGED <<docs, events>> /\ excused' = excused \cup Unsaved(d)
    BY <1>5 DEF SaveLost, Halted
  <2>2. \A e \in Doc \ {d} : jobs'[e] = jobs[e]
    BY <1>5 DEF Types, JobsOK, Job, Saved
  <2>3. AllRecorded(docs) \subseteq (Held)'
    BY <2>1 DEF Held, AllRecorded, Stored, Recorded
  <2>4. \A e \in Doc : Unsaved(e) \subseteq (Held)' \cup excused'
    BY <2>1, <2>2, UnsavedStays
  <2>5. QED
    BY <2>1, <2>3, <2>4, EventsStay
<1>6. ASSUME NEW d \in Doc, Saved(d), Saves(d) PROVE EventsKept'
  <2>1. MergeOK(jobs[d]) /\ Writes(jobs[d].read) /\ docs'[jobs[d].survivor] = jobs[d].to
    BY <1>6, SavesIs DEF Types, Saved
  <2>2. \A e \in Doc \ {d} : jobs'[e] = jobs[e]
    BY <1>6 DEF Types, JobsOK, Job, Saved
  <2>3. Unsaved(d) \subseteq (Held)'
    <3>1. jobs[d].survivor \in Doc /\ docs'[jobs[d].survivor].place = "stored"
      BY <2>1 DEF MergeOK, Copies
    <3>2. Occurrences(jobs[d].to) \subseteq AllRecorded(docs')
      BY <2>1, <3>1 DEF AllRecorded, Recorded, Stored
    <3>3. QED
      BY <3>2 DEF Unsaved, Held
  <2>4. AllRecorded(docs) \subseteq (Held)' \cup excused'
    BY <2>1, WritesEvents DEF Held
  <2>5. \A e \in Doc : Unsaved(e) \subseteq (Held)'
    BY <2>2, <2>3, UnsavedStays
  <2>6. QED
    BY <2>1, <2>4, <2>5, WritesEvents, EventsStay
<1>7. QED
  BY <1>1, <1>2, <1>3, <1>4, <1>5, <1>6, StepIs

\* An occurrence once recorded stays in the collection, whatever the scripts
\* and the consumers read, unless it goes with a write by who had not read it,
\* or with a merge that is cut off or crossed.
THEOREM EventsKeptHolds == Spec => []EventsKept
<1>1. Init => EventsKept
  BY DEF Init, EventsKept
<1>2. EventsKept /\ Types /\ ConsumersOK /\ [Next]_vars => EventsKept'
  BY EventsStep
<1>3. QED
  BY <1>1, <1>2, TypesHold, PTL DEF Spec

------------------------------------------------------------------------------
(* A package keeps a document with its key.                                 *)

\* A merge is about to save it.
Promised(p) == \E d \in Doc : jobs[d].st = "save" /\ p = Package(jobs[d].to)

\* Where a package is, or why it is gone.
Known(p) ==
  \/ p \in Packages(docs) \/ p \in displaced \/ p[1] \in crossed \cup cut
  \/ Rebilled(p) \/ Promised(p)

IsPackage(p) == p = <<p[1], p[2]>> /\ p[2] \notin {NoKey, Blank}

PackagesKnown == \A p \in known : IsPackage(p) /\ Known(p)

LEMMA PackagesAre == ASSUME NEW ds, NEW p \in Packages(ds) PROVE IsPackage(p)
BY DEF Packages, Package, IsPackage

LEMMA RebilledStays == ASSUME NEW p, Rebilled(p), billed \subseteq billed' PROVE Rebilled(p)'
BY DEF Rebilled

LEMMA PromisedStays ==
  ASSUME NEW p, Promised(p), \A d \in Doc : jobs[d].st = "save" => jobs'[d] = jobs[d] PROVE Promised(p)'
BY DEF Promised

\* A package that goes with a write was not read by who writes, or its order
\* bills another one.
LEMMA WritesPackages ==
  ASSUME NEW read, Writes(read), NEW p \in Packages(docs)
  PROVE  p \in Packages(docs') \/ p \in displaced' \/ Rebilled(p)
<1>1. displaced' = displaced \cup ((Packages(docs) \ Packages(docs')) \ {Package(r) : r \in read})
  BY DEF Writes, Write
<1>2. PICK e \in Doc : docs[e].place = "stored" /\ docs[e].key \notin {NoKey, Blank} /\ p = Package(docs[e])
  BY DEF Packages, Stored
<1>3. ASSUME NEW r \in read, p = Package(r) PROVE p \in Packages(docs') \/ Rebilled(p)
  <2>1. CASE docs'[e] = docs[e]
    BY <1>2, <2>1 DEF Packages, Stored
  <2>2. CASE Rewritten(docs[e], docs'[e]) /\ Follows(docs[e], docs'[e], r)
    <3>1. docs'[e].key = docs[e].key \/ Rebilled(p)
      BY <1>2, <1>3, <2>2 DEF Follows
    <3>2. docs'[e].sale = docs[e].sale /\ docs'[e].place = "stored"
      BY <1>2, <2>2 DEF Rewritten
    <3>3. QED
      BY <1>2, <3>1, <3>2 DEF Packages, Package, Stored
  <2>3. QED
    BY <2>1, <2>2 DEF Writes
<1>4. QED
  BY <1>1, <1>3

LEMMA KnownGrows ==
  ASSUME NEW read, Write(docs', read)
  PROVE  known' = known \cup Packages(docs') /\ billed \subseteq billed' /\ displaced \subseteq displaced'
BY DEF Write

LEMMA PackagesStep ==
  ASSUME Types, ConsumersOK, PackagesKnown, [Next]_vars PROVE PackagesKnown'
<1>1. CASE Still
  <2>1. UNCHANGED <<docs, known, billed, displaced, crossed, cut>>
        /\ \A d \in Doc : jobs[d].st = "save" => jobs'[d] = jobs[d]
    BY <1>1 DEF Still, Untouched
  <2>2. Packages(docs') = Packages(docs)
    BY <2>1 DEF Packages, Stored
  <2>3. \A p : Known(p) => Known(p)'
    BY <2>1, <2>2, RebilledStays, PromisedStays DEF Known
  <2>4. QED
    BY <2>1, <2>3 DEF PackagesKnown, IsPackage
<1>2. ASSUME NEW read, Writes(read), crossed' = crossed, cut' = cut,
             \A p : Promised(p) /\ IsPackage(p) => Promised(p)' \/ p \in Packages(docs')
      PROVE  PackagesKnown'
  <2>1. known' = known \cup Packages(docs') /\ billed \subseteq billed' /\ displaced \subseteq displaced'
    BY <1>2, KnownGrows DEF Writes
  <2>2. ASSUME NEW p \in known' PROVE IsPackage(p) /\ Known(p)'
    <3>1. CASE p \in Packages(docs')
      BY <3>1, PackagesAre DEF Known
    <3>2. CASE p \in known
      <4>1. IsPackage(p) /\ Known(p)
        BY <3>2 DEF PackagesKnown
      <4>2. CASE p \in Packages(docs)
        BY <1>2, <2>1, <4>1, <4>2, WritesPackages, RebilledStays DEF Known
      <4>3. CASE p \in displaced \/ p[1] \in crossed \cup cut
        BY <1>2, <2>1, <4>1, <4>3 DEF Known
      <4>4. CASE Rebilled(p)
        BY <2>1, <4>1, <4>4, RebilledStays DEF Known
      <4>5. CASE Promised(p)
        BY <1>2, <4>1, <4>5 DEF Known
      <4>6. QED
        BY <4>1, <4>2, <4>3, <4>4, <4>5 DEF Known
    <3>3. QED
      BY <2>1, <3>1, <3>2
  <2>3. QED
    BY <2>2 DEF PackagesKnown, IsPackage
<1>3. CASE Written
  BY <1>2, <1>3, PromisedStays DEF Written
<1>4. ASSUME NEW ids \in SUBSET Doc, Ends(ids) PROVE PackagesKnown'
  <2>1. /\ UNCHANGED <<docs, known, billed, displaced, crossed>>
        /\ cut' = cut \cup {docs[jobs[d].survivor].sale : d \in ids}
        /\ \A d \in Doc : jobs[d].st = "save" /\ d \notin ids => jobs'[d] = jobs[d]
    BY <1>4 DEF Ends, Halts, Halted, Interrupt
  <2>2. Packages(docs') = Packages(docs)
    BY <2>1 DEF Packages, Stored
  <2>3. ASSUME NEW p, Promised(p) PROVE Promised(p)' \/ p[1] \in cut'
    <3>1. PICK d \in Doc : jobs[d].st = "save" /\ p = Package(jobs[d].to)
      BY <2>3 DEF Promised
    <3>2. CASE d \in ids
      <4>1. MergeOK(jobs[d])
        BY <3>1 DEF Types, JobsOK, JobOK, Merging
      <4>2. docs[jobs[d].survivor].sale = jobs[d].to.sale
        BY <4>1 DEF MergeOK, Copies
      <4>3. p[1] = jobs[d].to.sale
        BY <3>1 DEF Package
      <4>4. QED
        BY <2>1, <3>2, <4>2, <4>3
    <3>3. CASE d \notin ids
      BY <2>1, <3>1, <3>3 DEF Promised
    <3>4. QED
      BY <3>2, <3>3
  <2>4. \A p : Known(p) => Known(p)'
    BY <2>1, <2>2, <2>3, RebilledStays DEF Known
  <2>5. QED
    BY <2>1, <2>4 DEF PackagesKnown, IsPackage
<1>5. ASSUME NEW d \in Doc, NEW j, Deletes(d, j) PROVE PackagesKnown'
  <2>1. /\ known' = known \cup Packages(docs') /\ billed \subseteq billed' /\ displaced \subseteq displaced'
        /\ crossed \subseteq crossed' /\ cut' = cut
        /\ displaced' = displaced \cup ((Packages(docs) \ Packages(docs')) \ {Package(r) : r \in jobs[d].read})
    BY <1>5, KnownGrows DEF Deletes, Write
  <2>2. jobs[d].st = "delete" /\ MergeOK(jobs[d]) /\ j.st = "save" /\ j.to = jobs[d].to
    BY <1>5 DEF Deletes
  <2>3. jobs'[d] = j /\ \A e \in Doc \ {d} : jobs'[e] = jobs[e]
    BY <1>5 DEF Types, JobsOK, Job, Deletes
  <2>4. ASSUME NEW p, IsPackage(p), NEW r \in jobs[d].read, p = Package(r)
        PROVE  Rebilled(p) \/ Promised(p)'
    <3>1. PICK o : o = jobs[d].to
      OBVIOUS
    <3>2. r.sale = o.sale /\ o.key = InvoiceKey(o) /\ <<o.sale, o.bill>> \in billed
      BY <2>2, <3>1 DEF MergeOK
    <3>3. p = <<o.sale, r.key>> /\ p[1] = o.sale /\ p[2] = r.key /\ r.key \notin {NoKey, Blank}
      BY <2>4, <3>2 DEF IsPackage, Package
    <3>4. CASE o.bill = r.key
      <4>1. p = Package(o)
        BY <3>2, <3>3, <3>4 DEF InvoiceKey, Package
      <4>2. QED
        BY <2>2, <2>3, <3>1, <4>1 DEF Promised
    <3>5. CASE o.bill # r.key
      BY <3>2, <3>3, <3>5 DEF Rebilled
    <3>6. QED
      BY <3>4, <3>5
  <2>5. ASSUME NEW p \in known' PROVE IsPackage(p) /\ Known(p)'
    <3>1. CASE p \in Packages(docs')
      BY <3>1, PackagesAre DEF Known
    <3>2. CASE p \in known
      <4>1. IsPackage(p) /\ Known(p)
        BY <3>2 DEF PackagesKnown
      <4>2. CASE p \in Packages(docs)
        <5>1. p \in Packages(docs') \/ p \in displaced' \/ \E r \in jobs[d].read : p = Package(r)
          BY <2>1, <4>2
        <5>2. QED
          BY <2>1, <2>4, <4>1, <5>1, RebilledStays DEF Known
      <4>3. CASE p \in displaced \/ p[1] \in crossed \cup cut
        BY <2>1, <4>1, <4>3 DEF Known
      <4>4. CASE Rebilled(p)
        BY <2>1, <4>1, <4>4, RebilledStays DEF Known
      <4>5. CASE Promised(p)
        <5>1. \A e \in Doc : jobs[e].st = "save" => jobs'[e] = jobs[e]
          BY <2>2, <2>3
        <5>2. QED
          BY <4>1, <4>5, <5>1, PromisedStays DEF Known
      <4>6. QED
        BY <4>1, <4>2, <4>3, <4>4, <4>5 DEF Known
    <3>3. QED
      BY <2>1, <3>1, <3>2
  <2>6. QED
    BY <2>5 DEF PackagesKnown, IsPackage
<1>6. ASSUME NEW d \in Doc, Saved(d) PROVE jobs[d].st = "save" /\ \A e \in Doc \ {d} : jobs'[e] = jobs[e]
  BY <1>6 DEF Types, JobsOK, Job, Saved
<1>7. ASSUME NEW d \in Doc, Saved(d), SaveLost(d) PROVE PackagesKnown'
  <2>1. UNCHANGED <<docs, known, billed, displaced, crossed, cut>>
    BY <1>7 DEF SaveLost, Halted
  <2>2. Packages(docs') = Packages(docs)
    BY <2>1 DEF Packages, Stored
  <2>3. jobs[d].to.sale \in crossed
    BY <1>7 DEF SaveLost, Saved, MergeOK
  <2>4. ASSUME NEW p, Promised(p) PROVE Promised(p)' \/ p[1] \in crossed'
    <3>1. PICK e \in Doc : jobs[e].st = "save" /\ p = Package(jobs[e].to)
      BY <2>4 DEF Promised
    <3>2. CASE e = d
      BY <2>1, <2>3, <3>1, <3>2 DEF Package
    <3>3. CASE e # d
      BY <1>6, <1>7, <3>1, <3>3 DEF Promised
    <3>4. QED
      BY <3>2, <3>3
  <2>5. \A p : Known(p) => Known(p)'
    BY <2>1, <2>2, <2>4, RebilledStays DEF Known
  <2>6. QED
    BY <2>1, <2>5 DEF PackagesKnown, IsPackage
<1>8. ASSUME NEW d \in Doc, Saved(d), Saves(d) PROVE PackagesKnown'
  <2>1. /\ MergeOK(jobs[d]) /\ Writes(jobs[d].read) /\ docs'[jobs[d].survivor] = jobs[d].to
        /\ crossed' = crossed /\ cut' = cut
    BY <1>8, SavesIs DEF Types, Saved, Saves
  <2>2. jobs[d].survivor \in Doc /\ jobs[d].to.place = "stored"
    BY <2>1 DEF MergeOK, Copies
  <2>3. ASSUME NEW p, Promised(p), IsPackage(p) PROVE Promised(p)' \/ p \in Packages(docs')
    <3>1. PICK e \in Doc : jobs[e].st = "save" /\ p = Package(jobs[e].to)
      BY <2>3 DEF Promised
    <3>2. CASE e = d
      <4>1. jobs[d].to.key \notin {NoKey, Blank}
        BY <2>3, <3>1, <3>2 DEF IsPackage, Package
      <4>2. QED
        BY <2>1, <2>2, <3>1, <3>2, <4>1 DEF Packages, Stored
    <3>3. CASE e # d
      BY <1>6, <1>8, <3>1, <3>3 DEF Promised
    <3>4. QED
      BY <3>2, <3>3
  <2>4. QED
    BY <1>2, <2>1, <2>3
<1>9. QED
  BY <1>1, <1>3, <1>4, <1>5, <1>7, <1>8, StepIs

\* A package keeps a document with its invoice key, however the scripts and the
\* consumers interleave, but for the reasons PackagesKept names.
THEOREM PackagesKeptHolds == Spec => []PackagesKept
<1>1. Init => PackagesKnown
  <2> SUFFICES ASSUME Init PROVE PackagesKnown
    OBVIOUS
  <2>1. known = Packages(docs)
    BY DEF Init
  <2>2. QED
    BY <2>1, PackagesAre DEF PackagesKnown, Known
<1>2. PackagesKnown /\ Types /\ ConsumersOK /\ [Next]_vars => PackagesKnown'
  BY PackagesStep
<1>3. PackagesKnown => PackagesKept
  BY DEF PackagesKnown, Known, Promised, Rebilled, PackagesKept
<1>4. QED
  BY <1>1, <1>2, <1>3, TypesHold, PTL DEF Spec

------------------------------------------------------------------------------
(* A run of updateStructureOrders brings at least a page over.              *)

\* The documents that a job deals with, and those that are with the page, its
\* jobs and the failed writes.
Handles(d) ==
  (IF jobs[d].st \in {"update", "find"} THEN {d} ELSE {}) \cup (IF Merging(d) THEN jobs[d].ids ELSE {})

Out == Range(script.queue) \cup script.failed \cup UNION {Handles(d) : d \in Doc}

Least(m, n) == IF m < n THEN m ELSE n

\* From the first page on, the orders without code that are not being dealt
\* with are at least a page fewer than those that were counted.
Progress ==
  script.kind = "structure" =>
    /\ script.counted \subseteq Doc /\ Codeless(docs) \subseteq script.counted
    /\ script.pages = CeilDiv(Cardinality(script.counted), Size)
    /\ script.page > 0 /\ ~script.aborted =>
         Cardinality(Codeless(docs) \ Out)
           <= Cardinality(script.counted) - Least(Cardinality(script.counted), Size)

LEMMA OutFinite == ASSUME NEW S \in SUBSET Doc PROVE IsFiniteSet(S) /\ Cardinality(S) \in Nat
BY FS_Subset, FS_CardinalityType, MigrationAssumption

LEMMA CodelessIs == ASSUME NEW ds PROVE Codeless(ds) \subseteq Doc
BY DEF Codeless, Stored

LEMMA ProgressStays ==
  ASSUME Progress, script'.kind = script.kind, script'.counted = script.counted,
         script'.pages = script.pages, script'.page > 0 => script.page > 0,
         Codeless(docs') \subseteq Codeless(docs),
         \/ script'.aborted
         \/ script'.aborted = script.aborted /\ Codeless(docs') \ (Out)' \subseteq Codeless(docs) \ Out
  PROVE  Progress'
<1> SUFFICES ASSUME script.kind = "structure" PROVE Progress'
  BY DEF Progress
<1>1. /\ script'.counted \subseteq Doc /\ Codeless(docs') \subseteq script'.counted
      /\ script'.pages = CeilDiv(Cardinality(script'.counted), Size)
  BY DEF Progress
<1>2. ASSUME script'.page > 0, ~script'.aborted
      PROVE  Cardinality(Codeless(docs') \ (Out)')
               <= Cardinality(script'.counted) - Least(Cardinality(script'.counted), Size)
  <2> DEFINE n == Cardinality(script.counted)
             new == Codeless(docs') \ (Out)'
             old == Codeless(docs) \ Out
  <2>1. new \subseteq old /\ old \subseteq Doc
    BY <1>2, CodelessIs
  <2>2. Cardinality(old) <= n - Least(n, Size)
    BY <1>2 DEF Progress
  <2>3. IsFiniteSet(old) /\ Cardinality(old) \in Nat /\ Cardinality(new) \in Nat /\ n \in Nat /\ Size \in Nat
    BY <1>1, <2>1, OutFinite, MigrationAssumption
  <2>4. Cardinality(new) <= Cardinality(old)
    BY <2>1, <2>3, FS_Subset
  <2>5. n - Least(n, Size) \in Nat
    BY <2>3 DEF Least
  <2> HIDE DEF n, new, old
  <2>6. Cardinality(new) <= n - Least(n, Size)
    BY <2>2, <2>3, <2>4, <2>5
  <2>7. QED
    BY <2>6 DEF n, new
<1>3. QED
  BY <1>1, <1>2 DEF Progress

\* The script as it was, but for writes that have failed.
Continues ==
  /\ script'.kind = script.kind /\ script'.counted = script.counted /\ script'.pages = script.pages
  /\ script'.page = script.page /\ script'.queue = script.queue /\ script'.aborted = script.aborted
  /\ script.failed \subseteq script'.failed

\* What leaves the jobs was with the one that is taken further.
LEMMA OutStays ==
  ASSUME Continues, NEW d \in Doc, \A e \in Doc \ {d} : jobs'[e] = jobs[e]
  PROVE  Out \subseteq (Out)' \cup Handles(d) /\ Handles(d)' \cup script'.failed \subseteq (Out)'
<1>1. \A e \in Doc \ {d} : Handles(e)' = Handles(e)
  BY DEF Handles, Merging
<1>2. QED
  BY <1>1 DEF Out, Continues

LEMMA QuietOut == ASSUME Quiet PROVE Out = Range(script.queue) \cup script.failed
<1>1. \A d \in Doc : Handles(d) = {}
  BY DEF Quiet, NoJob, Handles, Merging
<1>2. QED
  BY <1>1 DEF Out

LEMMA StartProgress == ASSUME Types, updateStructureOrders PROVE Progress'
<1>1. /\ script'.kind = "structure" /\ script'.page = 0 /\ script'.counted = Codeless(docs)
      /\ script'.pages = CeilDiv(Cardinality(Codeless(docs)), Size) /\ docs' = docs
  BY DEF updateStructureOrders, NoScript
<1>2. QED
  BY <1>1, CodelessIs DEF Progress

LEMMA PageProgress == ASSUME Types, Progress, ReadPage PROVE Progress'
<1>1. Reads(Codeless(docs)) /\ Quiet /\ script.kind = "structure"
  BY ReadPageReads
<1>2. /\ docs' = docs /\ jobs' = jobs /\ script'.kind = script.kind /\ script'.counted = script.counted
      /\ script'.pages = script.pages /\ script'.aborted = script.aborted
      /\ script'.page = script.page + 1 /\ script.queue = <<>> /\ script'.failed = script.failed
  BY <1>1 DEF Reads, Untouched
<1>3. Out = script.failed /\ (Out)' = Range(script'.queue) \cup script.failed
  <2>1. Quiet'
    BY <1>1, <1>2 DEF Quiet
  <2>2. (Out)' = Range(script'.queue) \cup script.failed
    <3>1. \A d \in Doc : Handles(d)' = {}
      BY <2>1 DEF Quiet, NoJob, Handles, Merging
    <3>2. QED
      BY <1>2, <3>1 DEF Out
  <2>3. Range(script.queue) = {}
    BY <1>2 DEF Range
  <2>4. QED
    BY <1>1, <2>2, <2>3, QuietOut
<1>4. script.page \in Nat /\ Size \in Nat
  BY MigrationAssumption DEF Types, ScriptOK
<1>5. CASE script.page > 0
  <2>1. Codeless(docs') = Codeless(docs) /\ Out \subseteq (Out)'
    BY <1>2, <1>3
  <2>2. QED
    BY <1>2, <1>5, <2>1, ProgressStays
<1>6. CASE script.page = 0
  <2> DEFINE C == Codeless(docs)
             P == Range(script'.queue)
             n == Cardinality(script.counted)
  <2>1. C \subseteq script.counted /\ script.counted \subseteq Doc /\ C \in SUBSET Nat /\ IsFiniteSet(C)
    BY <1>1, FS_Subset, MigrationAssumption DEF Progress
  <2>2. script.page * Size = 0
    BY <1>4, <1>6
  <2>3. script'.queue = Slice(InOrder(C), 0, Size)
    <3>1. script' = [script EXCEPT !.page = @ + 1, !.queue = Slice(InOrder(C), script.page * Size, Size),
                       !.seen = [d \in Range(Slice(InOrder(C), script.page * Size, Size)) |-> docs[d]]]
      BY DEF ReadPage
    <3> HIDE DEF C
    <3>2. script' = [script EXCEPT !.page = @ + 1, !.queue = Slice(InOrder(C), 0, Size),
                       !.seen = [d \in Range(Slice(InOrder(C), 0, Size)) |-> docs[d]]]
      BY <2>2, <3>1
    <3>3. QED
      BY <3>2 DEF Types, ScriptOK, NoScript
  <2> HIDE DEF C
  <2>4. InOrder(C) \in Seq(C) /\ Len(InOrder(C)) = Cardinality(C) /\ IsInjective(InOrder(C))
    BY <2>1, InOrderIs
  <2>5. /\ IsFiniteSet(P) /\ Cardinality(P) = IF Size < Cardinality(C) THEN Size ELSE Cardinality(C)
    BY <1>4, <2>3, <2>4, PrefixIs
  <2>6. P \subseteq C
    <3>1. script'.queue \in Seq(C)
      BY <1>1 DEF Reads, C
    <3>2. QED
      BY <3>1, ElementOfSeq, LenProperties DEF Range
  <2> HIDE DEF P, n
  <2>7. Cardinality(C \ P) = Cardinality(C) - Cardinality(P)
    <3>1. C \cap P = P
      BY <2>6
    <3>2. Cardinality(C \ P) = Cardinality(C) - Cardinality(C \cap P)
      BY <2>1, FS_Difference
    <3>3. QED
      BY <3>1, <3>2
  <2>8. Cardinality(C) \in Nat /\ n \in Nat /\ Cardinality(C) <= n
    <3>1. IsFiniteSet(script.counted)
      BY <2>1, OutFinite
    <3>2. QED
      BY <2>1, <3>1, FS_Subset, FS_CardinalityType DEF n
  <2>9. Cardinality(C \ P) <= n - Least(n, Size)
    <3>1. CASE Size < Cardinality(C)
      BY <1>4, <2>5, <2>7, <2>8, <3>1 DEF Least
    <3>2. CASE ~(Size < Cardinality(C))
      <4>1. Cardinality(C \ P) = 0
        BY <1>4, <2>5, <2>7, <2>8, <3>2
      <4>2. QED
        BY <1>4, <2>8, <4>1 DEF Least
    <3>3. QED
      BY <3>1, <3>2
  <2>10. /\ script'.counted \subseteq Doc /\ Codeless(docs') \subseteq script'.counted
         /\ script'.pages = CeilDiv(Cardinality(script'.counted), Size)
    BY <1>1, <1>2 DEF Progress
  <2> DEFINE left == C \ (P \cup script.failed)
  <2>11. Cardinality(left) <= Cardinality(C \ P) /\ Cardinality(left) \in Nat /\ Cardinality(C \ P) \in Nat
    <3>1. left \subseteq C \ P /\ C \ P \subseteq Doc
      BY <2>1
    <3>2. QED
      BY <3>1, OutFinite, FS_Subset
  <2>12. n - Least(n, Size) \in Nat
    BY <1>4, <2>8 DEF Least
  <2> HIDE DEF left
  <2>13. Cardinality(left) <= n - Least(n, Size)
    BY <2>9, <2>11, <2>12
  <2>14. Codeless(docs') \ (Out)' = left
    BY <1>2, <1>3 DEF C, P, left
  <2>15. QED
    BY <1>2, <2>10, <2>13, <2>14 DEF Progress, n
<1>7. QED
  BY <1>4, <1>5, <1>6

LEMMA ChunkProgress == ASSUME Types, Progress, NEW chunk, Hands(chunk) PROVE Progress'
<1>1. /\ docs' = docs /\ script'.kind = script.kind /\ script'.counted = script.counted
      /\ script'.pages = script.pages /\ script'.page = script.page /\ script'.aborted = script.aborted
      /\ script'.failed = script.failed
  BY DEF Hands, GoesOn, Untouched
<1>2. Out = chunk \cup Range(script'.queue) \cup script.failed
  BY QuietOut DEF Hands
<1>3. chunk \subseteq Doc
  BY ElementOfSeq, LenProperties DEF Hands, Types, ScriptOK, Range
<1>4. \A d \in chunk : d \in Handles(d)'
  <2> TAKE d \in chunk
  <2>1. jobs'[d].st = "update"
    BY <1>3 DEF Hands, NoJob
  <2>2. QED
    BY <2>1 DEF Handles
<1>5. Out \subseteq (Out)'
  BY <1>1, <1>2, <1>3, <1>4 DEF Out
<1>6. QED
  BY <1>1, <1>5, ProgressStays

\* A job that is taken further keeps what it has to deal with, or it has coded
\* it, or could not write it.
LEMMA JobProgress ==
  ASSUME Types, Progress, Continues, NEW d \in Doc, NEW j, Job(d, j),
         Codeless(docs') \subseteq Codeless(docs),
         Handles(d) \cap Codeless(docs') \subseteq Handles(d)' \cup script'.failed
  PROVE  Progress'
<1>1. \A e \in Doc \ {d} : jobs'[e] = jobs[e]
  BY DEF Types, JobsOK, Job
<1>2. Out \subseteq (Out)' \cup Handles(d) /\ Handles(d)' \cup script'.failed \subseteq (Out)'
  BY <1>1, OutStays
<1>3. Codeless(docs') \ (Out)' \subseteq Codeless(docs) \ Out
  BY <1>2
<1>4. QED
  BY <1>3, ProgressStays DEF Continues

LEMMA SameContinues == ASSUME script' = script PROVE Continues
BY DEF Continues

\* A script that is aborted has nothing to bring over.
LEMMA AbortProgress ==
  ASSUME Progress, GoesOnWith(TRUE, script.failed), docs' = docs PROVE Progress'
<1>1. /\ script'.kind = script.kind /\ script'.counted = script.counted
      /\ script'.pages = script.pages /\ script'.aborted
  BY DEF GoesOnWith, GoesOn
<1>2. QED
  BY <1>1 DEF Progress

LEMMA CheckProgress == ASSUME Types, Progress, NEW d \in Doc, checkAndUpdateOrder(d) PROVE Progress'
<1>1. jobs[d].st = "update" /\ (StartsMerge(d) \/ Updates(d))
  BY CheckIs
<1>2. Handles(d) = {d}
  BY <1>1 DEF Handles, Merging
<1>3. CASE StartsMerge(d)
  <2>1. PICK j : j = [NoJob EXCEPT !.st = "find"]
    OBVIOUS
  <2>2. Job(d, j) /\ j.st = "find" /\ UNCHANGED <<docs, script>>
    BY <1>3, <2>1 DEF StartsMerge, NoJob, Untouched
  <2>3. jobs'[d] = j
    BY <2>2 DEF Types, JobsOK, Job
  <2>4. d \in Handles(d)'
    BY <2>2, <2>3 DEF Handles
  <2>5. QED
    BY <1>2, <2>2, <2>4, SameContinues, JobProgress
<1>4. CASE Updates(d)
  <2>1. script' = script /\ Job(d, NoJob)
    BY <1>4 DEF Updates
  <2>2. Codeless(docs') \subseteq Codeless(docs) \ {d}
    BY <1>4 DEF Updates, Codeless, Stored
  <2>3. QED
    BY <1>2, <2>1, <2>2, SameContinues, JobProgress
<1>5. QED
  BY <1>1, <1>3, <1>4

LEMMA FailProgress == ASSUME Types, Progress, NEW d \in Doc, UpdateFails(d) PROVE Progress'
<1>1. jobs[d].st = "update" /\ Job(d, NoJob) /\ GoesOnWith(script.aborted, script.failed \cup {d}) /\ docs' = docs
  BY FailIs DEF Fails, Untouched
<1>2. Handles(d) = {d}
  BY <1>1 DEF Handles, Merging
<1>3. Continues /\ d \in script'.failed
  BY <1>1 DEF GoesOnWith, GoesOn, Continues
<1>4. QED
  BY <1>1, <1>2, <1>3, JobProgress

LEMMA FindProgress ==
  ASSUME Types, Progress, NEW d \in Doc, FindCopies(d) PROVE Progress'
<1>1. jobs[d].st = "find" /\ (FindsNone(d) \/ \E j : Gathers(d, j))
  BY FindIs DEF FindCopies
<1>2. CASE FindsNone(d)
  BY <1>2, AbortProgress DEF FindsNone, Untouched
<1>3. ASSUME NEW j, Gathers(d, j) PROVE Progress'
  <2>1. Job(d, j) /\ j.st = "delete" /\ UNCHANGED <<docs, script>>
        /\ (script.kind = "structure" /\ docs[d].place = "stored" => d \in j.ids)
    BY <1>3 DEF Gathers, Untouched
  <2>2. jobs'[d] = j
    BY <2>1 DEF Types, JobsOK, Job
  <2>3. Handles(d) = {d} /\ Handles(d)' = j.ids
    BY <1>1, <2>1, <2>2 DEF Handles, Merging
  <2>4. CASE script.kind = "structure"
    <3>1. Handles(d) \cap Codeless(docs') \subseteq Handles(d)'
      BY <2>1, <2>3, <2>4 DEF Codeless, Stored
    <3>2. QED
      BY <2>1, <3>1, SameContinues, JobProgress
  <2>5. CASE script.kind # "structure"
    BY <2>1, <2>5 DEF Progress
  <2>6. QED
    BY <2>4, <2>5
<1>4. QED
  BY <1>1, <1>2, <1>3

LEMMA DeleteProgress ==
  ASSUME Types, Progress, NEW d \in Doc, NEW j, Deletes(d, j) PROVE Progress'
<1>1. script' = script /\ Job(d, j) /\ jobs[d].st = "delete" /\ j.st = "save" /\ j.ids = jobs[d].ids
  BY DEF Deletes
<1>2. jobs'[d] = j
  BY <1>1 DEF Types, JobsOK, Job
<1>3. Handles(d)' = Handles(d)
  BY <1>1, <1>2 DEF Handles, Merging
<1>4. Codeless(docs') \subseteq Codeless(docs)
  <2>1. \A e \in Doc : docs'[e].code = docs[e].code /\ docs'[e].place \in {"deleted", docs[e].place}
    BY DeletedIs DEF Types
  <2>2. QED
    BY <2>1 DEF Codeless, Stored
<1>5. QED
  BY <1>1, <1>3, <1>4, SameContinues, JobProgress

LEMMA SavedProgress ==
  ASSUME Types, Progress, NEW d \in Doc, Saved(d) PROVE Progress'
<1>1. /\ jobs[d].st = "save" /\ MergeOK(jobs[d]) /\ Job(d, NoJob)
      /\ SaveRefused(d) \/ SaveLost(d) \/ Saves(d)
  BY DEF Saved
<1>2. Handles(d) = jobs[d].ids
  BY <1>1 DEF Handles, Merging
<1>3. /\ jobs[d].survivor \in Doc /\ jobs[d].to.code # NoCode
      /\ \A x \in jobs[d].ids : x \in Doc /\ (x = jobs[d].survivor \/ docs[x].place = "deleted")
  BY <1>1 DEF MergeOK, Copies
<1>4. CASE SaveRefused(d)
  BY <1>4, AbortProgress DEF SaveRefused, Halts, Halted
<1>5. CASE SaveLost(d)
  <2>1. docs' = docs /\ script' = script /\ docs[jobs[d].survivor].place # "stored"
    BY <1>5 DEF SaveLost, Halted
  <2>2. Handles(d) \cap Codeless(docs') = {}
    BY <1>2, <1>3, <2>1 DEF Codeless, Stored
  <2>3. QED
    BY <1>1, <2>1, <2>2, SameContinues, JobProgress
<1>6. CASE Saves(d)
  <2>1. /\ docs'[jobs[d].survivor] = jobs[d].to /\ script' = script
        /\ \A e \in Doc \ {jobs[d].survivor} : docs'[e] = docs[e]
    BY <1>1, <1>6, SavesIs DEF Types, Saves
  <2>2. Codeless(docs') \subseteq Codeless(docs) \ {jobs[d].survivor}
    BY <1>3, <2>1 DEF Codeless, Stored
  <2>3. Handles(d) \cap Codeless(docs') = {}
    BY <1>2, <1>3, <2>2 DEF Codeless, Stored
  <2>4. QED
    BY <1>1, <2>1, <2>2, <2>3, SameContinues, JobProgress
<1>7. QED
  BY <1>1, <1>4, <1>5, <1>6

LEMMA HandleProgress ==
  ASSUME Progress, UNCHANGED <<script, jobs>>, Codeless(docs') \subseteq Codeless(docs) PROVE Progress'
<1>1. (Out)' = Out
  BY DEF Out, Handles, Merging
<1>2. QED
  BY <1>1, ProgressStays

LEMMA OtherProgress ==
  ASSUME Types, updateDuplicateOrders \/ pag \/ NextGroup \/ ReadBatch \/ WriteBack \/ Finish \/ Stop
  PROVE  script'.kind # "structure"
<1>1. CASE updateDuplicateOrders
  BY <1>1, DuplicatesBegins DEF Begins
<1>2. CASE pag
  BY <1>2, HistoryBegins DEF Begins
<1>3. CASE NextGroup
  BY <1>3 DEF NextGroup, Types, ScriptOK, NoScript
<1>4. CASE ReadBatch
  BY <1>4, ReadBatchReads DEF Reads
<1>5. CASE WriteBack
  BY <1>5, WriteIs DEF WritesBack, GoesOn
<1>6. CASE Finish \/ Stop
  BY <1>6 DEF Finish, Stop, NoScript
<1>7. QED
  BY <1>1, <1>2, <1>3, <1>4, <1>5, <1>6

LEMMA ProgressStep == ASSUME Types, ConsumersOK, Progress, [Next]_vars PROVE Progress'
<1>1. CASE updateStructureOrders
  BY <1>1, StartProgress
<1>2. CASE ReadPage
  BY <1>2, PageProgress
<1>3. CASE NextChunk
  BY <1>3, NextChunkHands, ChunkProgress
<1>4. CASE updateDuplicateOrders \/ pag \/ NextGroup \/ ReadBatch \/ WriteBack \/ Finish \/ Stop
  BY <1>4, OtherProgress DEF Progress
<1>5. ASSUME NEW d \in Doc, Work(d) PROVE Progress'
  <2>1. CASE checkAndUpdateOrder(d)
    BY <2>1, CheckProgress
  <2>2. CASE UpdateFails(d)
    BY <2>2, FailProgress
  <2>3. CASE FindCopies(d)
    BY <2>3, FindProgress
  <2>4. CASE DeleteCopies(d)
    BY <2>4, DeleteIs, DeleteProgress
  <2>5. CASE SaveMerged(d)
    BY <2>5, SaveIs, SavedProgress
  <2>6. CASE MergeFails(d)
    BY <2>6, BreakIs, AbortProgress DEF Breaks, Halts, Halted
  <2>7. QED
    BY <1>5, <2>1, <2>2, <2>3, <2>4, <2>5, <2>6 DEF Work
<1>6. ASSUME NEW c \in Consumer, Handle(c) PROVE Progress'
  <2>1. ConsumerOK(consumers[c])
    BY DEF ConsumersOK
  <2>2. UNCHANGED <<script, jobs>> /\ (Untouched \/ Handled)
    BY <1>6, <2>1, HandleIs
  <2>3. Codeless(docs') \subseteq Codeless(docs)
    BY <2>2 DEF Handled, Untouched
  <2>4. QED
    BY <2>2, <2>3, HandleProgress
<1>7. CASE UNCHANGED vars
  BY <1>7 DEF vars, Progress, Out, Handles, Merging
<1>8. QED
  BY <1>1, <1>2, <1>3, <1>4, <1>5, <1>6, <1>7 DEF Next

\* A run of updateStructureOrders that comes to its end has coded at least a
\* page of the orders it counted, less those whose write failed, however many
\* pages it skipped over and whatever the consumers wrote meanwhile.
THEOREM RunAdvancesHolds == Spec => []RunAdvances
<1>1. Init => Progress
  BY DEF Init, NoScript, Progress
<1>2. Types /\ ConsumersOK /\ Progress /\ [Next]_vars => Progress'
  BY ProgressStep
<1>3. Types /\ Progress => RunAdvances
  <2> SUFFICES ASSUME Types, Progress, script.kind = "structure", Quiet, ~script.aborted, Done
               PROVE  Cardinality((script.counted \cap Codeless(docs)) \ script.failed)
                        <= Cardinality(script.counted) - Least(Cardinality(script.counted), Size)
    BY DEF RunAdvances, Least
  <2> DEFINE n == Cardinality(script.counted)
             left == (script.counted \cap Codeless(docs)) \ script.failed
  <2>1. script.page = script.pages /\ script.queue = <<>> /\ script.page \in Nat
    BY DEF Done, Types, ScriptOK
  <2>2. Out = script.failed
    <3>1. Range(script.queue) = {}
      BY <2>1 DEF Range
    <3>2. QED
      BY <3>1, QuietOut
  <2>3. left = Codeless(docs) \ Out
    BY <2>2 DEF Progress
  <2>4. n \in Nat /\ Size \in Nat \ {0}
    BY OutFinite, MigrationAssumption DEF Progress
  <2>5. CASE script.page > 0
    BY <2>3, <2>5 DEF Progress
  <2>6. CASE script.page = 0
    <3>1. CeilDiv(n, Size) = 0
      BY <2>1, <2>6 DEF Progress
    <3> HIDE DEF n
    <3>2. n = 0
      <4>1. PICK m \in Nat : m = n + Size - 1
        BY <2>4
      <4>2. m \div Size = 0
        BY <3>1, <4>1 DEF CeilDiv
      <4>3. m < Size
        BY <2>4, <4>2
      <4>4. QED
        BY <2>4, <4>1, <4>3
    <3>3. script.counted = {}
      BY <3>2, OutFinite, FS_EmptySet DEF n, Progress
    <3>4. Cardinality(left) = 0
      BY <3>3, FS_EmptySet
    <3>5. QED
      BY <2>4, <3>2, <3>4 DEF n, Least
  <2>7. QED
    BY <2>1, <2>5, <2>6
<1>4. QED
  BY <1>1, <1>2, <1>3, TypesHold, PTL DEF Spec
==============================================================================
