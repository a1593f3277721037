-------------------------- MODULE OrderStatusProofs --------------------------
(* What sorting one event into a history gives, for histories of any length *)
(* and any status vocabulary.                                               *)
EXTENDS OrderStatus, TLAPS

\* A status has a place on the scale 0..6 of getStatusScale.
LEMMA ScaleRange ==
  ASSUME NEW code PROVE getStatusScale(code) \in 0 .. 6
BY DEF getStatusScale

\* Sorting an entry into a history of entries gives a history of entries.
LEMMA SortedType ==
  ASSUME NEW history \in Seq(Entry), NEW e \in Entry
  PROVE  Sorted(history, e) \in Seq(Entry) /\ Len(Sorted(history, e)) = Len(history) + 1
<1> DEFINE n == Len(history) + 1
<1>1. n \in Nat
  OBVIOUS
<1>2. \A i \in 1 .. n : Sorted(history, e)[i] \in Entry
  BY DEF Sorted
<1>3. Sorted(history, e) \in [1 .. n -> Entry]
  BY <1>2 DEF Sorted
<1>4. QED
  BY <1>1, <1>3

\* Where each entry of the result comes from, when the history was sorted: the
\* entries up to some place, the new one, and the rest moved by one.
LEMMA SortedShape ==
  ASSUME NEW history \in Seq(Entry), NEW e \in Entry, Ordered(history),
         NEW i \in 1 .. Len(history) + 1
  PROVE  \/ /\ i <= Len(history) /\ Scale(history[i]) <= Scale(e)
            /\ Sorted(history, e)[i] = history[i]
         \/ /\ i <= Len(history) => Scale(history[i]) > Scale(e)
            /\ i > 1 => Scale(history[i - 1]) <= Scale(e)
            /\ Sorted(history, e)[i] = e
         \/ /\ i > 1 /\ Scale(history[i - 1]) > Scale(e)
            /\ Sorted(history, e)[i] = history[i - 1]
<1>1. \A j \in 1 .. Len(history) : Scale(history[j]) \in 0 .. 6
  BY ScaleRange DEF Scale
<1>2. Scale(e) \in 0 .. 6
  BY ScaleRange DEF Scale
<1>3. Len(history) \in Nat
  OBVIOUS
<1>4. i > 1 => i - 1 \in 1 .. Len(history)
  BY <1>3
<1>5. Sorted(history, e)[i] =
        IF i <= Len(history) /\ Scale(history[i]) <= Scale(e)
          THEN history[i]
          ELSE IF i = 1 \/ Scale(history[i - 1]) <= Scale(e) THEN e ELSE history[i - 1]
  BY DEF Sorted
<1>6. CASE i <= Len(history) /\ Scale(history[i]) <= Scale(e)
  BY <1>5, <1>6
<1>7. CASE ~(i <= Len(history) /\ Scale(history[i]) <= Scale(e))
  <2>1. i <= Len(history) => Scale(history[i]) > Scale(e)
    BY <1>1, <1>2, <1>3, <1>7
  <2>2. CASE i = 1
    BY <1>5, <1>7, <2>1, <2>2
  <2>3. CASE i > 1 /\ Scale(history[i - 1]) <= Scale(e)
    BY <1>5, <1>7, <2>1, <2>3
  <2>4. CASE i > 1 /\ Scale(history[i - 1]) > Scale(e)
    <3>1. Scale(history[i - 1]) \in 0 .. 6
      BY <1>1, <1>4, <2>4
    <3>2. Sorted(history, e)[i] = history[i - 1]
      BY <1>2, <1>5, <1>7, <2>4, <3>1
    <3>3. QED
      BY <2>4, <3>2
  <2>5. QED
    BY <1>1, <1>2, <1>3, <1>4, <2>2, <2>3, <2>4
<1>8. QED
  BY <1>6, <1>7

\* Sorting keeps a sorted history sorted.
LEMMA SortedOrdered ==
  ASSUME NEW history \in Seq(Entry), NEW e \in Entry, Ordered(history)
  PROVE  Ordered(Sorted(history, e))
<1> DEFINE new == Sorted(history, e)
<1>1. DOMAIN new = 1 .. Len(history) + 1
  BY DEF Sorted
<1>2. \A j \in 1 .. Len(history) : Scale(history[j]) \in 0 .. 6
  BY ScaleRange DEF Scale
<1>3. Scale(e) \in 0 .. 6
  BY ScaleRange DEF Scale
<1>4. \A i, j \in 1 .. Len(history) : i <= j => Scale(history[i]) <= Scale(history[j])
  BY <1>2 DEF Ordered
<1>5. SUFFICES ASSUME NEW i \in 1 .. Len(history) + 1, NEW j \in 1 .. Len(history) + 1, i < j
               PROVE  Scale(new[i]) <= Scale(new[j])
  BY <1>1 DEF Ordered
<1>6. Len(history) \in Nat
  OBVIOUS
<1>7. i \in 1 .. Len(history) /\ j - 1 \in 1 .. Len(history) /\ i <= j - 1
  BY <1>5, <1>6
<1>8. i > 1 => i - 1 \in 1 .. Len(history)
  BY <1>6
<1>9. j <= Len(history) => j \in 1 .. Len(history)
  BY <1>6
<1> HIDE DEF new
<1>10. CASE Scale(history[i]) <= Scale(e) /\ new[i] = history[i]
  <2>1. CASE j <= Len(history) /\ new[j] = history[j]
    BY <1>4, <1>5, <1>7, <1>9, <1>10, <2>1
  <2>2. CASE new[j] = e
    BY <1>10, <2>2
  <2>3. CASE new[j] = history[j - 1]
    BY <1>4, <1>7, <1>10, <2>3
  <2>4. QED
    BY <2>1, <2>2, <2>3, SortedShape DEF new
<1>11. CASE Scale(history[i]) > Scale(e) /\ new[i] = e
  <2>1. CASE j <= Len(history) /\ new[j] = history[j]
    <3>1. Scale(history[i]) <= Scale(history[j])
      BY <1>4, <1>5, <1>7, <1>9, <2>1
    <3>2. QED
      BY <1>2, <1>3, <1>7, <1>9, <1>11, <2>1, <3>1
  <2>2. CASE new[j] = e
    BY <1>3, <1>11, <2>2
  <2>3. CASE new[j] = history[j - 1]
    <3>1. Scale(history[i]) <= Scale(history[j - 1])
      BY <1>4, <1>7
    <3>2. QED
      BY <1>2, <1>3, <1>7, <1>11, <2>3, <3>1
  <2>4. QED
    BY <2>1, <2>2, <2>3, SortedShape DEF new
<1>12. CASE i > 1 /\ Scale(history[i - 1]) > Scale(e) /\ new[i] = history[i - 1]
  <2>1. Scale(history[i - 1]) <= Scale(history[j - 1])
    BY <1>4, <1>7, <1>8, <1>12
  <2>2. Scale(history[j - 1]) > Scale(e)
    BY <1>2, <1>3, <1>7, <1>8, <1>12, <2>1
  <2>3. CASE j <= Len(history) /\ Scale(history[j]) <= Scale(e)
    <3>1. Scale(history[j - 1]) <= Scale(history[j])
      BY <1>4, <1>6, <1>7, <1>9, <2>3
    <3>2. QED
      BY <1>2, <1>3, <1>7, <1>9, <2>2, <2>3, <3>1
  <2>4. CASE Scale(history[j - 1]) <= Scale(e)
    BY <1>2, <1>3, <1>7, <2>2, <2>4
  <2>5. CASE new[j] = history[j - 1]
    BY <1>12, <2>1, <2>5
  <2>6. QED
    BY <1>5, <1>6, <2>3, <2>4, <2>5, SortedShape DEF new
<1>13. QED
  BY <1>7, <1>10, <1>11, <1>12, SortedShape DEF new

\* Sorting a new event into a sorted history without duplicates makes none.
LEMMA SortedAllDifferent ==
  ASSUME NEW history \in Seq(Entry), NEW e \in Entry,
         Ordered(history), AllDifferent(history), ~Knows(history, e)
  PROVE  AllDifferent(Sorted(history, e))
<1> DEFINE new == Sorted(history, e)
<1>1. DOMAIN new = 1 .. Len(history) + 1
  BY DEF Sorted
<1>2. \A j \in 1 .. Len(history) : Scale(history[j]) \in 0 .. 6
  BY ScaleRange DEF Scale
<1>3. Scale(e) \in 0 .. 6
  BY ScaleRange DEF Scale
<1>4. \A i, j \in 1 .. Len(history) : i <= j => Scale(history[i]) <= Scale(history[j])
  BY <1>2 DEF Ordered
<1>5. \A i, j \in 1 .. Len(history) : i # j => ~SameEvent(history[i], history[j])
  BY DEF AllDifferent
<1>6. \A i \in 1 .. Len(history) : ~SameEvent(history[i], e) /\ ~SameEvent(e, history[i])
  BY DEF Knows, SameEvent
<1>7. Len(history) \in Nat
  OBVIOUS
<1>8. SUFFICES ASSUME NEW i \in 1 .. Len(history) + 1, NEW j \in 1 .. Len(history) + 1, i < j
               PROVE  ~SameEvent(new[i], new[j]) /\ ~SameEvent(new[j], new[i])
  BY <1>1, <1>7 DEF AllDifferent
<1>9. i \in 1 .. Len(history) /\ j - 1 \in 1 .. Len(history) /\ i <= j - 1
  BY <1>7, <1>8
<1>10. i > 1 => i - 1 \in 1 .. Len(history)
  BY <1>7
<1>11. j <= Len(history) => j \in 1 .. Len(history)
  BY <1>7
<1> HIDE DEF new
<1>12. CASE Scale(history[i]) <= Scale(e) /\ new[i] = history[i]
  <2>1. CASE j <= Len(history) /\ new[j] = history[j]
    BY <1>5, <1>8, <1>9, <1>11, <1>12, <2>1
  <2>2. CASE new[j] = e
    BY <1>6, <1>9, <1>12, <2>2
  <2>3. CASE Scale(history[j - 1]) > Scale(e) /\ new[j] = history[j - 1]
    <3>1. i # j - 1
      BY <1>2, <1>3, <1>9, <1>12, <2>3
    <3>2. QED
      BY <1>5, <1>9, <1>12, <2>3, <3>1
  <2>4. QED
    BY <1>8, <1>7, <2>1, <2>2, <2>3, SortedShape DEF new
<1>13. CASE Scale(history[i]) > Scale(e) /\ new[i] = e
  <2>1. CASE j <= Len(history) /\ new[j] = history[j]
    BY <1>6, <1>11, <1>13, <2>1
  <2>2. CASE Scale(history[j - 1]) <= Scale(e)
    <3>1. Scale(history[i]) <= Scale(history[j - 1])
      BY <1>4, <1>9
    <3>2. QED
      BY <1>2, <1>3, <1>9, <1>13, <2>2, <3>1
  <2>3. CASE new[j] = history[j - 1]
    BY <1>6, <1>9, <1>13, <2>3
  <2>4. QED
    BY <1>7, <1>8, <2>1, <2>2, <2>3, SortedShape DEF new
<1>14. CASE i > 1 /\ Scale(history[i - 1]) > Scale(e) /\ new[i] = history[i - 1]
  <2>1. i - 1 \in 1 .. Len(history)
    BY <1>10, <1>14
  <2>2. CASE j <= Len(history) /\ new[j] = history[j]
    BY <1>5, <1>8, <1>9, <1>11, <1>14, <2>1, <2>2
  <2>3. CASE new[j] = e
    BY <1>6, <1>14, <2>1, <2>3
  <2>4. CASE new[j] = history[j - 1]
    BY <1>5, <1>8, <1>9, <1>14, <2>1, <2>4
  <2>5. QED
    BY <1>7, <1>8, <2>2, <2>3, <2>4, SortedShape DEF new
<1>15. QED
  BY <1>9, <1>12, <1>13, <1>14, SortedShape DEF new

\* Nothing is lost by sorting: the new event and every old one are known after.
LEMMA SortedKnows ==
  ASSUME NEW history \in Seq(Entry), NEW e \in Entry, Ordered(history)
  PROVE  \A j \in 1 .. Len(history) : Knows(Sorted(history, e), history[j])
<1> DEFINE new == Sorted(history, e)
<1>1. TAKE j \in 1 .. Len(history)
<1>2. DOMAIN new = 1 .. Len(history) + 1
  BY DEF Sorted
<1>3. Len(history) \in Nat
  OBVIOUS
<1>4. CASE Scale(history[j]) <= Scale(e)
  <2>1. new[j] = history[j]
    BY <1>3, <1>4 DEF Sorted
  <2>2. QED
    BY <1>2, <1>3, <2>1 DEF Knows, SameEvent
<1>5. CASE ~(Scale(history[j]) <= Scale(e))
  <2>1. j + 1 \in 1 .. Len(history) + 1 /\ j + 1 # 1 /\ (j + 1) - 1 = j
    BY <1>3
  <2>2. j + 1 <= Len(history) => ~(Scale(history[j + 1]) <= Scale(e))
    <3>1. SUFFICES ASSUME j + 1 <= Len(history) PROVE ~(Scale(history[j + 1]) <= Scale(e))
      OBVIOUS
    <3>2. Scale(history[j]) <= Scale(history[j + 1])
      BY <1>3, <3>1 DEF Ordered
    <3>3. Scale(history[j]) \in 0 .. 6 /\ Scale(history[j + 1]) \in 0 .. 6 /\ Scale(e) \in 0 .. 6
      BY ScaleRange DEF Scale
    <3>4. QED
      BY <1>5, <3>2, <3>3
  <2>3. new[j + 1] = history[j]
    BY <1>5, <2>1, <2>2 DEF Sorted
  <2>4. QED
    BY <1>2, <2>1, <2>3 DEF Knows, SameEvent
<1>6. QED
  BY <1>4, <1>5

\* Sorting brings in nothing but the entry.
LEMMA SortedFrom ==
  ASSUME NEW history \in Seq(Entry), NEW e \in Entry, NEW i \in DOMAIN Sorted(history, e)
  PROVE  Sorted(history, e)[i] = e \/ \E j \in DOMAIN history : Sorted(history, e)[i] = history[j]
<1>1. i \in 1 .. Len(history) + 1 /\ Len(history) \in Nat /\ DOMAIN history = 1 .. Len(history)
  BY DEF Sorted
<1>2. CASE i <= Len(history) /\ Scale(history[i]) <= Scale(e)
  BY <1>1, <1>2 DEF Sorted
<1>3. CASE ~(i <= Len(history) /\ Scale(history[i]) <= Scale(e))
  <2>1. CASE i = 1 \/ Scale(history[i - 1]) <= Scale(e)
    BY <1>1, <1>3, <2>1 DEF Sorted
  <2>2. CASE ~(i = 1 \/ Scale(history[i - 1]) <= Scale(e))
    <3>1. i - 1 \in DOMAIN history /\ Sorted(history, e)[i] = history[i - 1]
      BY <1>1, <1>3, <2>2 DEF Sorted
    <3>2. QED
      BY <3>1
  <2>3. QED
    BY <2>1, <2>2
<1>4. QED
  BY <1>2, <1>3
==============================================================================
