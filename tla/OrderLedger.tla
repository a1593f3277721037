----------------------------- MODULE OrderLedger -----------------------------
(* What the orders collection promises to whoever reads it, if every event  *)
(* is handled on its own: an invoice is entered once; from then on its rank *)
(* (getStatusScale) never falls, an event once recorded stays recorded, and *)
(* a closed invoice does not change any more.                               *)
EXTENDS Naturals

CONSTANTS
  Invoice,   \* what the ledger has a line for
  Event,     \* what can be recorded about an invoice
  Rank,      \* how far along an invoice is, a set of numbers
  Absent     \* not entered yet

VARIABLE ledger

Line == [rank : Rank, closed : BOOLEAN, events : SUBSET Event]

Init == ledger = [i \in Invoice |-> Absent]

\* A message records one event, or none (an order message of IHub).
Batch == {{}} \union {{e} : e \in Event}

\* Only the line of invoice i changes, and to a line.
Rewrites(i) ==
  /\ ledger'[i] \in Line
  /\ ledger' = [ledger EXCEPT ![i] = ledger'[i]]

\* The first message about an invoice enters it.
Enter(i) ==
  /\ ledger[i] = Absent
  /\ Rewrites(i)
  /\ ledger'[i].events \in Batch

\* A later message may raise the rank, close the invoice and add its event.
Record(i) ==
  /\ ledger[i] # Absent /\ ~ledger[i].closed
  /\ Rewrites(i)
  /\ ledger'[i].rank >= ledger[i].rank
  /\ \E e \in Batch : ledger'[i].events = ledger[i].events \union e

Next == \E i \in Invoice : Enter(i) \/ Record(i)

Spec == Init /\ [][Next]_ledger
==============================================================================
