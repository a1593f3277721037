-------------------------- MODULE MCInvoiceFeedback --------------------------
(* Two partitions with reports of two integrations, and one partition of    *)
(* the compensator.                                                         *)
EXTENDS InvoiceFeedback

MCPartition == 1 .. 2

MCLog == [p \in MCPartition |->
  IF p = 1 THEN <<[name |-> "intelipost", status |-> "done"],
                  [name |-> "carrier", status |-> "error"]>>
  ELSE <<[name |-> "carrier", status |-> "done"]>>]

MCAsked == [p \in MCPartition |-> IF p = 1 THEN 2 ELSE 0]
==============================================================================
