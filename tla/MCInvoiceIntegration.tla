------------------------ MODULE MCInvoiceIntegration -------------------------
(* Instances of InvoiceIntegration for TLC.                                 *)
EXTENDS InvoiceIntegration, TLC

CONSTANTS a, b, s1, w1, w2, x1, x2

MCInvoices == {a, b}
MCOneInvoice == {a}
MCSale == {s1}
MCSaleOf == [i \in Invoice |-> s1]

\* Everything can be sent.
AllEnabled == {[i \in Invoice |-> "enabled"]}

AllSetups == [Invoice -> SetupKind]

\* An invoice that can be sent beside one of any kind.
OneEnabled == {setups \in AllSetups : setups[b] = "enabled"}

MCOneWorker == {w1}
MCTwoWorkers == {w1, w2}
MCOneSender == {x1}
MCTwoSenders == {x1, x2}

Alike == Permutations(MCTwoWorkers) \union Permutations(MCTwoSenders)
==============================================================================
