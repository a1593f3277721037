--------------------------- MODULE MCExportReport ----------------------------
(* Instances of ExportReport for TLC.                                       *)
EXTENDS ExportReport

CONSTANTS o1, o2, o3, o4

MCReq == 1 .. 2
MCOneReq == {1}
MCOrder == {o1, o2, o3, o4}

\* No order, or all but one.
MCListings == {<<>>, <<o1, o2, o3>>}
Full == {<<o1, o2, o3, o4>>}

MCLate == {o4}
MCNoLate == {}

\* The same report twice: only those meet in a file.
Twice == {[r \in Req |-> k] : k \in Kind}
==============================================================================
