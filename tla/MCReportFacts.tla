--------------------------- MODULE MCReportFacts ---------------------------
(* Small instances of ReportFacts. *)
EXTENDS ReportFacts

Alternating == [h \in Ids |-> IF h % 2 = 1 THEN 1 ELSE 2]
=============================================================================
