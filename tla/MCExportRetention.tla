-------------------------- MODULE MCExportRetention --------------------------
(* Instances of ExportRetention for TLC. *)
EXTENDS ExportRetention, TLC

CONSTANTS e1, e2, v1, v2, c1, d1, d2, r1, r2

Interchangeable == Permutations({d1, d2}) \cup Permutations({r1, r2})
=============================================================================
