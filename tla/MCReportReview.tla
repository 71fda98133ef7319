--------------------------- MODULE MCReportReview ---------------------------
(***************************************************************************)
(* Small instances of ReportReview.                                        *)
(***************************************************************************)
EXTENDS ReportReview, TLC

CONSTANTS h1, h2, alice, phone, v1, v2

\* Alice on her phone, and the phone alone.
SharedPhone == {{alice, phone}, {phone}}

\* Handlers are alike, and so are values.
Symmetry == Permutations(Handler) \cup Permutations(Value)
=============================================================================
