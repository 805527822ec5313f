----------------------------- MODULE MCLegacyLabels -----------------------------
(***************************************************************************)
(* The refinement of ReportLog with two names and two labels, one suite    *)
(* of one case per run: what the property setters may do to the report.    *)
(***************************************************************************)
EXTENDS LegacyRefinesLog

CONSTANTS n1, n2, epic, custom, p1

MCNames == {n1, n2}
MCLabels == {epic, custom}
MCPatterns == {p1}
=============================================================================
