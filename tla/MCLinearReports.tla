--------------------------- MODULE MCLinearReports ---------------------------
(***************************************************************************)
(* Instances of LinearReports for TLC: an issue and a sub-issue; the       *)
(* early morning of a day, the night after and, in one instance, the       *)
(* evening between.                                                        *)
(***************************************************************************)
EXTENDS LinearReports, TLC

CONSTANTS a, c

Backlog == <<a, c>>
=============================================================================
