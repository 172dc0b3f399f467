------------------------------ MODULE MCCompact ------------------------------
(***************************************************************************)
(* Instances of Compact for TLC: two topics, half days as ticks.           *)
(***************************************************************************)
EXTENDS Compact, TLC

CONSTANTS wine, tea

Command(m, i, d, s) == [sendMail |-> m, createIssue |-> i, dryRun |-> d, skipAI |-> s]

Full == {Command(TRUE, TRUE, FALSE, FALSE)}
Both == Full \cup {Command(TRUE, TRUE, TRUE, TRUE)}

\* Friday of week 2, its Saturday at noon, and the Saturday of week 4.
Biweekly == {37, 39, 66}
=============================================================================
