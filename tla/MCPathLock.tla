----------------------------- MODULE MCPathLock -----------------------------
(***************************************************************************)
(* Instances of PathLock for TLC: three calls, enough for one to release a *)
(* file while a second waits for it and a third comes for it.              *)
(***************************************************************************)
EXTENDS PathLock, TLC

CONSTANTS c1, c2, c3, summary, okLog

\* Two entries for one summary.md and one failure record.
TopicAndFailure == (c1 :> summary) @@ (c2 :> summary) @@ (c3 :> Nil)

\* Three failure records.
LogOnly == [c \in Calls |-> Nil]

\* All records go to one log.
OneLog == [c \in Calls |-> okLog]
=============================================================================
