---------------------------- MODULE MCFeedFetch ----------------------------
(* Instances of FeedFetch for TLC. *)
EXTENDS FeedFetch, TLC

CONSTANTS c1, worker, blog

\* One category: a listed host fetched serially and with an interval, and a
\* host under the defaults.
OneCategory == c1 :> <<worker, blog, worker, blog>>

SerialWorker == (worker :> 1) @@ (blog :> 2)

SpacedWorker == (worker :> 2) @@ (blog :> 0)
=============================================================================
