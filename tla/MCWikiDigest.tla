---------------------------- MODULE MCWikiDigest ----------------------------
(* Instances of WikiDigest for TLC. *)
EXTENDS WikiDigest, TLC

CONSTANTS u1, u2, u3, d1, d2, a1, p1

\* A line with two URLs and some text, a blank line.
SharedLine == <<{Note, u1, u2}>>

\* One URL more than the two goroutines of digest_live.
ThreeUrls == <<{Note, u1, u2}, {u3}>>

\* The same URL on two lines, once beside another.
TwinLines == <<{u1}, {}, {Note, u1, u2}>>

\* Two digests that differ in nothing.
Alike == Permutations({d1, d2})
=============================================================================
