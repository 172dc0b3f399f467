--------------------------- MODULE InboxDelivery ---------------------------
(***************************************************************************)
(* What wiki/inbox.md promises the person who writes URLs into it: at      *)
(* least once delivery.  A URL is recorded in the wiki (as an entry of a   *)
(* summary.md or of uncat.md, or as a line of a failure log) before it     *)
(* leaves the inbox, and stays recorded, unless its record is contested:   *)
(* then it may be taken away again.  A URL that never had a record is      *)
(* never contested.  WikiDigest is shown to implement this module.         *)
(***************************************************************************)
CONSTANT Urls

VARIABLES
  wanted,    \* the URLs ever written into the inbox
  pending,   \* the URLs that are in the inbox
  recorded,  \* the URLs the wiki has a record of
  exposed,   \* the URLs written into the inbox while it was being rewritten
  contested  \* the URLs whose record may be taken away again

vars == <<wanted, pending, recorded, exposed, contested>>

TypeOK ==
  /\ wanted \subseteq Urls
  /\ pending \subseteq wanted
  /\ recorded \subseteq wanted
  /\ exposed \subseteq wanted
  /\ contested \subseteq wanted

Init ==
  /\ wanted \subseteq Urls
  /\ pending = wanted
  /\ recorded = {}
  /\ exposed = {}
  /\ contested = {}

Ask(u) ==
  /\ wanted' = wanted \cup {u}
  /\ pending' = pending \cup {u}
  /\ exposed' \in {exposed, exposed \cup {u}}
  /\ UNCHANGED <<recorded, contested>>

\* Contested records come and go, also when another URL is recorded.
Sway ==
  /\ recorded' \ contested = recorded \ contested
  /\ recorded' \subseteq wanted
  /\ UNCHANGED <<wanted, pending, exposed, contested>>

Record(u) ==
  /\ u \in wanted
  /\ contested' \in {contested, contested \cup {u}}
  /\ u \in recorded'
  /\ recorded' \ contested' = (recorded \cup {u}) \ contested'
  /\ recorded' \subseteq wanted
  /\ UNCHANGED <<wanted, pending, exposed>>

\* What has a record now is contested from now on.
Contest ==
  /\ contested \subseteq contested'
  /\ contested' \subseteq contested \cup recorded
  /\ UNCHANGED <<wanted, pending, recorded, exposed>>

\* The inbox is replaced.  What is recorded may go, and may come back.
Rewrite ==
  /\ pending' \subseteq wanted
  /\ wanted \ (recorded \cup exposed \cup contested) \subseteq pending'
  /\ UNCHANGED <<wanted, recorded, exposed, contested>>

Next == Rewrite \/ Contest \/ Sway \/ \E u \in Urls : Ask(u) \/ Record(u)

Spec == Init /\ [][Next]_vars
=============================================================================
